------------------------ MODULE ReleasePipelineProofs ------------------------
(***************************************************************************)
(* Theorems about ReleasePipeline for any number of jobs, servers and      *)
(* commits.                                                                *)
(***************************************************************************)
EXTENDS ReleasePipeline, TLAPS

USE DEF repo, releases, jobs

-----------------------------------------------------------------------------
(* The invariant. Versions and sources never go back along main, at most   *)
(* one step for a commit, and a version keeps its pin. A job that has not  *)
(* pushed has the tree of the commit it started on, but for the pin and,   *)
(* from the build on, the version; one that has pushed has a commit.       *)
Line(log) ==
    /\ \A i \in 1..Len(log) : log[i].version <= i /\ log[i].code <= i
    /\ \A i, k \in 1..Len(log) :
          i <= k => log[i].version <= log[k].version /\ log[i].code <= log[k].code
    /\ \A i, k \in 1..Len(log) : log[i].version = log[k].version => log[i].pin = log[k].pin

JobTree(j) ==
    /\ pc[j] \in {"check", "build", "push"} =>
          /\ base[j] \in 1..Len(main)
          /\ tree[j].code = main[base[j]].code
          /\ tree[j].version = IF pc[j] = "push" THEN main[base[j]].version + 1
                                                 ELSE main[base[j]].version
    /\ pc[j] = "tag" =>
          /\ base[j] \in 1..Len(main) /\ tree[j] \in Commits
          /\ main[base[j]].version + 1 \in Versions
          /\ \/ tree[j].version = main[base[j]].version + 1
             \/ j \in unmade /\ tree[j] = main[base[j]]
    /\ j \in unmade => pc[j] # "idle" /\ base[j] \in 1..Len(main)
JobTrees == \A j \in Jobs : JobTree(j)

(* What starts release.yml is the tag of a person: it has its version. What *)
(* a release got by it is the build of a commit with that version.         *)
QueuedTagged == \A v \in queued : Tagged(v) /\ TagOf(v).tree.version = v

Released ==
    \A v \in Versions : wasmOf[v] # NoWasm =>
        wasmOf[v].version = v /\ \E t \in Commits : Build(t) = wasmOf[v]

RInv == TypeOK /\ Line(main) /\ JobTrees /\ TagsAreOnMain /\ QueuedTagged /\ Released

LEMMA ReleasedIsPinned == TypeOK /\ Line(main) /\ Released => ReleasePinsItsServer
<1> SUFFICES ASSUME TypeOK, Line(main), Released,
                    NEW v \in published, wasmOf[v] # NoWasm
             PROVE  /\ wasmOf[v].version = v
                    /\ \E t \in Commits : Build(t) = wasmOf[v]
                    /\ \A t \in Commits : t.version = v => t.pin = wasmOf[v].pin
  BY DEF ReleasePinsItsServer
<1>1. PICK t \in Commits : Build(t) = wasmOf[v] BY DEF Released, TypeOK
<1>2. wasmOf[v].version = v BY DEF Released, TypeOK
<1>3. t.version = v /\ t.pin = wasmOf[v].pin BY <1>1, <1>2 DEF Build
<1>4. \A u \in Commits : u.version = v => u.pin = t.pin BY <1>3 DEF Line, Commits
<1> QED BY <1>1, <1>2, <1>3, <1>4

LEMMA LineIsOrdered == TypeOK /\ Line(main) => VersionPinsOneServer
<1> SUFFICES ASSUME TypeOK, Line(main) PROVE VersionPinsOneServer OBVIOUS
<1>1. \A s, t \in Commits : s.version = t.version => s.pin = t.pin
  BY DEF Line, Commits
<1>2. \A i \in 1..Len(main) - 1 : main[i].version <= main[i + 1].version
  <2> SUFFICES ASSUME NEW i \in 1..Len(main) - 1
               PROVE  main[i].version <= main[i + 1].version
    OBVIOUS
  <2>1. i \in 1..Len(main) /\ i + 1 \in 1..Len(main) /\ i <= i + 1 BY DEF TypeOK
  <2> QED BY <2>1 DEF Line
<1> QED BY <1>1, <1>2 DEF VersionPinsOneServer

-----------------------------------------------------------------------------
(* Helpers.                                                                *)

LEMMA HeadType == ASSUME TypeOK
                  PROVE  /\ Head1 \in Trees /\ Head1 \in Commits
                         /\ Len(main) \in 1..Len(main) /\ Len(main) \in 1..MaxMain
BY ReleaseAssumption DEF TypeOK, Head1, Commits

LEMMA TreeFields ==
    ASSUME NEW t \in Trees
    PROVE  /\ t.pin \in Pins /\ t.version \in Versions /\ t.code \in 1..MaxMain
           /\ t.wasm \in Built /\ Build(t) \in Built
           /\ t = [pin |-> t.pin, version |-> t.version, code |-> t.code, wasm |-> t.wasm]
BY DEF Trees, Build, Built

(* The head of main has the highest version and the newest sources.        *)
LEMMA HeadIsLast ==
    ASSUME TypeOK, Line(main), NEW t \in Commits
    PROVE  t.version <= Head1.version /\ t.code <= Head1.code
BY HeadType DEF Line, Commits, Head1, TypeOK

(* A commit that goes on from the head.                                    *)
LEMMA AppendLine ==
    ASSUME TypeOK, Line(main), NEW t \in Trees, Len(main) < MaxMain,
           t.version \in {Head1.version, Head1.version + 1},
           t.code \in {Head1.code, Head1.code + 1},
           t.version = Head1.version => t.pin = Head1.pin
    PROVE  Line(Append(main, t))
<1> DEFINE log == Append(main, t)
           n   == Len(main)
<1>1. n \in Nat \ {0} /\ main \in Seq(Trees) BY HeadType DEF TypeOK
<1>2. Len(log) = n + 1 /\ log[n + 1] = t /\ \A i \in 1..n : log[i] = main[i] BY <1>1
<1>3. /\ \A i \in 1..n : main[i] \in Trees /\ main[i].version \in Nat /\ main[i].code \in Nat
      /\ t.version \in Nat /\ t.code \in Nat
  BY <1>1, TreeFields DEF Versions
<1>4. Head1 = main[n] /\ n \in 1..n BY <1>1 DEF Head1
<1>5. \A i \in 1..n : /\ main[i].version <= i /\ main[i].code <= i
                      /\ main[i].version <= main[n].version /\ main[i].code <= main[n].code
  BY <1>1, <1>4 DEF Line
<1> HIDE DEF log
<1>6. \A i \in 1..Len(log) : log[i].version <= i /\ log[i].code <= i
  <2> SUFFICES ASSUME NEW i \in 1..n + 1 PROVE log[i].version <= i /\ log[i].code <= i
    BY <1>2
  <2>1. CASE i \in 1..n BY <2>1, <1>2, <1>5
  <2>2. CASE i = n + 1 BY <2>2, <1>1, <1>2, <1>3, <1>4, <1>5
  <2> QED BY <1>1, <2>1, <2>2
<1>7. \A i, k \in 1..Len(log) :
         i <= k => log[i].version <= log[k].version /\ log[i].code <= log[k].code
  <2> SUFFICES ASSUME NEW i \in 1..n + 1, NEW k \in 1..n + 1, i <= k
               PROVE  log[i].version <= log[k].version /\ log[i].code <= log[k].code
    BY <1>2
  <2>1. CASE k \in 1..n
    <3>1. i \in 1..n BY <2>1, <1>1
    <3>2. log[i] = main[i] /\ log[k] = main[k] BY <2>1, <3>1, <1>2
    <3> QED BY <2>1, <3>1, <3>2 DEF Line
  <2>2. CASE k = n + 1 /\ i \in 1..n
    <3>1. log[i] = main[i] /\ log[k] = t BY <2>2, <1>2
    <3>2. main[n].version <= t.version /\ main[n].code <= t.code BY <1>3, <1>4
    <3>3. main[i].version <= main[n].version /\ main[i].code <= main[n].code BY <2>2, <1>5
    <3> QED BY <2>2, <3>1, <3>2, <3>3, <1>3, <1>4
  <2>3. CASE k = n + 1 /\ i = n + 1 BY <2>3, <1>2, <1>3
  <2> QED BY <1>1, <2>1, <2>2, <2>3
<1>8. \A i, k \in 1..Len(log) : log[i].version = log[k].version => log[i].pin = log[k].pin
  <2>1. \A i \in 1..n : main[i].version = t.version => main[i].pin = t.pin
    <3> SUFFICES ASSUME NEW i \in 1..n, main[i].version = t.version
                 PROVE  main[i].pin = t.pin
      OBVIOUS
    <3>1. t.version = Head1.version BY <1>3, <1>4, <1>5
    <3> QED BY <3>1, <1>4 DEF Line
  <2> SUFFICES ASSUME NEW i \in 1..n + 1, NEW k \in 1..n + 1, log[i].version = log[k].version
               PROVE  log[i].pin = log[k].pin
    BY <1>2
  <2>2. CASE i \in 1..n /\ k \in 1..n BY <2>2, <1>2 DEF Line
  <2>3. CASE i \in 1..n /\ k = n + 1 BY <2>1, <2>3, <1>2
  <2>4. CASE i = n + 1 /\ k \in 1..n BY <2>1, <2>4, <1>2
  <2>5. CASE i = n + 1 /\ k = n + 1 BY <2>5
  <2> QED BY <1>1, <2>2, <2>3, <2>4, <2>5
<1> QED BY <1>6, <1>7, <1>8 DEF Line, log

(* What is on main stays there, and where it was.                          *)
LEMMA AppendKeeps ==
    ASSUME TypeOK, NEW t \in Trees, Len(main) < MaxMain, main' = Append(main, t)
    PROVE  /\ main' \in Seq(Trees) /\ Len(main') \in 1..MaxMain
           /\ Len(main') = Len(main) + 1
           /\ \A i \in 1..Len(main) : i \in 1..Len(main') /\ main'[i] = main[i]
           /\ Commits \subseteq Commits' /\ t \in Commits'
<1>1. main \in Seq(Trees) /\ Len(main) \in Nat /\ MaxMain \in Nat
  BY ReleaseAssumption DEF TypeOK
<1>2. /\ main' \in Seq(Trees) /\ Len(main') = Len(main) + 1 /\ main'[Len(main')] = t
      /\ \A i \in 1..Len(main) : i \in 1..Len(main') /\ main'[i] = main[i]
  BY <1>1
<1>3. Len(main') \in 1..MaxMain BY <1>1, <1>2
<1>4. Commits \subseteq Commits' /\ t \in Commits'
  <2>1. Len(main') \in 1..Len(main') BY <1>1, <1>2
  <2> QED BY <1>2, <2>1 DEF Commits
<1> QED BY <1>2, <1>3, <1>4

LEMMA TagOfIs ==
    ASSUME TagsAreOnMain, NEW t \in tags
    PROVE  TagOf(t.version) = t
BY DEF TagsAreOnMain, TagOf

LEMMA TagOfTagged ==
    ASSUME NEW v, Tagged(v) PROVE TagOf(v) \in tags /\ TagOf(v).version = v
BY DEF Tagged, TagOf

(* A tag that is there keeps its tree.                                     *)
LEMMA TagsStay ==
    ASSUME TagsAreOnMain', tags \subseteq tags', NEW v, Tagged(v)
    PROVE  Tagged(v)' /\ TagOf(v)' = TagOf(v)
<1>1. TagOf(v) \in tags' /\ TagOf(v).version = v BY TagOfTagged
<1>2. \A t \in tags' : t.version = v => t = TagOf(v) BY <1>1 DEF TagsAreOnMain
<1> QED BY <1>1, <1>2 DEF Tagged, TagOf

LEMMA SameRelease ==
    ASSUME RInv, TagsAreOnMain', tags \subseteq tags', UNCHANGED releases
    PROVE  QueuedTagged'
BY TagsStay DEF RInv, QueuedTagged

LEMMA SameWasm == ASSUME Released, wasmOf' = wasmOf, Commits \subseteq Commits'
                  PROVE  Released'
BY DEF Released

LEMMA SameJob ==
    ASSUME TypeOK, NEW j \in Jobs, JobTree(j), pc'[j] = pc[j], base'[j] = base[j],
           tree'[j] = tree[j], Commits \subseteq Commits', (j \in unmade') = (j \in unmade),
           \A i \in 1..Len(main) : i \in 1..Len(main') /\ main'[i] = main[i]
    PROVE  JobTree(j)'
BY DEF JobTree

(* What every push to main leaves intact.                                  *)
LEMMA PushKeeps ==
    ASSUME RInv, NEW t \in Trees, Len(main) < MaxMain, main' = Append(main, t),
           UNCHANGED <<tags, releases, base, unmade>>,
           t.version \in {Head1.version, Head1.version + 1},
           t.code \in {Head1.code, Head1.code + 1},
           t.version = Head1.version => t.pin = Head1.pin
    PROVE  Line(main)' /\ TagsAreOnMain' /\ QueuedTagged' /\ Released'
<1>1. Line(main)' BY AppendLine DEF RInv, Line
<1>2. Commits \subseteq Commits' BY AppendKeeps DEF RInv
<1>3. TagsAreOnMain'
  <2>1. \A j \in unmade : main'[base[j]] = main[base[j]]
    BY AppendKeeps DEF RInv, TypeOK, JobTrees, JobTree
  <2>2. tags' = tags /\ base' = base /\ unmade' = unmade OBVIOUS
  <2>3. \A t1 \in tags : t1.tree \in Commits'
    BY <1>2 DEF RInv, TagsAreOnMain
  <2> QED BY <2>1, <2>2, <2>3 DEF RInv, TagsAreOnMain
<1>4. QueuedTagged' BY <1>3, SameRelease DEF RInv
<1>5. Released' BY <1>2, SameWasm DEF RInv
<1> QED BY <1>1, <1>3, <1>4, <1>5

-----------------------------------------------------------------------------
(* The steps.                                                              *)

LEMMA InitInv == Init => RInv
<1> SUFFICES ASSUME Init PROVE RInv OBVIOUS
<1>1. FirstTree \in Trees /\ FirstTree.version = 1 /\ FirstTree.code = 1
  BY ReleaseAssumption DEF FirstTree, Trees, Built, Pins, Versions
<1>2. main \in Seq(Trees) /\ Len(main) = 1 /\ main[1] = FirstTree BY <1>1 DEF Init
<1>3. TypeOK BY <1>1, <1>2, ReleaseAssumption DEF Init, TypeOK, Pins
<1>4. Line(main) BY <1>1, <1>2 DEF Line
<1> QED BY <1>3, <1>4
        DEF Init, RInv, JobTrees, JobTree, TagsAreOnMain, QueuedTagged, Released

LEMMA MaintainerPushInv ==
    ASSUME RInv, NEW raise \in {0, 1}, NEW rebuild \in BOOLEAN,
           MaintainerPush(raise, rebuild)
    PROVE  RInv'
<1> USE DEF RInv
<1> DEFINE t == [Head1 EXCEPT !.code = @ + 1, !.version = @ + raise]
           c == IF rebuild THEN [t EXCEPT !.wasm = Build(t)] ELSE t
<1>1. /\ main' = Append(main, c) /\ Len(main) < MaxMain
      /\ UNCHANGED <<newest, tags, releases, jobs>>
  BY DEF MaintainerPush
<1>2. Head1 \in Trees /\ Head1.code \in Nat /\ Head1.version \in Nat
  BY HeadType, TreeFields DEF Versions
<1>3. Head1.code + 1 \in 1..MaxMain /\ Head1.version + raise \in Versions
  <2>1. Head1.version <= Len(main) /\ Head1.code <= Len(main)
    BY HeadType DEF Line, Head1
  <2>2. Head1.version >= 1 /\ Head1.code >= 1 BY <1>2, TreeFields DEF Versions
  <2> QED BY <1>1, <1>2, <2>1, <2>2, HeadType, ReleaseAssumption DEF Versions
<1>4. t \in Trees BY <1>2, <1>3 DEF Trees
<1>5. /\ c \in Trees /\ c.version = Head1.version + raise /\ c.code = Head1.code + 1
      /\ c.pin = Head1.pin
  <2>1. t.version = Head1.version + raise /\ t.code = Head1.code + 1 /\ t.pin = Head1.pin
    BY <1>2 DEF Trees
  <2>2. Build(t) \in Built BY <1>4, TreeFields
  <2> HIDE DEF t
  <2>3. [t EXCEPT !.wasm = Build(t)] \in Trees BY <1>4, <2>2 DEF Trees
  <2>4. LET r == [t EXCEPT !.wasm = Build(t)] IN
        r.version = t.version /\ r.code = t.code /\ r.pin = t.pin
    BY <1>4 DEF Trees
  <2> QED BY <1>4, <2>1, <2>3, <2>4
<1> HIDE DEF c, t
<1>6. Line(main)' /\ TagsAreOnMain' /\ QueuedTagged' /\ Released'
  BY <1>1, <1>2, <1>5, PushKeeps
<1>7. TypeOK' BY <1>1, <1>5, AppendKeeps DEF TypeOK
<1>8. JobTrees' BY <1>1, <1>5, AppendKeeps, SameJob DEF JobTrees
<1> QED BY <1>6, <1>7, <1>8

LEMMA MaintainerPinInv == ASSUME RInv, MaintainerPin PROVE RInv'
<1> USE DEF RInv
<1> DEFINE t == [Head1 EXCEPT !.pin = newest]
           c == [t EXCEPT !.version = @ + 1, !.wasm = Build(t)]
<1>1. /\ main' = Append(main, c) /\ Len(main) < MaxMain
      /\ UNCHANGED <<newest, tags, releases, jobs>>
  BY DEF MaintainerPin
<1>2. Head1 \in Trees /\ Head1.code \in Nat /\ Head1.version \in Nat /\ newest \in Pins
  BY HeadType, TreeFields DEF Versions, TypeOK
<1>3. Head1.version + 1 \in Versions
  <2>1. Head1.version <= Len(main) BY HeadType DEF Line, Head1
  <2>2. Head1.version >= 1 BY <1>2, TreeFields DEF Versions
  <2> QED BY <1>1, <1>2, <2>1, <2>2, HeadType, ReleaseAssumption DEF Versions
<1>4. t \in Trees /\ t.version = Head1.version /\ t.code = Head1.code
  BY <1>2 DEF Trees
<1>5. c \in Trees /\ c.version = Head1.version + 1 /\ c.code = Head1.code
  <2>1. Build(t) \in Built BY <1>4, TreeFields
  <2> HIDE DEF t
  <2> QED BY <1>3, <1>4, <2>1 DEF Trees
<1> HIDE DEF c, t
<1>6. c.version # Head1.version BY <1>2, <1>5
<1>7. Line(main)' /\ TagsAreOnMain' /\ QueuedTagged' /\ Released'
  BY <1>1, <1>5, <1>6, PushKeeps
<1>8. TypeOK' BY <1>1, <1>5, AppendKeeps DEF TypeOK
<1>9. JobTrees' BY <1>1, <1>5, AppendKeeps, SameJob DEF JobTrees
<1> QED BY <1>7, <1>8, <1>9

LEMMA MaintainerOtherInv ==
    ASSUME RInv, NEW v \in Versions,
           MaintainerTag \/ MaintainerPublish(v) \/ Publish(v)
    PROVE  RInv'
<1> USE DEF RInv
<1>1. UNCHANGED <<newest, main, pc, base, tree, unmade>>
  BY DEF MaintainerTag, MaintainerPublish, Publish
<1>2. Line(main)' /\ JobTrees' /\ Commits' = Commits
  BY <1>1 DEF Line, JobTrees, JobTree, Commits
<1>3. CASE MaintainerTag
  <2> DEFINE t == [version |-> Head1.version, tree |-> Head1]
  <2>1. /\ tags' = tags \cup {t} /\ queued' = queued \cup {t.version}
        /\ t.tree = Head1 /\ t.version = Head1.version
    BY <1>3 DEF MaintainerTag
  <2>2. /\ Head1 \in Trees /\ Head1.version \in Versions
        /\ t \in [version: Versions, tree: Trees]
    BY HeadType, TreeFields
  <2>3. TypeOK' BY <1>1, <1>3, <2>1, <2>2 DEF TypeOK, MaintainerTag
  <2>4. \A u \in tags : u.version # t.version BY <1>3 DEF MaintainerTag, Tagged
  <2>5. TagsAreOnMain' BY <1>1, <1>2, <2>1, <2>4, HeadType DEF TagsAreOnMain
  <2>6. QueuedTagged'
    <3>1. \A w \in queued : Tagged(w)' /\ TagOf(w)' = TagOf(w)
      BY <2>1, <2>5, TagsStay DEF QueuedTagged
    <3>2. PICK u \in tags' : u = t BY <2>1
    <3>3. Tagged(u.version)' /\ TagOf(u.version)' = u
      BY <2>5, <3>2 DEF Tagged, TagOf, TagsAreOnMain
    <3>4. queued' = queued \cup {u.version} /\ u.tree.version = u.version BY <2>1, <3>2
    <3> QED BY <3>1, <3>3, <3>4 DEF QueuedTagged
  <2>7. Released' BY <1>2, <1>3, SameWasm DEF MaintainerTag
  <2> QED BY <1>2, <2>3, <2>5, <2>6, <2>7
<1>4. CASE MaintainerPublish(v) \/ Publish(v)
  <2>1. tags' = tags /\ queued' \subseteq queued
    BY <1>4 DEF MaintainerPublish, Publish
  <2>2. TagsAreOnMain' BY <1>1, <1>2, <2>1 DEF TagsAreOnMain
  <2>3. QueuedTagged' BY <2>1 DEF QueuedTagged, Tagged, TagOf
  <2>4. CASE Publish(v)
    <3> DEFINE t == TagOf(v).tree
    <3>1. /\ wasmOf' = [wasmOf EXCEPT ![v] = Build(t)]
          /\ published' = published \cup {v} /\ v \in queued
      BY <2>4 DEF Publish
    <3>2. TagOf(v) \in tags BY <3>1, TagOfTagged DEF QueuedTagged
    <3>3. t \in Commits /\ t \in Trees /\ t.version = v
      BY <3>1, <3>2 DEF TagsAreOnMain, TypeOK, QueuedTagged
    <3> HIDE DEF t
    <3>4. Build(t) \in Built /\ Build(t).version = v BY <3>3, TreeFields DEF Build
    <3>5. TypeOK' BY <1>1, <2>1, <3>1, <3>4 DEF TypeOK
    <3>6. wasmOf'[v] = Build(t) /\ \A w \in Versions \ {v} : wasmOf'[w] = wasmOf[w]
      BY <3>1 DEF TypeOK
    <3>7. Released' BY <1>2, <3>3, <3>4, <3>6 DEF Released, Build
    <3> QED BY <1>2, <2>2, <2>3, <3>5, <3>7
  <2>5. CASE MaintainerPublish(v)
    <3>1. wasmOf' = wasmOf /\ published' \subseteq Versions
      BY <2>5 DEF MaintainerPublish, TypeOK
    <3>2. TypeOK' BY <1>1, <2>1, <3>1 DEF TypeOK
    <3>3. Released' BY <1>2, <3>1, SameWasm
    <3> QED BY <1>2, <2>2, <2>3, <3>2, <3>3
  <2> QED BY <1>4, <2>4, <2>5
<1> QED BY <1>3, <1>4

LEMMA JobInv == ASSUME RInv, NEW j \in Jobs, Job(j) PROVE RInv'
<1> USE DEF RInv
<1> DEFINE OthersStay ==
             \A k \in Jobs \ {j} :
                /\ pc'[k] = pc[k] /\ base'[k] = base[k] /\ tree'[k] = tree[k]
                /\ (k \in unmade') = (k \in unmade)
<1>1. OthersStay
  BY DEF TypeOK, Job, JobStart, JobCheck, JobBuild, JobPush, JobPushNothing, JobTag, JobFail,
         GoTo
<1> HIDE DEF OthersStay
<1>0. \A k \in unmade : k \in unmade' /\ base'[k] = base[k]
  <2>1. CASE JobStart(j) BY <2>1 DEF JobStart, TypeOK, JobTrees, JobTree
  <2>2. CASE base' = base /\ unmade \subseteq unmade' BY <2>2
  <2> QED BY <2>1, <2>2
          DEF Job, JobCheck, JobBuild, JobPush, JobPushNothing, JobTag, JobFail
<1>2. CASE main' = main /\ tags' = tags
  <2>1. UNCHANGED <<newest, releases>>
    BY DEF Job, JobStart, JobCheck, JobBuild, JobPush, JobPushNothing, JobTag, JobFail
  <2>2. Line(main)' /\ TagsAreOnMain' /\ Commits' = Commits
    BY <1>0, <1>2 DEF Line, TagsAreOnMain, Commits
  <2>3. QueuedTagged' /\ Released' BY <1>2, <2>1, <2>2, SameRelease, SameWasm
  <2>4. \A k \in Jobs \ {j} : JobTree(k)'
    <3> SUFFICES ASSUME NEW k \in Jobs \ {j} PROVE JobTree(k)' OBVIOUS
    <3>1. /\ pc'[k] = pc[k] /\ base'[k] = base[k] /\ tree'[k] = tree[k]
          /\ (k \in unmade') = (k \in unmade)
      BY <1>1 DEF OthersStay
    <3>2. /\ Commits \subseteq Commits'
          /\ \A i \in 1..Len(main) : i \in 1..Len(main') /\ main'[i] = main[i]
      BY <1>2, <2>2
    <3> QED BY <3>1, <3>2, SameJob DEF JobTrees
  <2>5. ASSUME JobTree(j)', base' \in [Jobs -> 0..MaxMain], tree' \in [Jobs -> Trees],
               unmade' \subseteq Jobs,
               NEW to \in {"check", "build", "push", "tag", "done", "failed"}, GoTo(j, to)
        PROVE  RInv'
    BY <1>2, <2>1, <2>2, <2>3, <2>4, <2>5 DEF TypeOK, GoTo, JobTrees
  <2>6. CASE JobStart(j)
    <3>1. base' = [base EXCEPT ![j] = Len(main)] /\ tree' = [tree EXCEPT ![j] = Head1]
      BY <2>6 DEF JobStart
    <3>2. pc' = [pc EXCEPT ![j] = "check"] BY <2>6 DEF JobStart, GoTo
    <3>3. unmade' = unmade /\ j \notin unmade BY <2>6 DEF JobStart, JobTrees, JobTree
    <3>5. base'[j] = Len(main) /\ tree'[j] = Head1 /\ pc'[j] = "check"
      BY <3>1, <3>2 DEF TypeOK
    <3>6. JobTree(j)' BY <1>2, <3>3, <3>5, HeadType DEF JobTree, Head1
    <3>4. base' \in [Jobs -> 0..MaxMain] /\ tree' \in [Jobs -> Trees]
      BY <3>1, HeadType DEF TypeOK
    <3> QED BY <2>5, <2>6, <3>3, <3>4, <3>6 DEF JobStart, TypeOK
  <2>7. CASE JobCheck(j)
    <3>1. /\ base' = base /\ pc[j] = "check" /\ newest \in Pins
          /\ unmade' = unmade /\ unmade \subseteq Jobs
      BY <2>7 DEF JobCheck, TypeOK
    <3>2. CASE tree' = tree /\ GoTo(j, "done")
      BY <1>2, <3>1, <3>2, <2>5 DEF TypeOK, JobTrees, JobTree, GoTo
    <3>3. CASE tree' = [tree EXCEPT ![j].pin = newest] /\ GoTo(j, "build")
      <4>1. /\ tree'[j] \in Trees /\ tree'[j].code = tree[j].code
            /\ tree'[j].version = tree[j].version
        BY <3>1, <3>3 DEF TypeOK, Trees
      <4>2. tree' \in [Jobs -> Trees] BY <3>3, <4>1 DEF TypeOK
      <4>3. JobTree(j)'
        BY <1>2, <3>1, <3>3, <4>1 DEF TypeOK, JobTrees, JobTree, GoTo
      <4> QED BY <2>5, <3>1, <3>3, <4>2, <4>3 DEF TypeOK
    <3> QED BY <2>7, <3>2, <3>3 DEF JobCheck
  <2>8. CASE JobBuild(j)
    <3>1. /\ base' = base /\ unmade' = unmade /\ pc[j] = "build" /\ tree[j].version < MaxMain
          /\ tree' = [tree EXCEPT ![j].wasm = Build(tree[j]), ![j].version = Bumped(@)]
      BY <2>8 DEF JobBuild
    <3>2. tree[j] \in Trees /\ Build(tree[j]) \in Built BY TreeFields DEF TypeOK
    <3>3. tree[j].version + 1 \in Versions
      BY <3>1, <3>2, TreeFields, ReleaseAssumption DEF Versions
    <3>4. /\ tree'[j] \in Trees /\ tree'[j].code = tree[j].code
          /\ tree'[j].version = tree[j].version + 1
      BY <3>1, <3>2, <3>3 DEF TypeOK, Trees, Bumped
    <3>5. tree' \in [Jobs -> Trees] BY <3>1, <3>4 DEF TypeOK
    <3>6. JobTree(j)'
      BY <1>2, <2>8, <3>1, <3>4 DEF TypeOK, JobTrees, JobTree, JobBuild, GoTo
    <3> QED BY <2>5, <2>8, <3>1, <3>5, <3>6 DEF TypeOK, JobBuild
  <2>9. CASE JobPushNothing(j)
    <3>1. /\ pc[j] = "push" /\ base' = base /\ unmade' = unmade \cup {j}
          /\ tree' = [tree EXCEPT ![j] = main[base[j]]] /\ pc' = [pc EXCEPT ![j] = "tag"]
      BY <2>9 DEF JobPushNothing, GoTo
    <3>2. /\ base[j] \in 1..Len(main) /\ tree[j] \in Trees
          /\ tree[j].version = main[base[j]].version + 1
      BY <3>1 DEF TypeOK, JobTrees, JobTree
    <3>3. main[base[j]] \in Trees /\ main[base[j]] \in Commits
      BY <3>2 DEF TypeOK, Commits
    <3>4. main[base[j]].version + 1 \in Versions BY <3>2, TreeFields
    <3>5. tree'[j] = main[base[j]] /\ pc'[j] = "tag" /\ j \in unmade'
      BY <3>1 DEF TypeOK
    <3>6. JobTree(j)' BY <1>2, <2>2, <3>1, <3>2, <3>3, <3>4, <3>5 DEF JobTree
    <3>7. tree' \in [Jobs -> Trees] /\ unmade' \subseteq Jobs BY <3>1, <3>3 DEF TypeOK
    <3> QED BY <2>5, <2>9, <3>1, <3>6, <3>7 DEF TypeOK, JobPushNothing
  <2>10. CASE UNCHANGED <<base, tree, unmade>> /\ (GoTo(j, "done") \/ GoTo(j, "failed"))
    <3>1. JobTree(j)' BY <1>2, <2>10 DEF TypeOK, GoTo, JobTrees, JobTree
    <3> QED BY <2>5, <2>10, <3>1 DEF TypeOK
  <2>11. CASE JobPush(j)
    <3>1. Append(main, tree[j]) # main BY AppendKeeps DEF TypeOK
    <3> QED BY <1>2, <2>10, <2>11, <3>1 DEF JobPush
  <2>12. CASE JobTag(j) \/ JobFail(j)
    BY <2>10, <2>12 DEF JobTag, JobFail
  <2> QED BY <2>6, <2>7, <2>8, <2>9, <2>11, <2>12 DEF Job
<1>3. CASE JobPush(j) /\ Len(main) = base[j] /\ main' = Append(main, tree[j])
  <2>1. /\ pc[j] = "push" /\ Len(main) < MaxMain /\ tree' = tree /\ base' = base
        /\ UNCHANGED <<newest, tags, releases, unmade>>
    BY <1>3 DEF JobPush
  <2>2. GoTo(j, "tag") BY <1>3 DEF JobPush
  <2>3. /\ tree[j] \in Trees /\ tree[j].version = Head1.version + 1
        /\ tree[j].code = Head1.code /\ Head1.version \in Nat
    <3>1. tree[j] \in Trees BY DEF TypeOK
    <3>2. tree[j].code = main[base[j]].code /\ tree[j].version = main[base[j]].version + 1
      BY <2>1 DEF JobTrees, JobTree
    <3>3. Head1 = main[base[j]] BY <1>3 DEF Head1
    <3>4. Head1.version \in Nat BY HeadType, TreeFields DEF Versions
    <3> QED BY <3>1, <3>2, <3>3, <3>4
  <2>4. Line(main)' /\ TagsAreOnMain' /\ QueuedTagged' /\ Released'
    BY <1>3, <2>1, <2>3, PushKeeps
  <2>5. TypeOK' BY <1>3, <2>1, <2>2, <2>3, AppendKeeps DEF TypeOK, GoTo
  <2>6. /\ Commits \subseteq Commits' /\ tree[j] \in Commits'
        /\ \A i \in 1..Len(main) : i \in 1..Len(main') /\ main'[i] = main[i]
    BY <1>3, <2>1, <2>3, AppendKeeps
  <2>7. \A k \in Jobs \ {j} : JobTree(k)'
    <3> SUFFICES ASSUME NEW k \in Jobs \ {j} PROVE JobTree(k)' OBVIOUS
    <3>1. /\ pc'[k] = pc[k] /\ base'[k] = base[k] /\ tree'[k] = tree[k]
          /\ (k \in unmade') = (k \in unmade)
      BY <1>1 DEF OthersStay
    <3>2. /\ Commits \subseteq Commits'
          /\ \A i \in 1..Len(main) : i \in 1..Len(main') /\ main'[i] = main[i]
      BY <2>6
    <3> QED BY <3>1, <3>2, SameJob DEF JobTrees
  <2>8. JobTree(j)'
    <3>1. base[j] \in 1..Len(main) /\ tree[j].version = main[base[j]].version + 1
      BY <2>1 DEF JobTrees, JobTree
    <3>2. /\ base'[j] \in 1..Len(main') /\ main'[base'[j]] = main[base[j]]
          /\ tree'[j] = tree[j] /\ pc'[j] = "tag" /\ unmade' = unmade
      BY <2>1, <2>2, <2>6, <3>1 DEF TypeOK, GoTo
    <3>3. tree[j].version \in Versions BY <2>3, TreeFields
    <3> QED BY <2>6, <3>1, <3>2, <3>3 DEF JobTree
  <2> QED BY <2>4, <2>5, <2>7, <2>8 DEF JobTrees
<1>4. CASE JobTag(j) /\ ~(main' = main /\ tags' = tags)
  <2> DEFINE v == Bumped(main[base[j]].version)
             t == [version |-> v, tree |-> tree[j]]
  <2>1. /\ pc[j] = "tag" /\ GoTo(j, "done") /\ ~Tagged(v) /\ tags' = tags \cup {t}
        /\ UNCHANGED <<newest, main, releases, base, tree, unmade>>
    BY <1>4 DEF JobTag
  <2>2. /\ base[j] \in 1..Len(main) /\ tree[j] \in Commits /\ tree[j] \in Trees
        /\ v \in Versions /\ v = main[base[j]].version + 1
        /\ tree[j].version = v \/ (j \in unmade /\ tree[j] = main[base[j]])
    BY <2>1 DEF TypeOK, JobTrees, JobTree, Bumped
  <2>3. t \in [version: Versions, tree: Trees] /\ t.version = v /\ t.tree = tree[j] BY <2>2
  <2>4. Bumped(main[base[j]].version) = v BY <2>2
  <2>5. \A u \in tags : u.version # v BY <2>1 DEF Tagged
  <2> HIDE DEF v, t
  <2>6. TypeOK'
    <3>1. tags' \subseteq [version: Versions, tree: Trees] BY <2>1, <2>3 DEF TypeOK
    <3>2. pc' \in [Jobs -> {"idle", "check", "build", "push", "tag", "done", "failed"}]
      BY <2>1 DEF TypeOK, GoTo
    <3> QED BY <2>1, <3>1, <3>2 DEF TypeOK
  <2>7. Commits' = Commits /\ Line(main)' BY <2>1 DEF Commits, Line
  <2>8. t.version # t.tree.version =>
           j \in unmade /\ t.tree = main[base[j]] /\ t.version = Bumped(t.tree.version)
    BY <2>2, <2>3, <2>4
  <2>9. TagsAreOnMain'
    <3> SUFFICES ASSUME NEW u \in tags'
                 PROVE  /\ u.tree \in Commits
                        /\ \A w \in tags' : w.version = u.version => w = u
                        /\ u.version # u.tree.version =>
                              \E k \in unmade : /\ u.tree = main[base[k]]
                                                /\ u.version = Bumped(u.tree.version)
      BY <2>1, <2>7 DEF TagsAreOnMain
    <3>1. CASE u \in tags BY <2>1, <2>3, <2>5, <3>1 DEF TagsAreOnMain
    <3>2. CASE u = t BY <2>1, <2>2, <2>3, <2>5, <2>8, <3>2
    <3> QED BY <2>1, <3>1, <3>2
  <2>10. QueuedTagged' BY <2>1, <2>9, SameRelease
  <2>11. Released' BY <2>1, <2>7, SameWasm
  <2>12. JobTrees'
    <3>1. \A k \in Jobs \ {j} : JobTree(k)'
      <4> SUFFICES ASSUME NEW k \in Jobs \ {j} PROVE JobTree(k)' OBVIOUS
      <4>1. /\ pc'[k] = pc[k] /\ base'[k] = base[k] /\ tree'[k] = tree[k]
            /\ (k \in unmade') = (k \in unmade)
        BY <1>1 DEF OthersStay
      <4>2. /\ Commits \subseteq Commits'
            /\ \A i \in 1..Len(main) : i \in 1..Len(main') /\ main'[i] = main[i]
        BY <2>1, <2>7
      <4> QED BY <4>1, <4>2, SameJob DEF JobTrees
    <3>2. JobTree(j)' BY <2>1, <2>2 DEF TypeOK, GoTo, JobTree
    <3> QED BY <3>1, <3>2 DEF JobTrees
  <2> QED BY <2>6, <2>7, <2>9, <2>10, <2>11, <2>12
<1>5. ~(main' = main /\ tags' = tags) =>
         JobTag(j) \/ (JobPush(j) /\ Len(main) = base[j] /\ main' = Append(main, tree[j]))
  BY DEF Job, JobStart, JobCheck, JobBuild, JobPush, JobPushNothing, JobTag, JobFail
<1> QED BY <1>2, <1>3, <1>4, <1>5

LEMMA StepInv == RInv /\ [Next]_vars => RInv'
<1> SUFFICES ASSUME RInv, [Next]_vars PROVE RInv' OBVIOUS
<1>1. CASE UNCHANGED vars \/ Upstream
  <2>1. UNCHANGED <<repo, releases, jobs>> BY <1>1 DEF vars, Upstream
  <2>2. newest' \in Pins BY <1>1, ReleaseAssumption DEF RInv, TypeOK, Pins, vars, Upstream
  <2>3. TypeOK' /\ Line(main)' BY <2>1, <2>2 DEF RInv, TypeOK, Line
  <2>4. JobTrees' /\ TagsAreOnMain'
    BY <2>1 DEF RInv, JobTrees, JobTree, TagsAreOnMain, Commits
  <2>5. QueuedTagged' BY <2>1, <2>4, SameRelease DEF RInv
  <2>6. Released' BY <2>1, SameWasm DEF RInv, Commits
  <2> QED BY <2>3, <2>4, <2>5, <2>6 DEF RInv
<1>2. CASE Maintainer
  <2>1. 1 \in Versions BY ReleaseAssumption DEF Versions
  <2> QED BY <1>2, <2>1, MaintainerPushInv, MaintainerPinInv, MaintainerOtherInv
          DEF Maintainer
<1>3. ASSUME NEW v \in Versions, Publish(v) PROVE RInv' BY <1>3, MaintainerOtherInv
<1>4. ASSUME NEW j \in Jobs, Job(j) PROVE RInv' BY <1>4, JobInv
<1> QED BY <1>1, <1>2, <1>3, <1>4 DEF Next

-----------------------------------------------------------------------------
(* The theorems.                                                           *)

LEMMA AlwaysInv == Spec => []RInv
BY InitInv, StepInv, PTL DEF Spec

(* Every variable keeps its type for any number of jobs: versions and      *)
(* sources grow by one with a commit at most (auto-update.yml, release.yml, *)
(* build-bridge.yml).                                                      *)
THEOREM TypeCorrect == Spec => []TypeOK
<1>1. RInv => TypeOK BY DEF RInv
<1> QED BY <1>1, AlwaysInv, PTL

(* A tag names one commit of main, for any number of jobs that fail        *)
(* anywhere, and that commit has its version or is the one a job started   *)
(* from whose own commit failed: main is pushed before the tag, and        *)
(* neither a branch that has moved nor a tag that exists can be pushed     *)
(* over (auto-update.yml:80-89).                                           *)
THEOREM TagsStayOnMain == Spec => []TagsAreOnMain
<1>1. RInv => TagsAreOnMain BY DEF RInv
<1> QED BY <1>1, AlwaysInv, PTL

(* Two commits of a version pin the same server and versions never go back *)
(* along main: a job only pushes on the commit it started from, and raises *)
(* the version with the pin (auto-update.yml:24-40, 68-89).                *)
THEOREM VersionsPinOneServer == Spec => []VersionPinsOneServer
<1>1. RInv => VersionPinsOneServer BY LineIsOrdered DEF RInv
<1> QED BY <1>1, AlwaysInv, PTL

(* Whoever tags, pushes and publishes, the wasm of a release has the       *)
(* version it is released under, is the build of a commit of main, and     *)
(* pins the server every commit of that version pins (release.yml,         *)
(* auto-update.yml:52-89).                                                 *)
THEOREM ReleasesPinTheirServer == Spec => []ReleasePinsItsServer
<1>1. RInv => ReleasePinsItsServer BY ReleasedIsPinned DEF RInv
<1> QED BY <1>1, AlwaysInv, PTL
=============================================================================
