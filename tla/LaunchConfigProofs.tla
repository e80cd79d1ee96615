-------------------------- MODULE LaunchConfigProofs --------------------------
(***************************************************************************)
(* Theorems about LaunchConfig for any set of worktrees. The inductive     *)
(* invariant holds all along a session what the properties ask of its end: *)
(* what the user gave is never touched, no local java comes in before the  *)
(* server was asked, and no worktree but the session's own.                *)
(***************************************************************************)
EXTENDS LaunchConfig, TLAPS

-----------------------------------------------------------------------------
(* The inductive invariant.                                                *)

Asked == {"document", "classpath", "java", "cwd", "complete"}

UserKept ==
    /\ given.mainClass = "user" => config.mainClass = "user"
    /\ given.javaExec # "absent" => config.javaExec = given.javaExec
    /\ given.cwd = "user" => config.cwd = "user"
    /\ given.classPaths = "user" => config.classPaths = "user"
    /\ Runs /\ config.request = "launch" => config.cwd \notin NoDirectory

(* A local java comes in at the very end, where the server had none.       *)
LocalJavaLast ==
    flow # "modal" =>
       /\ config.javaExec \in {"path", "home"} =>
             pc = "done" /\ (unanswered \/ config.mainClass = "absent")
       /\ pc \in {"cwd", "complete"} /\ config.javaExec = "absent" =>
             unanswered \/ config.mainClass = "absent"

(* The modal works for the remembered worktree, at once.                   *)
ModalTree == pc = "modal" => /\ flow = "modal" /\ cached \in Worktrees
                             /\ strayed \/ cached = tree

OwnTree == strayed \/ /\ config.cwd \notin Worktrees \ {tree}
                      /\ config.mainClass \notin Worktrees \ {tree}
                      /\ \A a \in adapters : a[2] = tree

(* Until get_dap_binary has asked there is no adapter of its, and then the *)
(* text is known to be JSON.                                               *)
AdapterUsed ==
    /\ pc = "idle" => adapters = {}
    /\ pc \in {"idle", "modal", "scenario"} =>
          \A w \in Worktrees : <<"scenario", w>> \notin adapters
    /\ pc \in Asked => config.request # "malformed"
    /\ NoAdapterStranded

IInv == /\ TypeOK /\ UserKept /\ LocalJavaLast /\ ModalTree /\ OwnTree /\ AdapterUsed

-----------------------------------------------------------------------------

(* The configurations: where they begin, and what completing one changes.  *)

LEMMA Strings ==
    /\ None \notin Worktrees
    /\ \A s \in {"absent", "null", "empty", "source", "user", "server", "path", "home"} :
          s \notin Worktrees
  BY LaunchAssumption

LEMMA UnsetType ==
    ASSUME NEW r \in {"launch", "attach", "other", "malformed"},
           NEW m \in {"absent", "user"} \cup Worktrees,
           NEW d \in {"absent", "null", "empty", "user"}
    PROVE  /\ Unset(r) \in Configs
           /\ [Unset(r) EXCEPT !.mainClass = m, !.cwd = d] \in Configs
           /\ [Unset(r) EXCEPT !.mainClass = m] \in Configs
  BY DEF Unset, Configs

LEMMA DebugJsonType ==
    ASSUME NEW c \in DebugJson
    PROVE  /\ c \in Configs /\ c.mainClass \in {"absent", "user"}
           /\ c.javaExec \notin {"path", "home"}
           /\ c.cwd \in {"absent", "null", "empty", "source", "user"}
  BY DEF DebugJson

LEMMA ModalFormType ==
    ASSUME NEW c \in ModalForm
    PROVE  /\ c \in Configs /\ c.mainClass \in {"absent", "user"} /\ c.javaExec = "absent"
           /\ c.cwd \in {"absent", "null", "empty", "user"}
<1>1. CASE c = Unset("attach") BY <1>1, UnsetType DEF Unset
<1>2. ASSUME NEW m \in {"absent", "user"}, NEW d \in {"null", "empty", "user"},
             c = [Unset("launch") EXCEPT !.mainClass = m, !.cwd = d]
      PROVE  /\ c \in Configs /\ c.mainClass = m /\ c.javaExec = "absent" /\ c.cwd = d
  <2>1. c \in Configs BY <1>2, UnsetType
  <2> QED BY <1>2, <2>1 DEF Unset
<1> QED BY <1>1, <1>2 DEF ModalForm

LEMMA Edits ==
    ASSUME NEW c \in Configs
    PROVE  /\ \A m \in {"absent", "user"} \cup Worktrees :
                 [c EXCEPT !.mainClass = m] \in Configs
           /\ \A j \in {"absent", "server", "path", "home"} :
                 [c EXCEPT !.javaExec = j] \in Configs
           /\ \A d \in {"absent", "empty", "server"} \cup Worktrees :
                 [c EXCEPT !.cwd = d] \in Configs
           /\ \A p \in {"empty", "server"} : [c EXCEPT !.classPaths = p] \in Configs
  BY DEF Configs

LEMMA InjectedFields ==
    ASSUME NEW c \in Configs, NEW hasWorktree
    PROVE  /\ Injected(c, hasWorktree) \in Configs
           /\ Injected(c, hasWorktree).request = c.request
           /\ Injected(c, hasWorktree).mainClass = c.mainClass
           /\ Injected(c, hasWorktree).cwd = c.cwd
           /\ Injected(c, hasWorktree).classPaths = c.classPaths
           /\ c.javaExec # "absent" => Injected(c, hasWorktree).javaExec = c.javaExec
<1>1. LocalJava(hasWorktree) \in {"absent", "path", "home"} BY DEF LocalJava
<1>2. CASE Injected(c, hasWorktree) = c BY <1>2
<1>3. CASE /\ Injected(c, hasWorktree) = [c EXCEPT !.javaExec = LocalJava(hasWorktree)]
           /\ c.javaExec = "absent"
  BY <1>1, <1>3, Edits DEF Configs
<1> QED BY <1>2, <1>3 DEF Injected

LEMMA WithRootFields ==
    ASSUME NEW c \in Configs, NEW root \in Worktrees
    PROVE  /\ WithRoot(c, root) \in Configs
           /\ WithRoot(c, root).request = c.request
           /\ WithRoot(c, root).mainClass = c.mainClass
           /\ WithRoot(c, root).javaExec = c.javaExec
           /\ WithRoot(c, root).classPaths = c.classPaths
           /\ c.cwd \notin NoDirectory => WithRoot(c, root).cwd = c.cwd
           /\ WithRoot(c, root).cwd \in {c.cwd, root}
           /\ c.request = "launch" => WithRoot(c, root).cwd \notin NoDirectory
<1>1. root \notin NoDirectory BY Strings DEF NoDirectory
<1>2. CASE WithRoot(c, root) = c /\ ~(c.request = "launch" /\ c.cwd \in NoDirectory)
  BY <1>2
<1>3. CASE WithRoot(c, root) = [c EXCEPT !.cwd = root] /\ c.cwd \in NoDirectory
  BY <1>1, <1>3, Edits DEF Configs
<1> QED BY <1>2, <1>3 DEF WithRoot

-----------------------------------------------------------------------------
(* A session begins.                                                       *)

LEMMA Begins ==
    ASSUME IInv, NEW f \in {"json", "modal", "locator"}, NEW w \in Worktrees,
           NEW c \in Configs, Begin(f, w, c),
           c.javaExec \notin {"path", "home"}, c.cwd \notin Worktrees,
           strayed' \/ c.mainClass \notin Worktrees \ {w},
           \/ pc' = "scenario" /\ outcome' = outcome
           \/ pc' = "done" /\ outcome' = "failed"
           \/ pc' = "modal" /\ f = "modal" /\ cached \in Worktrees /\ outcome' = outcome
    PROVE  IInv'
<1>1. /\ pc = "idle" /\ flow' = f /\ tree' = w /\ given' = c /\ config' = c
      /\ strayed' = (f # "json" /\ cached \notin {w, None})
      /\ cached' = cached /\ javaHome' = javaHome /\ which' = which
      /\ adapters' = adapters /\ unanswered' = unanswered
  BY DEF Begin, env
<1>2. adapters = {} BY <1>1 DEF IInv, AdapterUsed
<1>3. TypeOK'
  <2>1. strayed' \in BOOLEAN BY <1>1
  <2> QED BY <1>1, <2>1 DEF IInv, TypeOK
<1>4. UserKept' BY <1>1, <1>3 DEF UserKept, Runs
<1>5. LocalJavaLast' BY <1>1 DEF LocalJavaLast
<1>6. ModalTree' BY <1>1, Strings DEF ModalTree
<1>7. OwnTree' BY <1>1, <1>2 DEF OwnTree
<1>8. AdapterUsed' BY <1>1, <1>2 DEF AdapterUsed, NoAdapterStranded, Asked
<1> QED BY <1>3, <1>4, <1>5, <1>6, <1>7, <1>8 DEF IInv

LEMMA StepBegins ==
    ASSUME IInv, NEW w \in Worktrees,
           \/ DebugFromLocator(w)
           \/ \E c \in DebugJson : DebugFromJson(w, c)
           \/ \E c \in ModalForm : DebugFromModal(w, c)
    PROVE  IInv'
<1>1. CASE DebugFromLocator(w)
  <2>1. cached \in Worktrees BY <1>1 DEF DebugFromLocator, IInv, TypeOK
  <2>2. Begin("locator", w, [Unset("launch") EXCEPT !.mainClass = cached])
    BY <1>1, <2>1, Strings DEF DebugFromLocator, Inferred
  <2> DEFINE c == [Unset("launch") EXCEPT !.mainClass = cached]
  <2>3. /\ c \in Configs /\ c.javaExec = "absent" /\ c.cwd = "absent"
        /\ c.mainClass = cached
    BY <2>1, UnsetType DEF Unset
  <2>4. pc' = "scenario" /\ outcome' = outcome BY <1>1 DEF DebugFromLocator, Goto
  <2>5. strayed' \/ cached = w BY <2>1, <2>2, Strings DEF Begin
  <2> HIDE DEF c
  <2>6. Begin("locator", w, c) BY <2>2 DEF c
  <2>7. c.cwd \notin Worktrees /\ c.javaExec \notin {"path", "home"} BY <2>3, Strings
  <2> QED BY <2>3, <2>4, <2>5, <2>6, <2>7, Begins
<1>2. ASSUME NEW c \in DebugJson, DebugFromJson(w, c) PROVE IInv'
  <2>1. /\ c \in Configs /\ c.mainClass \notin Worktrees /\ c.cwd \notin Worktrees
        /\ c.javaExec \notin {"path", "home"}
    BY DebugJsonType, Strings
  <2>2. Begin("json", w, c) /\ pc' = "scenario" /\ outcome' = outcome
    BY <1>2 DEF DebugFromJson, Goto
  <2> QED BY <2>1, <2>2, Begins
<1>3. ASSUME NEW c \in ModalForm, DebugFromModal(w, c) PROVE IInv'
  <2>1. /\ c \in Configs /\ c.mainClass \notin Worktrees /\ c.cwd \notin Worktrees
        /\ c.javaExec \notin {"path", "home"}
    BY ModalFormType, Strings
  <2>2. /\ Begin("modal", w, c)
        /\ \/ pc' = "done" /\ outcome' = "failed"
           \/ pc' = "modal" /\ cached # None /\ outcome' = outcome
    BY <1>3 DEF DebugFromModal, Goto, End
  <2>3. cached # None => cached \in Worktrees BY DEF IInv, TypeOK
  <2> QED BY <2>1, <2>2, <2>3, Begins
<1> QED BY <1>1, <1>2, <1>3

-----------------------------------------------------------------------------
(* A session goes on: what every later step has to keep.                   *)

LEMMA Proceeds ==
    ASSUME IInv, UNCHANGED env, UNCHANGED session,
           pc \notin {"idle", "done"}, pc' \in {"scenario", "done"} \cup Asked,
           outcome' \in {"none", "failed", "late", "started"},
           config' \in Configs, config'.request = config.request,
           adapters' \subseteq {"modal", "scenario"} \X Worktrees, unanswered' \in BOOLEAN,
           config.mainClass = "user" => config'.mainClass = "user",
           config.javaExec # "absent" => config'.javaExec = config.javaExec,
           config.cwd = "user" => config'.cwd = "user",
           config.classPaths = "user" => config'.classPaths = "user",
           Runs' /\ config.request = "launch" => config'.cwd \notin NoDirectory,
           LocalJavaLast',
           strayed \/ config'.cwd = config.cwd \/ config'.cwd \notin Worktrees \ {tree},
           \/ strayed \/ config'.mainClass = config.mainClass
           \/ config'.mainClass \notin Worktrees \ {tree},
           strayed \/ \A a \in adapters' : a \in adapters \/ a[2] = tree,
           AdapterUsed'
    PROVE  IInv'
<1> USE DEF env, session
<1>1. TypeOK'
  <2>1. /\ cached' = cached /\ javaHome' = javaHome /\ which' = which /\ flow' = flow
        /\ tree' = tree /\ given' = given /\ strayed' = strayed
    OBVIOUS
  <2>2. pc' \in {"idle", "modal", "scenario", "document", "classpath", "java", "cwd",
                 "complete", "done"}
    BY DEF Asked
  <2> QED BY <2>1, <2>2 DEF IInv, TypeOK
<1>2. UserKept'
  <2>1. given' = given OBVIOUS
  <2> QED BY <2>1 DEF IInv, UserKept
<1>3. ModalTree' BY DEF ModalTree, Asked
<1>4. OwnTree'
  <2>1. tree' = tree /\ strayed' = strayed OBVIOUS
  <2> QED BY <2>1 DEF IInv, OwnTree
<1> QED BY <1>1, <1>2, <1>3, <1>4 DEF IInv

LEMMA StepScenario == ASSUME IInv, Scenario PROVE IInv'
<1> USE DEF env, session
<1>1. /\ pc = "modal" /\ flow = "modal" /\ cached \in Worktrees
      /\ strayed \/ cached = tree
      /\ UNCHANGED env /\ UNCHANGED session /\ unanswered' = unanswered
  BY DEF Scenario, IInv, ModalTree
<1>2. /\ config \in Configs /\ adapters \subseteq {"modal", "scenario"} \X Worktrees
      /\ unanswered \in BOOLEAN /\ outcome \in {"none", "failed", "late", "started"}
  BY DEF IInv, TypeOK
<1>3. LocalJavaLast' BY <1>1 DEF LocalJavaLast
<1>4. \A w \in Worktrees : <<"scenario", w>> \notin adapters BY <1>1 DEF IInv, AdapterUsed
<1>5. CASE pc' = "done" /\ outcome' \in {"failed", "late"} /\ config' = config
           /\ (adapters' = adapters \/ adapters' = adapters \cup {<<pc, cached>>})
  <2>1. adapters' \subseteq {"modal", "scenario"} \X Worktrees
    <3>1. <<pc, cached>> \in {"modal", "scenario"} \X Worktrees BY <1>1
    <3> QED BY <1>2, <1>5, <3>1
  <2>2. \A w \in Worktrees : <<"scenario", w>> \notin adapters'
    <3>1. \A w \in Worktrees : <<"scenario", w>> # <<pc, cached>> BY <1>1
    <3> QED BY <1>4, <1>5, <3>1
  <2>3. AdapterUsed' BY <1>5, <2>2 DEF AdapterUsed, NoAdapterStranded, Asked
  <2>4. ~Runs' BY <1>5 DEF Runs
  <2>5. strayed \/ \A a \in adapters' : a \in adapters \/ a[2] = tree BY <1>1, <1>5
  <2> QED BY <1>1, <1>2, <1>3, <1>5, <2>1, <2>3, <2>4, <2>5, Proceeds
<1>6. ASSUME pc' = "scenario", outcome' = outcome, adapters' = adapters \cup {<<pc, cached>>},
             config' \in Configs, config'.request = config.request,
             config.mainClass = "user" => config'.mainClass = "user",
             config.javaExec # "absent" => config'.javaExec = config.javaExec,
             config.cwd = "user" => config'.cwd = "user",
             config'.classPaths = config.classPaths,
             config'.cwd \in {config.cwd, cached},
             config'.mainClass \in {config.mainClass, "user", "absent", cached}
      PROVE  IInv'
  <2>1. adapters' \subseteq {"modal", "scenario"} \X Worktrees
    BY <1>1, <1>2, <1>6
  <2>2. \A w \in Worktrees : <<"scenario", w>> \notin adapters' BY <1>1, <1>4, <1>6
  <2>3. AdapterUsed' BY <1>6, <2>2 DEF AdapterUsed, NoAdapterStranded, Asked
  <2>4. ~Runs' BY <1>6 DEF Runs
  <2>5. strayed \/ \A a \in adapters' : a \in adapters \/ a[2] = tree BY <1>1, <1>6
  <2>6. strayed \/ config'.cwd = config.cwd \/ config'.cwd \notin Worktrees \ {tree}
    BY <1>1, <1>6
  <2>7. \/ strayed \/ config'.mainClass = config.mainClass
        \/ config'.mainClass \notin Worktrees \ {tree}
    BY <1>1, <1>6, Strings
  <2> QED BY <1>1, <1>2, <1>3, <1>6, <2>1, <2>3, <2>4, <2>5, <2>6, <2>7, Proceeds
<1>7. ASSUME NEW m \in {"user", "absent", cached},
             config.mainClass = "user" => m = "user",
             config' = WithRoot(Injected([config EXCEPT !.mainClass = m], FALSE), cached)
      PROVE  /\ config' \in Configs /\ config'.request = config.request
             /\ config'.mainClass = m
             /\ config.javaExec # "absent" => config'.javaExec = config.javaExec
             /\ config.cwd = "user" => config'.cwd = "user"
             /\ config'.classPaths = config.classPaths
             /\ config'.cwd \in {config.cwd, cached}
  <2> DEFINE c == [config EXCEPT !.mainClass = m]
             d == Injected(c, FALSE)
  <2>1. c \in Configs BY <1>1, <1>2, Edits
  <2>2. /\ c.request = config.request /\ c.mainClass = m /\ c.javaExec = config.javaExec
        /\ c.cwd = config.cwd /\ c.classPaths = config.classPaths
    BY <1>2 DEF Configs
  <2> HIDE DEF c
  <2>3. /\ d \in Configs /\ d.request = c.request /\ d.mainClass = c.mainClass
        /\ d.cwd = c.cwd /\ d.classPaths = c.classPaths
        /\ c.javaExec # "absent" => d.javaExec = c.javaExec
    BY <2>1, InjectedFields
  <2>4. config' = WithRoot(d, cached) BY <1>7 DEF c
  <2> HIDE DEF d
  <2>5. /\ config' \in Configs /\ config'.request = d.request
        /\ config'.mainClass = d.mainClass /\ config'.javaExec = d.javaExec
        /\ config'.classPaths = d.classPaths
        /\ d.cwd \notin NoDirectory => config'.cwd = d.cwd
        /\ config'.cwd \in {d.cwd, cached}
    BY <1>1, <2>3, <2>4, WithRootFields
  <2> QED BY <2>2, <2>3, <2>5 DEF NoDirectory
<1>8. CASE Started(cached) /\ config' = config /\ Goto("scenario")
  BY <1>2, <1>6, <1>8 DEF Started, Goto
<1>9. CASE /\ Started(cached) /\ Goto("scenario")
           /\ \E m \in IF config.mainClass = "user" THEN {"user"} ELSE Inferred(cached) :
                 config' = WithRoot(Injected([config EXCEPT !.mainClass = m], FALSE), cached)
  <2>1. PICK m \in {"user", "absent", cached} :
           /\ config.mainClass = "user" => m = "user"
           /\ config' = WithRoot(Injected([config EXCEPT !.mainClass = m], FALSE), cached)
    BY <1>9 DEF Inferred
  <2> QED BY <1>6, <1>7, <1>9, <2>1 DEF Started, Goto
<1> QED BY <1>5, <1>8, <1>9 DEF Scenario, NotStarted, StartedLate, Started, End

LEMMA StepStart == ASSUME IInv, StartDebugServer PROVE IInv'
<1> USE DEF env, session
<1>1. /\ pc = "scenario" /\ UNCHANGED env /\ UNCHANGED session /\ unanswered' = unanswered
      /\ config' = config
  BY DEF StartDebugServer, AsWritten, NotStarted, StartedLate
<1>2. /\ config \in Configs /\ adapters \subseteq {"modal", "scenario"} \X Worktrees
      /\ unanswered \in BOOLEAN /\ outcome \in {"none", "failed", "late", "started"}
      /\ tree \in Worktrees
  BY DEF IInv, TypeOK
<1>3. \A w \in Worktrees : <<"scenario", w>> \notin adapters BY <1>1 DEF IInv, AdapterUsed
<1>4. adapters' = adapters \/ adapters' = adapters \cup {<<pc, tree>>}
  BY DEF StartDebugServer, Started, NotStarted, StartedLate
<1>5. adapters' \subseteq {"modal", "scenario"} \X Worktrees
  <2>1. <<pc, tree>> \in {"modal", "scenario"} \X Worktrees BY <1>1, <1>2
  <2> QED BY <1>2, <1>4, <2>1
<1>6. strayed \/ \A a \in adapters' : a \in adapters \/ a[2] = tree BY <1>4
(* It ends, or goes on with a configuration that was JSON.                 *)
<1>7. \/ /\ pc' = "done" /\ outcome' \in {"failed", "late"}
         /\ \/ outcome' = "late" \/ adapters' = adapters \/ config.request = "malformed"
      \/ /\ outcome' = outcome /\ config.request # "malformed"
         /\ pc' \in {"complete", "document"}
         /\ pc' = "complete" => config.mainClass = "absent"
  BY DEF StartDebugServer, Started, NotStarted, StartedLate, End, Goto
<1>8. LocalJavaLast'
  BY <1>1, <1>7 DEF IInv, LocalJavaLast
<1>9. AdapterUsed'
  BY <1>1, <1>3, <1>7 DEF IInv, AdapterUsed, NoAdapterStranded, Asked
<1>10. ~Runs' BY <1>7 DEF Runs
<1> QED BY <1>1, <1>2, <1>5, <1>6, <1>7, <1>8, <1>9, <1>10, Proceeds DEF Asked

(* resolve_launch_config, whose steps change no adapter.                   *)
LEMMA StepResolve == ASSUME IInv, Resolve PROVE IInv'
<1> USE DEF env, session
<1>1. /\ pc \in Asked /\ pc' \in Asked /\ outcome' = outcome /\ adapters' = adapters
      /\ UNCHANGED env /\ UNCHANGED session
  BY DEF Resolve, ResolveDocument, ResolveClasspath, ResolveJavaExecutable,
         ResolveWorkingDirectory, GiveUp, Goto, Asked
<1>2. /\ config \in Configs /\ adapters \subseteq {"modal", "scenario"} \X Worktrees
      /\ unanswered \in BOOLEAN /\ outcome \in {"none", "failed", "late", "started"}
  BY DEF IInv, TypeOK
<1>3. ~Runs' BY <1>1 DEF Runs, Asked
<1>4. ASSUME config'.request = config.request PROVE AdapterUsed'
  BY <1>1, <1>4 DEF IInv, AdapterUsed, NoAdapterStranded, Asked
<1>5. ASSUME config' \in Configs, config'.request = config.request, unanswered' \in BOOLEAN,
             config'.mainClass = config.mainClass,
             config.javaExec # "absent" => config'.javaExec = config.javaExec,
             config.cwd = "user" => config'.cwd = "user",
             config.classPaths = "user" => config'.classPaths = "user",
             config'.cwd = config.cwd \/ config'.cwd \notin Worktrees,
             LocalJavaLast'
      PROVE  IInv'
  <2>1. pc \notin {"idle", "done"} BY <1>1 DEF Asked
  <2> QED BY <1>1, <1>2, <1>3, <1>4, <1>5, <2>1, Proceeds
<1>6. CASE ResolveDocument
  <2>1. /\ pc = "document" /\ pc' \in {"classpath", "complete"} /\ config' = config
        /\ unanswered' \in BOOLEAN /\ (unanswered => unanswered')
        /\ pc' = "complete" => unanswered' = TRUE
    BY <1>2, <1>6 DEF ResolveDocument, Goto, GiveUp
  <2>2. LocalJavaLast' BY <1>1, <2>1 DEF IInv, LocalJavaLast
  <2> QED BY <1>2, <1>5, <2>1, <2>2
<1>7. CASE ResolveClasspath
  <2>1. /\ pc = "classpath" /\ pc' = "java" /\ unanswered' = unanswered
        /\ \/ config' = config
           \/ /\ config.classPaths \in {"absent", "empty"}
              /\ \E paths \in {"server", "empty"} :
                    config' = [config EXCEPT !.classPaths = paths]
    BY <1>7 DEF ResolveClasspath, LacksClassPaths, Goto
  <2>2. /\ config' \in Configs /\ config'.request = config.request
        /\ config'.mainClass = config.mainClass /\ config'.javaExec = config.javaExec
        /\ config'.cwd = config.cwd
        /\ config.classPaths = "user" => config'.classPaths = "user"
    <3>1. CASE config' = config BY <1>2, <3>1
    <3>2. ASSUME NEW paths \in {"server", "empty"}, config.classPaths \in {"absent", "empty"},
                 config' = [config EXCEPT !.classPaths = paths]
          PROVE  /\ config' \in Configs /\ config'.request = config.request
                 /\ config'.mainClass = config.mainClass /\ config'.javaExec = config.javaExec
                 /\ config'.cwd = config.cwd
      BY <1>2, <3>2, Edits DEF Configs
    <3> QED BY <2>1, <3>1, <3>2
  <2>3. LocalJavaLast' BY <1>1, <2>1, <2>2 DEF IInv, LocalJavaLast
  <2> QED BY <1>2, <1>5, <2>1, <2>2, <2>3
<1>8. CASE ResolveJavaExecutable
  <2>1. /\ pc = "java" /\ pc' = "cwd" /\ unanswered' \in BOOLEAN
        /\ \/ config' = [config EXCEPT !.javaExec = "server"] /\ config.javaExec = "absent"
           \/ config' = config /\ unanswered' = TRUE
           \/ config' = config /\ config.javaExec # "absent"
        /\ unanswered => unanswered'
    BY <1>2, <1>8 DEF ResolveJavaExecutable, Goto
  <2>2. CASE config' = [config EXCEPT !.javaExec = "server"] /\ config.javaExec = "absent"
    <3>1. /\ config' \in Configs /\ config'.request = config.request
          /\ config'.mainClass = config.mainClass /\ config'.javaExec = "server"
          /\ config'.cwd = config.cwd /\ config'.classPaths = config.classPaths
      BY <1>2, <2>2, Edits DEF Configs
    <3>2. LocalJavaLast' BY <2>1, <3>1 DEF LocalJavaLast
    <3> QED BY <1>5, <2>1, <2>2, <3>1, <3>2
  <2>3. CASE config' = config /\ (unanswered' = TRUE \/ config.javaExec # "absent")
    <3>1. LocalJavaLast' BY <1>1, <2>1, <2>3 DEF IInv, LocalJavaLast
    <3> QED BY <1>2, <1>5, <2>1, <2>3, <3>1
  <2> QED BY <2>1, <2>2, <2>3
<1>9. CASE ResolveWorkingDirectory
  <2>1. /\ pc = "cwd" /\ pc' = "complete" /\ unanswered' = unanswered
        /\ \/ config' = config
           \/ /\ config.cwd = "absent"
              /\ \E d \in {"server", "absent", "empty"} : config' = [config EXCEPT !.cwd = d]
    BY <1>9 DEF ResolveWorkingDirectory, Taken, Goto
  <2>2. /\ config' \in Configs /\ config'.request = config.request
        /\ config'.mainClass = config.mainClass /\ config'.javaExec = config.javaExec
        /\ config'.classPaths = config.classPaths
        /\ config.cwd = "user" => config'.cwd = "user"
        /\ config'.cwd = config.cwd \/ config'.cwd \notin Worktrees
    <3>1. CASE config' = config BY <1>2, <3>1
    <3>2. ASSUME NEW d \in {"server", "absent", "empty"}, config.cwd = "absent",
                 config' = [config EXCEPT !.cwd = d]
          PROVE  /\ config' \in Configs /\ config'.request = config.request
                 /\ config'.mainClass = config.mainClass /\ config'.javaExec = config.javaExec
                 /\ config'.classPaths = config.classPaths /\ config'.cwd = d
      BY <1>2, <3>2, Edits DEF Configs
    <3> QED BY <2>1, <3>1, <3>2, Strings
  <2>3. LocalJavaLast' BY <1>1, <2>1, <2>2 DEF IInv, LocalJavaLast
  <2> QED BY <1>2, <1>5, <2>1, <2>2, <2>3
<1> QED BY <1>6, <1>7, <1>8, <1>9 DEF Resolve

(* inject_java_exec and ensure_launch_cwd, at the end of it all.           *)
LEMMA StepComplete == ASSUME IInv, Complete PROVE IInv'
<1> USE DEF env, session
<1>1. /\ pc = "complete" /\ pc' = "done" /\ UNCHANGED env /\ UNCHANGED session
      /\ adapters' = adapters /\ unanswered' = unanswered
      /\ outcome' = IF config.request = "other" THEN "failed" ELSE "started"
      /\ config' = WithRoot(Injected(config, TRUE), tree)
  BY DEF Complete, End
<1>2. /\ config \in Configs /\ adapters \subseteq {"modal", "scenario"} \X Worktrees
      /\ unanswered \in BOOLEAN /\ tree \in Worktrees
  BY DEF IInv, TypeOK
<1> DEFINE d == Injected(config, TRUE)
<1>3. /\ d \in Configs /\ d.request = config.request /\ d.mainClass = config.mainClass
      /\ d.cwd = config.cwd /\ d.classPaths = config.classPaths
      /\ config.javaExec # "absent" => d.javaExec = config.javaExec
  BY <1>2, InjectedFields
<1>4. config' = WithRoot(d, tree) BY <1>1
<1> HIDE DEF d
<1>5. /\ config' \in Configs /\ config'.request = d.request
      /\ config'.mainClass = d.mainClass /\ config'.javaExec = d.javaExec
      /\ config'.classPaths = d.classPaths
      /\ d.cwd \notin NoDirectory => config'.cwd = d.cwd
      /\ config'.cwd \in {d.cwd, tree}
      /\ d.request = "launch" => config'.cwd \notin NoDirectory
  BY <1>2, <1>3, <1>4, WithRootFields
<1>6. /\ config'.request = config.request /\ config'.mainClass = config.mainClass
      /\ config.javaExec # "absent" => config'.javaExec = config.javaExec
      /\ config.cwd = "user" => config'.cwd = "user"
      /\ config'.cwd = config.cwd \/ config'.cwd \notin Worktrees \ {tree}
      /\ config.classPaths = "user" => config'.classPaths = "user"
      /\ config.request = "launch" => config'.cwd \notin NoDirectory
  BY <1>3, <1>5 DEF NoDirectory
<1>7. LocalJavaLast'
  <2>1. flow # "modal" => /\ config.javaExec \notin {"path", "home"}
                          /\ config.javaExec = "absent" =>
                                unanswered \/ config.mainClass = "absent"
    BY <1>1 DEF IInv, LocalJavaLast
  <2> QED BY <1>1, <1>6, <2>1 DEF LocalJavaLast
<1>8. AdapterUsed'
  <2>1. outcome' = "started" \/ config'.request = "other" BY <1>1, <1>6
  <2> QED BY <1>1, <2>1 DEF AdapterUsed, NoAdapterStranded, Asked
<1> QED BY <1>1, <1>2, <1>5, <1>6, <1>7, <1>8, Proceeds

-----------------------------------------------------------------------------
(* The theorems.                                                           *)

LEMMA StepInv == IInv /\ [Next]_vars => IInv'
<1> SUFFICES ASSUME IInv, [Next]_vars PROVE IInv' OBVIOUS
<1>1. CASE UNCHANGED vars
  <2>1. UNCHANGED env /\ UNCHANGED session /\ UNCHANGED config /\ UNCHANGED pc
        /\ UNCHANGED outcome /\ UNCHANGED adapters /\ UNCHANGED unanswered
    BY <1>1 DEF vars
  <2>2. TypeOK' BY <2>1 DEF IInv, TypeOK, env, session
  <2>3. UserKept' /\ LocalJavaLast' /\ ModalTree' /\ OwnTree' /\ AdapterUsed'
    BY <2>1 DEF IInv, UserKept, LocalJavaLast, ModalTree, OwnTree, AdapterUsed,
                NoAdapterStranded, Runs, env, session
  <2> QED BY <2>2, <2>3 DEF IInv
<1>2. ASSUME NEW w \in Worktrees, StartServer(w) PROVE IInv'
  <2>1. /\ pc \in {"idle", "scenario"} /\ cached' = w /\ UNCHANGED <<javaHome, which>>
        /\ UNCHANGED session /\ UNCHANGED config /\ UNCHANGED pc
        /\ UNCHANGED outcome /\ UNCHANGED adapters /\ UNCHANGED unanswered
    BY <1>2 DEF StartServer
  <2>2. TypeOK' BY <2>1 DEF IInv, TypeOK, session
  <2>3. UserKept' /\ LocalJavaLast' /\ ModalTree' /\ OwnTree' /\ AdapterUsed'
    BY <2>1 DEF IInv, UserKept, LocalJavaLast, ModalTree, OwnTree, AdapterUsed,
                NoAdapterStranded, Runs, session
  <2> QED BY <2>2, <2>3 DEF IInv
<1> QED
  BY <1>1, <1>2, StepBegins, StepScenario, StepStart, StepResolve, StepComplete DEF Next

LEMMA InitInv == Init => IInv
<1> SUFFICES ASSUME Init PROVE IInv OBVIOUS
<1>1. Unset("other") \in Configs BY DEF Unset, Configs
<1>2. /\ config = given /\ given = Unset("other") /\ pc = "idle" /\ adapters = {}
      /\ outcome = "none"
  BY DEF Init
<1>3. TypeOK BY <1>1 DEF Init, TypeOK
<1>4. /\ config.mainClass = "absent" /\ config.javaExec = "absent" /\ config.cwd = "absent"
  BY <1>2 DEF Unset
<1>5. UserKept /\ LocalJavaLast /\ ModalTree
  BY <1>2, <1>4 DEF UserKept, LocalJavaLast, ModalTree, Runs
<1>6. OwnTree BY <1>2, <1>4, Strings DEF OwnTree
<1>7. AdapterUsed BY <1>2 DEF AdapterUsed, NoAdapterStranded, Asked
<1> QED BY <1>3, <1>5, <1>6, <1>7 DEF IInv

LEMMA Invariance == Spec => []IInv
  BY InitInv, StepInv, PTL DEF Spec

(* Type correctness for any worktrees.                                     *)
THEOREM TypeCorrect == Spec => []TypeOK
<1>1. IInv => TypeOK BY DEF IInv
<1> QED BY <1>1, Invariance, PTL

(* What the user has set reaches the adapter, and a launch has a directory *)
(* (lib.rs:590-600, 620-631, 926-986).                                     *)
THEOREM UserAlwaysWins == Spec => []UserWins
<1>1. IInv => UserWins BY DEF IInv, UserKept, UserWins
<1> QED BY <1>1, Invariance, PTL

(* Outside of the modal a local java is only taken for want of one from    *)
(* the server (lib.rs:1134-1138).                                          *)
THEOREM ServerJavaIsFirst == Spec => []ServerJavaFirst
<1>1. IInv => ServerJavaFirst BY DEF IInv, LocalJavaLast, ServerJavaFirst
<1> QED BY <1>1, Invariance, PTL

(* Nothing of another worktree gets into a session, for any number of      *)
(* worktrees and servers started meanwhile (lib.rs:1119, 1165, 1209).      *)
THEOREM StaysInItsWorktree == Spec => []OwnWorktree
<1>1. IInv => OwnWorktree BY DEF IInv, OwnTree, OwnWorktree
<1> QED BY <1>1, Invariance, PTL

(* An adapter of get_dap_binary is used (lib.rs:895-899, 1122-1144).       *)
THEOREM AdaptersAreUsed == Spec => []NoAdapterStranded
<1>1. IInv => NoAdapterStranded BY DEF IInv, AdapterUsed
<1> QED BY <1>1, Invariance, PTL
=============================================================================
