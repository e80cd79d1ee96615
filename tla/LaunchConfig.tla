---------------------------- MODULE LaunchConfig ----------------------------
(***************************************************************************)
(* How a debug session gets its configuration (src/lib.rs, get_dap_binary  *)
(* and what comes before it). A session starts from debug.json, from the   *)
(* F5 modal (dap_config_to_scenario) or from the Debug button of the       *)
(* gutter (dap_locator_create_scenario); all end in get_dap_binary, which  *)
(* has the server start a debug adapter and fill in what is missing, then  *)
(* falls back on what the extension finds itself.                          *)
(*                                                                         *)
(* Calls of the extension run one at a time. get_dap_binary is given the   *)
(* worktree; the other two are not, and take the one remembered from the   *)
(* last language server that was started, for whatever worktree.           *)
(*                                                                         *)
(* A field holds where its value comes from: "user", "server", the         *)
(* environment ("path" or "home"), or a worktree (its root, or the main    *)
(* class of its build files); or what is wrong with it.                    *)
(***************************************************************************)
CONSTANTS
    Worktrees,
    None        \* no worktree remembered

ASSUME LaunchAssumption ==
    /\ None \notin Worktrees
    /\ Worktrees \cap {"absent", "null", "empty", "source", "user", "server",
                       "path", "home"} = {}

VARIABLES
    cached,          \* cached_workspace
    javaHome, which, \* $JAVA_HOME has a JDK, `java` on $PATH is in one
    flow, tree,      \* where the session comes from, and its worktree
    given,           \* the configuration as it was first written
    config,          \* the configuration now
    pc,              \* step of the session
    outcome,         \* "none", "failed", "late" (the server answered after
                     \* the bridge had given up) or "started"
    adapters,        \* the debug adapters started for the session: by which
                     \* step, and in the server of which worktree
    strayed,         \* history: the scenario was made for another worktree
    unanswered       \* history: the server was asked for javaExec in vain

env     == <<cached, javaHome, which>>
session == <<flow, tree, given, strayed>>
vars == <<env, session, config, pc, outcome, adapters, unanswered>>

(* "malformed" is a text that is no JSON, "other" a request of no kind.    *)
Configs == [request: {"launch", "attach", "other", "malformed"},
            mainClass: {"absent", "user"} \cup Worktrees,
            javaExec: {"absent", "null", "user", "server", "path", "home"},
            cwd: {"absent", "null", "empty", "source", "user", "server"} \cup Worktrees,
            classPaths: {"absent", "empty", "user", "server"}]

Unset(request) == [request |-> request, mainClass |-> "absent", javaExec |-> "absent",
                   cwd |-> "absent", classPaths |-> "absent"]

(* What a user writes in debug.json, and in the form of the modal.         *)
DebugJson == {c \in Configs : /\ c.request = "malformed" => c = Unset("malformed")
                              /\ c.mainClass \in {"absent", "user"}
                              /\ c.javaExec \in {"absent", "null", "user"}
                              /\ c.cwd \in {"absent", "null", "empty", "source", "user"}
                              /\ c.classPaths \in {"absent", "empty", "user"}}
ModalForm == {Unset("attach")} \cup
             {[Unset("launch") EXCEPT !.mainClass = m, !.cwd = d] :
                 m \in {"absent", "user"}, d \in {"null", "empty", "user"}}

Init ==
    /\ cached = None /\ javaHome \in BOOLEAN /\ which \in BOOLEAN
    /\ flow = "json" /\ tree \in Worktrees /\ strayed = FALSE
    /\ given = Unset("other") /\ config = given
    /\ pc = "idle" /\ outcome = "none" /\ adapters = {} /\ unanswered = FALSE

Goto(label) == pc' = label /\ UNCHANGED outcome
End(how)    == pc' = "done" /\ outcome' = how

-----------------------------------------------------------------------------
(* language_server_command and language_server_initialization_options:     *)
(* Zed starts a server between two calls.                                  *)
StartServer(w) ==
    /\ pc \in {"idle", "scenario"}
    /\ cached' = w
    /\ UNCHANGED <<javaHome, which, session, config, pc, outcome, adapters, unanswered>>

Begin(f, w, c) ==
    /\ pc = "idle"
    /\ flow' = f /\ tree' = w /\ given' = c /\ config' = c
    /\ strayed' = (f # "json" /\ cached \notin {w, None})
    /\ UNCHANGED <<env, adapters, unanswered>>

(* debug.json goes straight to get_dap_binary.                             *)
DebugFromJson(w, c) == c \in DebugJson /\ Begin("json", w, c) /\ Goto("scenario")

(* The modal needs a workspace.                                            *)
DebugFromModal(w, c) ==
    /\ c \in ModalForm /\ Begin("modal", w, c)
    /\ IF cached = None THEN End("failed") ELSE Goto("modal")

(* infer_main_class: the class in the build files of a workspace, if any.  *)
Inferred(root) == {"absent", root}

DebugFromLocator(w) ==
    /\ cached # None
    /\ \E m \in Inferred(cached) \ {"absent"} :
          Begin("locator", w, [Unset("launch") EXCEPT !.mainClass = m])
    /\ Goto("scenario")

-----------------------------------------------------------------------------
(* The fallbacks of the extension.                                         *)

(* resolve_java_exec; without a worktree there is no $PATH to look at.     *)
(* Mutant: a bare "java" for want of anything better.                      *)
BareJava(hasWorktree)  == CASE hasWorktree /\ which -> "path"
                            [] javaHome             -> "home"
                            [] OTHER                -> "java"
LocalJava(hasWorktree) == CASE hasWorktree /\ which -> "path"
                            [] javaHome             -> "home"
                            [] OTHER                -> "absent"

(* inject_java_exec                                                        *)
Injected(c, hasWorktree) ==
    IF c.request = "launch" /\ c.javaExec = "absent"
    THEN [c EXCEPT !.javaExec = LocalJava(hasWorktree)] ELSE c

(* ensure_launch_cwd. Mutants: only a missing one is replaced; the root is *)
(* that of the remembered workspace.                                       *)
NoDirectory == {"absent", "null", "empty", "source"}
RootIfMissing(c, root) ==
    IF c.request = "launch" /\ c.cwd = "absent" THEN [c EXCEPT !.cwd = root] ELSE c
RootOfCached(c, root) ==
    IF c.request = "launch" /\ c.cwd \in NoDirectory
    THEN [c EXCEPT !.cwd = IF cached = None THEN root ELSE cached] ELSE c
WithRoot(c, root) ==
    IF c.request = "launch" /\ c.cwd \in NoDirectory THEN [c EXCEPT !.cwd = root] ELSE c

(* start_debug_server fails without starting one: there is no port in the  *)
(* file, nobody listens on it, or the answer is an error or no port.       *)
NotStarted == End("failed") /\ UNCHANGED <<config, adapters>>
(* Or the server starts one, and answers after REQUEST_TIMEOUT.            *)
StartedLate(root) ==
    /\ adapters' = adapters \cup {<<pc, root>>}
    /\ End("late") /\ UNCHANGED config
Started(root) == adapters' = adapters \cup {<<pc, root>>}

(* dap_config_to_scenario                                                  *)
Scenario ==
    /\ pc = "modal"
    /\ \/ /\ Started(cached)
          /\ config.request = "launch"
          /\ \E m \in IF config.mainClass = "user" THEN {"user"} ELSE Inferred(cached) :
                config' = WithRoot(Injected([config EXCEPT !.mainClass = m], FALSE), cached)
          /\ Goto("scenario")
       \/ /\ Started(cached)
          /\ config.request = "attach" /\ UNCHANGED config /\ Goto("scenario")
       \/ NotStarted \/ StartedLate(cached)
    /\ UNCHANGED <<env, session, unanswered>>

-----------------------------------------------------------------------------
(* get_dap_binary.                                                         *)

(* Nothing is injected before the server was asked. Mutant: javaExec is.   *)
InjectedFirst(c) == Injected(c, TRUE)
AsWritten(c)     == c

(* The text is parsed once the adapter has been started; without a class   *)
(* nothing is resolved.                                                    *)
StartDebugServer ==
    /\ pc = "scenario"
    /\ \/ /\ Started(tree)
          /\ config.request = "malformed" /\ UNCHANGED config /\ End("failed")
       \/ /\ Started(tree)
          /\ config.request # "malformed" /\ config' = AsWritten(config)
          /\ Goto(IF config.mainClass = "absent" THEN "complete" ELSE "document")
       \/ NotStarted \/ StartedLate(tree)
    /\ UNCHANGED <<env, session, unanswered>>

(* resolve_launch_config: without the document of the class it gives up    *)
(* quietly. Mutant: the session fails.                                     *)
GiveUpLoudly == End("failed")
GiveUp       == Goto("complete")

ResolveDocument ==
    /\ pc = "document"
    /\ \/ Goto("classpath") /\ UNCHANGED unanswered
       \/ GiveUp /\ unanswered' = TRUE
    /\ UNCHANGED <<env, session, config, adapters>>

(* Mutant: the classpath of the server is always taken.                    *)
AnyClassPaths(c)   == TRUE
LacksClassPaths(c) == c.classPaths \in {"absent", "empty"}

ResolveClasspath ==
    /\ pc = "classpath"
    /\ \/ /\ LacksClassPaths(config)
          /\ \E paths \in {"server", "empty"} : config' = [config EXCEPT !.classPaths = paths]
       \/ UNCHANGED config
    /\ Goto("java")
    /\ UNCHANGED <<env, session, adapters, unanswered>>

ResolveJavaExecutable ==
    /\ pc = "java"
    /\ IF config.javaExec = "absent"
       THEN \/ config' = [config EXCEPT !.javaExec = "server"] /\ UNCHANGED unanswered
            \/ UNCHANGED config /\ unanswered' = TRUE
       ELSE UNCHANGED <<config, unanswered>>
    /\ Goto("cwd")
    /\ UNCHANGED <<env, session, adapters>>

(* The server may answer with a source file, which is not taken, or with   *)
(* an empty name, which is.                                                *)
Taken(d) == IF d = "source" THEN "absent" ELSE d

ResolveWorkingDirectory ==
    /\ pc = "cwd"
    /\ \/ /\ config.cwd = "absent"
          /\ \E d \in {"server", "source", "empty"} : config' = [config EXCEPT !.cwd = Taken(d)]
       \/ UNCHANGED config
    /\ Goto("complete")
    /\ UNCHANGED <<env, session, adapters, unanswered>>

(* inject_java_exec, ensure_launch_cwd and dap_request_kind.               *)
Complete ==
    /\ pc = "complete"
    /\ config' = WithRoot(Injected(config, TRUE), tree)
    /\ End(IF config.request = "other" THEN "failed" ELSE "started")
    /\ UNCHANGED <<env, session, adapters, unanswered>>

-----------------------------------------------------------------------------
Resolve == \/ ResolveDocument \/ ResolveClasspath \/ ResolveJavaExecutable
           \/ ResolveWorkingDirectory

Next == \/ \E w \in Worktrees : \/ StartServer(w) \/ DebugFromLocator(w)
                                \/ \E c \in DebugJson : DebugFromJson(w, c)
                                \/ \E c \in ModalForm : DebugFromModal(w, c)
        \/ Scenario \/ StartDebugServer \/ Resolve \/ Complete

Spec == Init /\ [][Next]_vars

-----------------------------------------------------------------------------
(* Type invariant.                                                         *)
TypeOK ==
    /\ cached \in Worktrees \cup {None} /\ tree \in Worktrees
    /\ javaHome \in BOOLEAN /\ which \in BOOLEAN
    /\ flow \in {"json", "modal", "locator"}
    /\ given \in Configs /\ config \in Configs
    /\ pc \in {"idle", "modal", "scenario", "document", "classpath", "java", "cwd",
               "complete", "done"}
    /\ outcome \in {"none", "failed", "late", "started"}
    /\ adapters \subseteq {"modal", "scenario"} \X Worktrees
    /\ strayed \in BOOLEAN /\ unanswered \in BOOLEAN

Runs == pc = "done" /\ outcome = "started"

(* What the user has set is used, whatever the server and the environment  *)
(* have to offer and in whichever order they are asked (lib.rs:926-986,    *)
(* 590-600, 620-631): a usable directory, a classpath with entries, a      *)
(* javaExec of any kind. Whoever gives it, a launch gets a directory.      *)
UserWins ==
    Runs =>
        /\ given.mainClass = "user" => config.mainClass = "user"
        /\ given.javaExec # "absent" => config.javaExec = given.javaExec
        /\ given.cwd = "user" => config.cwd = "user"
        /\ config.request = "launch" => config.cwd \notin NoDirectory
        /\ given.classPaths = "user" => config.classPaths = "user"

(* A local javaExec never shadows the server's: it is only taken when the  *)
(* server was asked for one in vain (lib.rs:1134-1138), or could not be    *)
(* asked for want of a class. Not so for the modal, which takes that of    *)
(* $JAVA_HOME first (lib.rs:1236).                                         *)
ServerJavaFirst ==
    Runs /\ flow # "modal" /\ config.javaExec \in {"path", "home"} =>
        unanswered \/ config.mainClass = "absent"

(* The root, the main class and the adapter are those of the worktree that *)
(* is debugged, whichever servers were started meanwhile (lib.rs:1119,     *)
(* 1165), unless the scenario was made while another worktree was          *)
(* remembered (lib.rs:1209).                                               *)
OwnWorktree ==
    Runs /\ ~strayed => /\ config.cwd \notin Worktrees \ {tree}
                        /\ config.mainClass \notin Worktrees \ {tree}
                        /\ \A a \in adapters : a[2] = tree

(* An adapter get_dap_binary had started is used, whatever the project     *)
(* model cannot answer: once it is there the launch goes through           *)
(* (README.md:43, lib.rs:895-899, 1122-1144), except for a text that is no *)
(* JSON or a request of no kind, which are looked at too late. That of the *)
(* modal's own request (lib.rs:1214) never is.                             *)
NoAdapterStranded ==
    pc = "done" /\ (\E w \in Worktrees : <<"scenario", w>> \in adapters) =>
        outcome \in {"started", "late"} \/ config.request \in {"other", "malformed"}
=============================================================================
