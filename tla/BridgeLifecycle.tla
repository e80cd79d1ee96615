--------------------------- MODULE BridgeLifecycle ---------------------------
(***************************************************************************)
(* The life of the bridge processes of one workspace: how the extension    *)
(* has one started (src/lib.rs, language_server_command), how it publishes *)
(* the port of its control endpoint in a file (bridge/src/http.rs), how    *)
(* the extension finds and calls it there (src/lib.rs, proxy_port and      *)
(* lsp_request_via_proxy), and how it comes to an end (bridge/src/main.rs).*)
(*                                                                         *)
(* Every start is a generation. The port file is the only thing they       *)
(* share: it is named after the workspace, so every generation writes and  *)
(* removes the same one. Inside a bridge the main thread and the stdin     *)
(* thread meet at the mutex around the child process.                      *)
(***************************************************************************)
EXTENDS Integers

CONSTANTS
    MaxGen,         \* bound: bridges started
    Absent, Empty,  \* contents of the port file: none, and truncated
    Overlap         \* Zed may start a bridge before the old one is gone

ASSUME LifecycleAssumption ==
    /\ MaxGen \in Nat
    /\ Absent \notin Nat /\ Empty \notin Nat /\ Absent # Empty
    /\ Overlap \in BOOLEAN

VARIABLES
    launching,  \* the extension has returned a Command Zed is to run
    last,       \* the newest generation
    portFile,   \* proxy/<hex(workspace uri)>: Absent, Empty or a generation
    client,     \* the port a call of the extension has read and is to use
    reply,      \* what the last call got: "none", "missing", "corrupt",
                \* "refused" or "answered"
    zed,        \* per bridge: its stdin, "open" or "closed" by Zed
    main,       \* per bridge: step of the main thread, the process with it
    http,       \* per bridge: "idle", "bound", "truncated", "detached",
                \* "published" or "failed"
    stdin,      \* per bridge: "reading", "killing" or "gone"
    lock,       \* per bridge: Shared.child, "free" or held by "main"
    server,     \* per bridge: "none", "up", "mute" (stdout closed) or "dead"
    srvStdin,   \* per bridge: the server still reads its stdin
    killed      \* per bridge: the process was killed from outside

threads == <<zed, main, http, stdin, lock, server, srvStdin, killed>>
caller == <<client, reply>>
outside == <<launching, last, portFile, caller>>
vars == <<outside, threads>>

Gens  == 1..MaxGen
Alive(g) == main[g] \in {"running", "cleanup", "wait", "waiting"}
Runs(g)  == server[g] \in {"up", "mute"}

Init ==
    /\ launching = FALSE /\ last = 0 /\ portFile = Absent
    /\ client = Absent /\ reply = "none"
    /\ zed = [g \in Gens |-> "closed"]
    /\ main = [g \in Gens |-> "unborn"]
    /\ http = [g \in Gens |-> "idle"]
    /\ stdin = [g \in Gens |-> "gone"]
    /\ lock = [g \in Gens |-> "free"]
    /\ server = [g \in Gens |-> "none"]
    /\ srvStdin = [g \in Gens |-> FALSE]
    /\ killed = [g \in Gens |-> FALSE]

-----------------------------------------------------------------------------
(* Zed and the extension.                                                  *)

(* Zed has closed the pipe of the bridge it had; whether it also waits for *)
(* that process is Zed's affair.                                           *)
MayLaunch == \A g \in Gens : /\ zed[g] = "closed"
                             /\ Overlap \/ ~Alive(g)

(* Removing the file takes it from under whoever has it open to write.     *)
HttpAfterRemoval ==
    [g \in Gens |-> IF http[g] = "truncated" THEN "detached" ELSE http[g]]

(* "Drop a stale port file from a previously killed bridge." Mutant: it is *)
(* left for the new bridge to overwrite.                                   *)
StalePortKept == portFile
StalePortRemoved == Absent

(* language_server_command. Calls of the extension run one at a time: none *)
(* is under way.                                                           *)
ExtPrepare ==
    /\ ~launching /\ last < MaxGen /\ MayLaunch /\ client = Absent
    /\ launching' = TRUE
    /\ portFile' = StalePortRemoved
    /\ http' = HttpAfterRemoval
    /\ UNCHANGED <<last, caller, zed, main, stdin, lock, server, srvStdin,
                   killed>>

(* proxy_port, which starts every call of the control endpoint: a file     *)
(* without a port in it, as it is between its truncation and its filling,  *)
(* ends the call.                                                          *)
ReadPort ==
    /\ client = Absent
    /\ \/ /\ portFile \in Gens
          /\ client' = portFile /\ UNCHANGED reply
       \/ /\ portFile \notin Gens
          /\ reply' = IF portFile = Empty THEN "corrupt" ELSE "missing"
          /\ UNCHANGED client
    /\ UNCHANGED <<launching, last, portFile, threads>>

(* lsp_request_via_proxy: someone listens on the port as long as the bridge *)
(* that wrote it lives.                                                    *)
Call ==
    /\ client \in Gens
    /\ client' = Absent
    /\ reply' = IF Alive(client) THEN "answered" ELSE "refused"
    /\ UNCHANGED <<launching, last, portFile, threads>>

(* Zed runs the Command, and main comes to one of three steps: it runs; it *)
(* exits because no server could be started; or it panics with the server  *)
(* already started, when a pipe, a listener or a thread is not to be had,  *)
(* and the Child it drops goes on running.                                 *)
Launch(step) ==
    /\ launching
    /\ launching' = FALSE
    /\ last' = last + 1
    /\ LET g == last + 1 IN
       /\ main' = [main EXCEPT ![g] = step]
       /\ zed' = [zed EXCEPT ![g] = IF step = "running" THEN "open" ELSE "closed"]
       /\ stdin' = [stdin EXCEPT ![g] = IF step = "running" THEN "reading" ELSE "gone"]
       /\ server' = [server EXCEPT ![g] = IF step = "exited" THEN "none" ELSE "up"]
       /\ srvStdin' = [srvStdin EXCEPT ![g] = (step # "exited")]
    /\ UNCHANGED <<portFile, caller, http, lock, killed>>

(* Zed stops or reloads the language server.                               *)
ZedClose(g) ==
    /\ zed[g] = "open"
    /\ zed' = [zed EXCEPT ![g] = "closed"]
    /\ UNCHANGED <<outside, main, http, stdin, lock, server, srvStdin, killed>>

(* The bridge is killed: no thread of it takes another step.               *)
BridgeKilled(g) ==
    /\ Alive(g)
    /\ main' = [main EXCEPT ![g] = "exited"]
    /\ zed' = [zed EXCEPT ![g] = "closed"]
    /\ killed' = [killed EXCEPT ![g] = TRUE]
    /\ UNCHANGED <<outside, http, stdin, lock, server, srvStdin>>

-----------------------------------------------------------------------------
(* The HTTP thread: fs::write truncates the file, then fills it.           *)

HttpBind(g) ==
    /\ Alive(g) /\ http[g] = "idle"
    /\ http' = [http EXCEPT ![g] = "bound"]
    /\ UNCHANGED <<outside, zed, main, stdin, lock, server, srvStdin, killed>>

HttpTruncate(g) ==
    /\ Alive(g) /\ http[g] = "bound"
    /\ http' = [http EXCEPT ![g] = "truncated"]
    /\ portFile' = Empty
    /\ UNCHANGED <<launching, last, caller, zed, main, stdin, lock, server,
                   srvStdin, killed>>

(* listener.local_addr().port(), the port of generation g. Mutant: port 0, *)
(* which the listener was bound to.                                        *)
PortAskedFor(g) == 0
PortOf(g) == g

HttpPublish(g) ==
    /\ Alive(g) /\ http[g] \in {"truncated", "detached"}
    /\ http' = [http EXCEPT ![g] = "published"]
    /\ portFile' = IF http[g] = "truncated" THEN PortOf(g) ELSE portFile
    /\ UNCHANGED <<launching, last, caller, zed, main, stdin, lock, server,
                   srvStdin, killed>>

(* No address, or the file cannot be opened or filled: there is no port to *)
(* read, and the bridge goes on without it.                                *)
HttpFails(g) ==
    /\ Alive(g) /\ http[g] \in {"idle", "bound", "truncated", "detached"}
    /\ http' = [http EXCEPT ![g] = "failed"]
    /\ UNCHANGED <<outside, zed, main, stdin, lock, server, srvStdin, killed>>

-----------------------------------------------------------------------------
(* The stdin thread.                                                       *)

(* Mutant: the end of the stream ends the thread and nothing else.         *)
StdinEofIgnored(g) ==
    /\ Alive(g) /\ stdin[g] = "reading" /\ zed[g] = "closed"
    /\ stdin' = [stdin EXCEPT ![g] = "gone"]
    /\ UNCHANGED <<outside, zed, main, http, lock, server, srvStdin, killed>>

(* Read returns 0: the thread goes for the child's mutex.                  *)
StdinEof(g) ==
    /\ Alive(g) /\ stdin[g] = "reading" /\ zed[g] = "closed"
    /\ stdin' = [stdin EXCEPT ![g] = "killing"]
    /\ UNCHANGED <<outside, zed, main, http, lock, server, srvStdin, killed>>

StdinKill(g) ==
    /\ Alive(g) /\ stdin[g] = "killing" /\ lock[g] = "free"
    /\ stdin' = [stdin EXCEPT ![g] = "gone"]
    /\ server' = [server EXCEPT ![g] = "dead"]
    /\ UNCHANGED <<outside, zed, main, http, lock, srvStdin, killed>>

(* A write to the server fails: the thread returns, and no one is left to  *)
(* see the end of Zed's stream.                                            *)
StdinWriteFails(g) ==
    /\ Alive(g) /\ stdin[g] = "reading"
    /\ ~Runs(g) \/ ~srvStdin[g]
    /\ stdin' = [stdin EXCEPT ![g] = "gone"]
    /\ UNCHANGED <<outside, zed, main, http, lock, server, srvStdin, killed>>

-----------------------------------------------------------------------------
(* The main thread, once it has read the end of the server's stdout.       *)

MainEof(g) ==
    /\ main[g] = "running" /\ server[g] \in {"mute", "dead"}
    /\ main' = [main EXCEPT ![g] = "cleanup"]
    /\ UNCHANGED <<outside, zed, http, stdin, lock, server, srvStdin, killed>>

(* cleanup_port_file removes whatever file has the name.                   *)
MainCleanup(g) ==
    /\ main[g] = "cleanup"
    /\ main' = [main EXCEPT ![g] = "wait"]
    /\ portFile' = Absent
    /\ http' = HttpAfterRemoval
    /\ UNCHANGED <<launching, last, caller, zed, stdin, lock, server, srvStdin,
                   killed>>

(* child.lock().wait(): the mutex is held until the server has ended.      *)
(* Mutant: the stdin thread is joined first.                               *)
MainWaitJoined(g) ==
    /\ main[g] = "wait" /\ lock[g] = "free" /\ stdin[g] = "gone"
    /\ main' = [main EXCEPT ![g] = "waiting"]
    /\ lock' = [lock EXCEPT ![g] = "main"]
    /\ UNCHANGED <<outside, zed, http, stdin, server, srvStdin, killed>>
MainWait(g) ==
    /\ main[g] = "wait" /\ lock[g] = "free"
    /\ main' = [main EXCEPT ![g] = "waiting"]
    /\ lock' = [lock EXCEPT ![g] = "main"]
    /\ UNCHANGED <<outside, zed, http, stdin, server, srvStdin, killed>>

(* wait() returns when the server has ended. Mutant: the bridge does not   *)
(* wait for it.                                                            *)
ReapedAny(g) == TRUE
Reaped(g)    == server[g] = "dead"

MainExit(g) ==
    /\ main[g] = "waiting" /\ Reaped(g)
    /\ main' = [main EXCEPT ![g] = "exited"]
    /\ lock' = [lock EXCEPT ![g] = "free"]
    /\ zed' = [zed EXCEPT ![g] = "closed"]
    /\ UNCHANGED <<outside, http, stdin, server, srvStdin, killed>>

-----------------------------------------------------------------------------
(* The server (environment): it may close either of its streams and live   *)
(* on.                                                                     *)

ServerEnds(g) ==
    /\ Runs(g)
    /\ server' = [server EXCEPT ![g] = "dead"]
    /\ UNCHANGED <<outside, zed, main, http, stdin, lock, srvStdin, killed>>

ServerGoesMute(g) ==
    /\ server[g] = "up"
    /\ server' = [server EXCEPT ![g] = "mute"]
    /\ UNCHANGED <<outside, zed, main, http, stdin, lock, srvStdin, killed>>

ServerClosesStdin(g) ==
    /\ Runs(g) /\ srvStdin[g]
    /\ srvStdin' = [srvStdin EXCEPT ![g] = FALSE]
    /\ UNCHANGED <<outside, zed, main, http, stdin, lock, server, killed>>

-----------------------------------------------------------------------------
Http(g)  == HttpBind(g) \/ HttpTruncate(g) \/ HttpPublish(g) \/ HttpFails(g)
Stdin(g) == StdinEof(g) \/ StdinKill(g) \/ StdinWriteFails(g)
Main(g)  == MainEof(g) \/ MainCleanup(g) \/ MainWait(g) \/ MainExit(g)
Environment(g) == \/ ZedClose(g) \/ BridgeKilled(g)
                  \/ ServerEnds(g) \/ ServerGoesMute(g) \/ ServerClosesStdin(g)

Next == \/ ExtPrepare
        \/ ReadPort \/ Call
        \/ \E step \in {"running", "exited", "panicked"} : Launch(step)
        \/ \E g \in Gens : Http(g) \/ Stdin(g) \/ Main(g) \/ Environment(g)

Spec == Init /\ [][Next]_vars

(* Every thread of a bridge that can run does. Zed sends, closes and       *)
(* launches when it likes, so that no write of the stdin thread has to     *)
(* fail, and no server has to end by itself.                               *)
FairSpec == /\ Spec
            /\ \A g \in Gens : /\ WF_vars(Http(g)) /\ WF_vars(Main(g))
                               /\ WF_vars(StdinEof(g) \/ StdinKill(g))

-----------------------------------------------------------------------------
(* Type invariant.                                                         *)
TypeOK ==
    /\ launching \in BOOLEAN /\ last \in 0..MaxGen
    /\ portFile \in Gens \cup {Absent, Empty}
    /\ client \in Gens \cup {Absent}
    /\ reply \in {"none", "missing", "corrupt", "refused", "answered"}
    /\ zed \in [Gens -> {"open", "closed"}]
    /\ main \in [Gens -> {"unborn", "running", "cleanup", "wait", "waiting", "exited",
                        "panicked"}]
    /\ http \in [Gens -> {"idle", "bound", "truncated", "detached", "published",
                        "failed"}]
    /\ stdin \in [Gens -> {"reading", "killing", "gone"}]
    /\ lock \in [Gens -> {"free", "main"}]
    /\ server \in [Gens -> {"none", "up", "mute", "dead"}]
    /\ srvStdin \in [Gens -> BOOLEAN] /\ killed \in [Gens -> BOOLEAN]

-----------------------------------------------------------------------------
(* Safety.                                                                 *)

(* From the start of a launch on, neither the file nor a call under way    *)
(* names an older bridge: what a killed one left behind is gone before the *)
(* new one runs, nothing that is still alive writes it again, and a port   *)
(* read before does not outlive the call that read it (lib.rs:479-519,     *)
(* 1025-1028, http.rs:18-30). Holds when Zed waits for the old process.    *)
NeverAnOlderBridge ==
    /\ portFile \in Gens => portFile = last /\ ~launching
    /\ client \in Gens => client = last /\ ~launching

(* As long as the newest bridge serves, the port it published can be found *)
(* (http.rs:18-30, main.rs:220).                                           *)
PublishedIsFindable ==
    \A g \in Gens : g = last /\ http[g] = "published" /\ main[g] = "running"
                     => portFile = g

(* A call that finds the file without a port in it has come while the      *)
(* newest bridge writes it, or after that write failed or was cut off: no  *)
(* older bridge leaves an empty file behind (http.rs:28-30).               *)
EmptyIsTheNewest ==
    portFile = Empty => http[last] \in {"truncated", "failed"} /\ ~launching

(* A call finds the newest bridge, and nothing of another.                 *)
PortFileSound == NeverAnOlderBridge /\ PublishedIsFindable /\ EmptyIsTheNewest

(* Two servers never run on one workspace, where Zed waits for the bridge  *)
(* it stops: the earlier one has ended before its bridge is gone, whatever *)
(* it did with its streams, unless that bridge was killed or could not get *)
(* through its start (main.rs:147-150: "otherwise the JVM leaks and keeps  *)
(* the workspace/port locked for the next session", 216-222).              *)
OneServerPerWorkspace ==
    \A g, h \in Gens : g < h /\ Runs(g) /\ Runs(h) => killed[g] \/ main[g] = "panicked"

-----------------------------------------------------------------------------
(* Liveness.                                                               *)

(* The server runs on with a stream closed: main waits for it holding the  *)
(* mutex the stdin thread needs, or the stdin thread has returned from the *)
(* failed write and sees no EOF.                                           *)
ClosedAStream(g) == server[g] = "mute" \/ (Runs(g) /\ ~srvStdin[g])

(* The EOF of Zed ends the session: the server is terminated and the       *)
(* bridge goes (main.rs:147-166, 201-222), unless it was killed first or   *)
(* has a server that runs on with a stream closed.                         *)
EofEndsSession ==
    \A g \in Gens : (stdin[g] # "gone" /\ zed[g] = "closed")
                      ~> \/ killed[g] \/ ClosedAStream(g)
                         \/ main[g] = "exited" /\ ~Runs(g)

(* When its server has ended the bridge goes too, though Zed may never     *)
(* close its stream and the stdin thread may have returned from a failed   *)
(* write, or want the child the main thread waits for (main.rs:177-181,    *)
(* 201-222).                                                               *)
DeadServerEndsBridge ==
    \A g \in Gens : (Alive(g) /\ server[g] = "dead") ~> ~Alive(g)

(* Neither end of a session is missed: that of Zed's stream nor that of    *)
(* the server (main.rs:147-222).                                           *)
SessionEnds == EofEndsSession /\ DeadServerEndsBridge
=============================================================================
