-------------------------- MODULE ExtensionInstall --------------------------
(***************************************************************************)
(* How the extension comes by the server and the bridge it has Zed run     *)
(* (src/lib.rs, language_server_command and what it calls), and by the     *)
(* hash of the license agreement it sends to the server.                   *)
(*                                                                         *)
(* Zed runs the calls of one extension one after the other, for worktrees  *)
(* with settings of their own. Downloads go straight to their final place  *)
(* in the sandbox, and may stop anywhere. A release of the extension pins  *)
(* a server version and needs the bridge of its own version: both are the  *)
(* number of the release here.                                             *)
(***************************************************************************)
EXTENDS Integers

CONSTANTS
    Worktrees,
    MaxRelease,       \* bound: releases of the extension
    None, User        \* no path, and the server the user has downloaded

ASSUME InstallAssumption ==
    /\ MaxRelease \in Nat \ {0}
    /\ None \notin Nat /\ User \notin Nat /\ None # User

VARIABLES
    release,            \* of the installed extension
    accepted, path,     \* settings per worktree: the EULA, server_path
    serverDir,          \* intellij-server-<version>: "absent", "empty" (no
                        \* launcher in it yet), "torn" (files missing, or the
                        \* launcher not executable) or "full"
    bridgeFile,         \* the bridge of a version: "absent", "torn" or "full"
    cachedBinary,       \* cached_binary_path
    cachedBridge,       \* cached_bridge_path
    pc,                 \* step of the call that runs, "idle" between calls
    who, asks, consent, \* the worktree it is for, its settings when it began
    binary,             \* the server chosen
    outcome,            \* how the last call ended
    launched,           \* per worktree: the Command it was given, or None
    hash,               \* per worktree: the version whose EULA was hashed
    interrupted         \* history: a download has failed, or ended with Zed

settings == <<release, accepted, path>>
sandbox  == <<serverDir, bridgeFile>>
caches   == <<cachedBinary, cachedBridge>>
call     == <<who, asks, consent, binary>>
results  == <<outcome, launched, hash, interrupted>>
vars == <<settings, sandbox, caches, pc, call, results>>

Releases == 1..MaxRelease
Servers  == Releases \cup {User}
Command  == [server: Servers, bridge: Releases, pin: Releases,
             asked: {"auto", "user", "bad"}, consent: BOOLEAN, whole: BOOLEAN]

Init ==
    /\ release = 1
    /\ accepted = [w \in Worktrees |-> FALSE]
    /\ path = [w \in Worktrees |-> "auto"]
    /\ serverDir = [v \in Releases |-> "absent"]
    /\ bridgeFile = [v \in Releases |-> "absent"]
    /\ cachedBinary = None /\ cachedBridge = None
    /\ pc = "idle" /\ who \in Worktrees /\ asks = "auto" /\ consent = FALSE
    /\ binary = None /\ interrupted = FALSE
    /\ outcome = "none"
    /\ launched = [w \in Worktrees |-> None]
    /\ hash = [w \in Worktrees |-> None]

-----------------------------------------------------------------------------
(* The launcher of a version is there; that is all the code looks at. What *)
(* the user has downloaded is outside of the sandbox and never seen.       *)
HasLauncher(v) == serverDir[v] \in {"torn", "full"}
Visible(s)     == s \in Releases /\ HasLauncher(s)

Fail(why) == /\ pc' = "idle" /\ outcome' = why
             /\ UNCHANGED <<call, launched, hash>>

(* The EULA gate. Mutant: it is left to the initialization options.        *)
GateOpen(w)   == TRUE
GatePasses(w) == accepted[w]

(* language_server_command                                                 *)
CommandBegins(w) ==
    /\ pc = "idle"
    /\ who' = w /\ asks' = path[w] /\ consent' = accepted[w]
    /\ binary' = None
    /\ IF GatePasses(w)
       THEN pc' = "cached" /\ UNCHANGED outcome
       ELSE pc' = "idle" /\ outcome' = "eula"
    /\ UNCHANGED <<settings, sandbox, caches, launched, hash, interrupted>>

(* language_server_binary_path: the cached path first ...                  *)
UseCached ==
    /\ pc = "cached"
    /\ IF Visible(cachedBinary)
       THEN binary' = cachedBinary /\ pc' = "bridge"
       ELSE UNCHANGED binary /\ pc' = "manual"
    /\ UNCHANGED <<settings, sandbox, caches, who, asks, consent, results>>

(* is_server_binary: "bad" is a path that does not end in the launcher.    *)
(* Mutant: any path is taken.                                              *)
IsAnyPath(p)      == p # "auto"
IsServerBinary(p) == p = "user"
ServerAt(p)       == IF p = "user" THEN User ELSE None

(* ... then server_path ...                                                *)
UseManual ==
    /\ pc = "manual"
    /\ \/ /\ asks # "auto" /\ ~IsServerBinary(asks)
          /\ Fail("bad path")
          /\ UNCHANGED <<caches, interrupted>>
       \/ /\ IsServerBinary(asks)
          /\ binary' = ServerAt(asks) /\ cachedBinary' = ServerAt(asks)
          /\ pc' = "bridge"
          /\ UNCHANGED <<cachedBridge, who, asks, consent, results>>
       \/ /\ asks = "auto"
          /\ pc' = "installed"
          /\ UNCHANGED <<caches, call, results>>
    /\ UNCHANGED <<settings, sandbox>>

(* find_installed_server: the highest version that is not below the pin.   *)
(* Mutant: any installed version does.                                     *)
AnyInstalled == {v \in Releases : HasLauncher(v)}
Installed    == {v \in Releases : HasLauncher(v) /\ v >= release}

(* ... then what is installed ...                                          *)
UseInstalled ==
    /\ pc = "installed"
    /\ IF Installed # {}
       THEN /\ \E v \in Installed : /\ \A u \in Installed : u <= v
                                    /\ binary' = v /\ cachedBinary' = v
            /\ pc' = "bridge"
       ELSE UNCHANGED <<binary, cachedBinary>> /\ pc' = "download"
    /\ UNCHANGED <<settings, sandbox, cachedBridge, who, asks, consent, results>>

(* ... then a download, but not into a directory that is there.            *)
DownloadBegins ==
    /\ pc = "download"
    /\ IF serverDir[release] = "absent"
       THEN /\ serverDir' = [serverDir EXCEPT ![release] = "empty"]
            /\ pc' = "extracting"
       ELSE UNCHANGED serverDir /\ pc' = "locate"
    /\ UNCHANGED <<settings, bridgeFile, caches, who, asks, consent, binary, results>>

(* A download is over when its file has been made executable.              *)
Downloading == \/ pc \in {"extracting", "fetching"}
               \/ pc = "locate" /\ HasLauncher(release)

(* The archive is extracted file by file.                                  *)
Extract ==
    /\ pc = "extracting"
    /\ \/ /\ serverDir[release] = "empty"
          /\ serverDir' = [serverDir EXCEPT ![release] = "torn"]
          /\ UNCHANGED pc
       \/ /\ serverDir[release] = "torn"
          /\ pc' = "locate" /\ UNCHANGED serverDir
    /\ UNCHANGED <<settings, bridgeFile, caches, call, results>>

DownloadFails ==
    /\ Downloading
    /\ Fail("download") /\ interrupted' = TRUE
    /\ UNCHANGED <<settings, sandbox, caches>>

(* find_binary_in and make_file_executable                                 *)
Locate ==
    /\ pc = "locate"
    /\ \/ /\ HasLauncher(release)
          /\ serverDir' = [serverDir EXCEPT ![release] = "full"]
          /\ binary' = release /\ cachedBinary' = release /\ pc' = "bridge"
          /\ UNCHANGED <<cachedBridge, who, asks, consent, results>>
       \/ /\ ~HasLauncher(release)
          /\ Fail("binary not found")
          /\ UNCHANGED <<serverDir, caches, interrupted>>
    /\ UNCHANGED <<settings, bridgeFile>>

(* bridge_binary_path: the cached one, or the file of this version. A file *)
(* of another version is removed when it can be.                           *)
CurrentBridge == {v \in {release} : bridgeFile[v] # "absent"}

BridgeThere == \E v \in Releases : v = cachedBridge /\ bridgeFile[v] # "absent"

UseCachedBridge ==
    /\ pc = "bridge" /\ BridgeThere
    /\ pc' = "launch"
    /\ UNCHANGED <<settings, sandbox, caches, call, results>>

FindBridge ==
    /\ pc = "bridge" /\ ~BridgeThere
    /\ \E gone \in SUBSET (Releases \ {release}) :
          bridgeFile' = [v \in Releases |-> IF v \in gone \ CurrentBridge
                                            THEN "absent" ELSE bridgeFile[v]]
    /\ \/ /\ CurrentBridge # {}
          /\ \E v \in CurrentBridge : cachedBridge' = v
          /\ pc' = "launch"
       \/ /\ CurrentBridge = {}
          /\ pc' = "fetch"
          /\ UNCHANGED cachedBridge
    /\ UNCHANGED <<settings, serverDir, cachedBinary, call, results>>

(* Mutant: the download is started and not waited for.                     *)
FetchUnawaited ==
    /\ pc = "fetch"
    /\ bridgeFile' = [bridgeFile EXCEPT ![release] = "torn"]
    /\ cachedBridge' = release
    /\ pc' = "launch"
    /\ UNCHANGED <<settings, serverDir, cachedBinary, call, results>>

FetchBegins ==
    /\ pc = "fetch"
    /\ bridgeFile' = [bridgeFile EXCEPT ![release] = "torn"]
    /\ pc' = "fetching"
    /\ UNCHANGED <<settings, serverDir, caches, call, results>>

FetchEnds ==
    /\ pc = "fetching"
    /\ bridgeFile' = [bridgeFile EXCEPT ![release] = "full"]
    /\ cachedBridge' = release
    /\ pc' = "launch"
    /\ UNCHANGED <<settings, serverDir, cachedBinary, call, results>>

(* The Command is returned, and Zed runs it.                               *)
Launch ==
    /\ pc = "launch"
    /\ launched' = [launched EXCEPT ![who] =
           [server |-> binary, bridge |-> cachedBridge, pin |-> release,
            asked |-> asks, consent |-> consent,
            whole |-> /\ binary \in {User} \cup {v \in Releases : serverDir[v] = "full"}
                      /\ bridgeFile[cachedBridge] = "full"]]
    /\ hash' = [hash EXCEPT ![who] = None]
    /\ pc' = "idle" /\ outcome' = "launched"
    /\ UNCHANGED <<settings, sandbox, caches, call, interrupted>>

-----------------------------------------------------------------------------
(* eula_hash_for: the EULA beside the cached binary, else the EULA of any  *)
(* directory of the sandbox. Mutant: always the latter.                    *)
Eulas == {v \in Releases : serverDir[v] = "full"}
AnyEula == IF Eulas = {} THEN {None} ELSE Eulas
EulaFound == IF cachedBinary \in Eulas THEN {cachedBinary} ELSE AnyEula

(* language_server_initialization_options, once the server runs            *)
InitializationOptions(w) ==
    /\ pc = "idle" /\ launched[w] # None /\ accepted[w]
    /\ \E v \in EulaFound : hash' = [hash EXCEPT ![w] = v]
    /\ UNCHANGED <<settings, sandbox, caches, pc, call, outcome, launched, interrupted>>

-----------------------------------------------------------------------------
(* The user and Zed (environment).                                         *)

ChangeSettings(w) ==
    /\ \/ accepted' = [accepted EXCEPT ![w] = ~@] /\ UNCHANGED path
       \/ \E p \in {"auto", "user", "bad"} : path' = [path EXCEPT ![w] = p]
          /\ UNCHANGED accepted
    /\ UNCHANGED <<release, sandbox, caches, pc, call, results>>

(* Zed starts again, maybe with a later release of the extension.          *)
Restart(n) ==
    /\ release' = n /\ n >= release
    /\ cachedBinary' = None /\ cachedBridge' = None
    /\ pc' = "idle" /\ outcome' = "none"
    /\ launched' = [w \in Worktrees |-> None]
    /\ hash' = [w \in Worktrees |-> None]
    /\ interrupted' = (interrupted \/ Downloading)
    /\ UNCHANGED <<accepted, path, sandbox, call>>

-----------------------------------------------------------------------------
Binary == UseCached \/ UseManual \/ UseInstalled
          \/ DownloadBegins \/ Extract \/ DownloadFails \/ Locate
Bridge == UseCachedBridge \/ FindBridge \/ FetchBegins \/ FetchEnds

Next == \/ \E w \in Worktrees : \/ CommandBegins(w) \/ InitializationOptions(w)
                                \/ ChangeSettings(w)
        \/ Binary \/ Bridge \/ Launch
        \/ \E n \in Releases : Restart(n)

Spec == Init /\ [][Next]_vars

-----------------------------------------------------------------------------
(* Type invariant.                                                         *)
TypeOK ==
    /\ release \in Releases
    /\ accepted \in [Worktrees -> BOOLEAN]
    /\ path \in [Worktrees -> {"auto", "user", "bad"}]
    /\ serverDir \in [Releases -> {"absent", "empty", "torn", "full"}]
    /\ bridgeFile \in [Releases -> {"absent", "torn", "full"}]
    /\ cachedBinary \in Servers \cup {None} /\ cachedBridge \in Releases \cup {None}
    /\ pc \in {"idle", "cached", "manual", "installed", "download", "extracting",
               "locate", "bridge", "fetch", "fetching", "launch"}
    /\ who \in Worktrees /\ asks \in {"auto", "user", "bad"} /\ consent \in BOOLEAN
    /\ binary \in Servers \cup {None} /\ interrupted \in BOOLEAN
    /\ outcome \in {"none", "eula", "bad path", "download", "binary not found", "launched"}
    /\ launched \in [Worktrees -> Command \cup {None}]
    /\ hash \in [Worktrees -> Releases \cup {None}]

-----------------------------------------------------------------------------
(* Safety.                                                                 *)

Commands == {launched[w] : w \in Worktrees} \ {None}

(* No download or execution without consent, in any worktree, whatever is  *)
(* cached for another (README.md:254, lib.rs:1006-1013).                   *)
NothingWithoutConsent ==
    /\ pc # "idle" => consent
    /\ \A c \in Commands : c.consent

(* What runs is of this release or newer: the server is not below the pin, *)
(* neither after an upgrade with the old one still installed nor out of    *)
(* the cache, and the bridge is of this release whatever files older ones  *)
(* left and could not be removed (lib.rs:302-306, 339-345, 744-748). And   *)
(* it is complete, unless a download was interrupted: what that one left   *)
(* is taken for the server or the bridge (lib.rs:311-376, 800).            *)
RunsCurrentAndWhole ==
    \A c \in Commands : /\ c.server # User => c.server >= c.pin
                        /\ c.bridge = c.pin
                        /\ c.whole \/ interrupted

(* The hash sent is that of the agreement of the server that runs, though  *)
(* other versions lie beside it (lib.rs:870-886), unless a download was    *)
(* interrupted. The agreement of the user's own server is not in reach.    *)
HashIsOfTheServer ==
    \A w \in Worktrees : (launched[w] # None /\ hash[w] # None /\ ~interrupted) =>
        launched[w].server = User \/ hash[w] = launched[w].server

(* server_path wins over any cached download (lib.rs:750-752). Violated:   *)
(* the cached path is looked at first.                                     *)
ServerPathWins == \A c \in Commands : c.asked = "user" => c.server = User
=============================================================================
