------------------------ MODULE BridgeLifecycleProofs ------------------------
(***************************************************************************)
(* Theorems about BridgeLifecycle for any number of generations.           *)
(***************************************************************************)
EXTENDS BridgeLifecycle, TLAPS

USE DEF outside, caller

-----------------------------------------------------------------------------
(* Type correctness.                                                       *)

(* A Command that Zed is to run is for a generation within the bound.      *)
Room == launching => last < MaxGen

(* The steps outside of the bridges' threads.                              *)
LEMMA PrepareType == ASSUME TypeOK, ExtPrepare PROVE TypeOK' /\ Room'
<1> USE LifecycleAssumption
<1>1. /\ last' = last /\ last < MaxGen /\ portFile' = Absent
      /\ http' = HttpAfterRemoval /\ launching' = TRUE
      /\ UNCHANGED <<caller, zed, main, stdin, lock, server, srvStdin, killed>>
  BY DEF ExtPrepare, StalePortRemoved
<1>2. HttpAfterRemoval \in [Gens -> {"idle", "bound", "truncated", "detached", "published",
                                    "failed"}]
  BY DEF TypeOK, HttpAfterRemoval
<1> QED BY <1>1, <1>2 DEF TypeOK, Room

LEMMA CallerType == ASSUME TypeOK, Room, ReadPort \/ Call PROVE TypeOK' /\ Room'
<1>1. CASE ReadPort BY <1>1 DEF TypeOK, Room, ReadPort, threads
<1>2. CASE Call BY <1>2 DEF TypeOK, Room, Call, threads
<1> QED BY <1>1, <1>2

Steps == {"running", "exited", "panicked"}

LEMMA LaunchType ==
    ASSUME TypeOK, Room, NEW step \in Steps, Launch(step) PROVE TypeOK' /\ Room'
<1> USE LifecycleAssumption
<1> DEFINE g == last + 1
           up == step # "exited"
<1>1. g \in Gens /\ g \in 0..MaxGen BY DEF TypeOK, Room, Launch, Gens
<1>2. /\ launching' = FALSE /\ last' = g
      /\ UNCHANGED <<portFile, caller, http, lock, killed>>
  BY DEF Launch
<1>3. /\ main' = [main EXCEPT ![g] = step]
      /\ zed' = [zed EXCEPT ![g] = IF step = "running" THEN "open" ELSE "closed"]
      /\ stdin' = [stdin EXCEPT ![g] = IF step = "running" THEN "reading" ELSE "gone"]
      /\ server' = [server EXCEPT ![g] = IF step = "exited" THEN "none" ELSE "up"]
  BY DEF Launch
<1>4. srvStdin' = [srvStdin EXCEPT ![g] = up] /\ up \in BOOLEAN BY Zenon DEF Launch
<1> HIDE DEF up
<1>5. srvStdin' \in [Gens -> BOOLEAN] BY <1>1, <1>4 DEF TypeOK
<1> HIDE DEF g
<1>6. /\ main' \in [Gens -> {"unborn", "running", "cleanup", "wait", "waiting", "exited",
                            "panicked"}]
      /\ zed' \in [Gens -> {"open", "closed"}]
      /\ stdin' \in [Gens -> {"reading", "killing", "gone"}]
      /\ server' \in [Gens -> {"none", "up", "mute", "dead"}]
  BY <1>1, <1>3 DEF TypeOK, Steps
<1> QED BY <1>1, <1>2, <1>5, <1>6 DEF TypeOK, Room

LEMMA HttpType == ASSUME TypeOK, NEW g \in Gens, Http(g) PROVE TypeOK'
<1> USE LifecycleAssumption
<1>1. CASE HttpBind(g) BY <1>1 DEF TypeOK, HttpBind
<1>2. CASE HttpTruncate(g) BY <1>2 DEF TypeOK, HttpTruncate
<1>3. CASE HttpPublish(g) BY <1>3 DEF TypeOK, HttpPublish, PortOf
<1>4. CASE HttpFails(g) BY <1>4 DEF TypeOK, HttpFails
<1> QED BY <1>1, <1>2, <1>3, <1>4 DEF Http

LEMMA StdinType == ASSUME TypeOK, NEW g \in Gens, Stdin(g) PROVE TypeOK'
<1>1. CASE StdinEof(g) BY <1>1 DEF TypeOK, StdinEof
<1>2. CASE StdinKill(g) BY <1>2 DEF TypeOK, StdinKill
<1>3. CASE StdinWriteFails(g) BY <1>3 DEF TypeOK, StdinWriteFails
<1> QED BY <1>1, <1>2, <1>3 DEF Stdin

LEMMA MainType == ASSUME TypeOK, NEW g \in Gens, Main(g) PROVE TypeOK'
<1>1. CASE MainEof(g) BY <1>1 DEF TypeOK, MainEof
<1>2. CASE MainCleanup(g) BY <1>2 DEF TypeOK, MainCleanup, HttpAfterRemoval
<1>3. CASE MainWait(g) BY <1>3 DEF TypeOK, MainWait
<1>4. CASE MainExit(g) BY <1>4 DEF TypeOK, MainExit
<1> QED BY <1>1, <1>2, <1>3, <1>4 DEF Main

LEMMA EnvironmentType == ASSUME TypeOK, NEW g \in Gens, Environment(g) PROVE TypeOK'
<1>1. CASE ZedClose(g) BY <1>1 DEF TypeOK, ZedClose
<1>2. CASE BridgeKilled(g) BY <1>2 DEF TypeOK, BridgeKilled
<1>3. CASE ServerEnds(g) BY <1>3 DEF TypeOK, ServerEnds
<1>4. CASE ServerGoesMute(g) BY <1>4 DEF TypeOK, ServerGoesMute
<1>5. CASE ServerClosesStdin(g) BY <1>5 DEF TypeOK, ServerClosesStdin
<1> QED BY <1>1, <1>2, <1>3, <1>4, <1>5 DEF Environment

LEMMA InitType == Init => TypeOK /\ Room
<1> SUFFICES ASSUME Init PROVE TypeOK /\ Room OBVIOUS
<1>1. /\ srvStdin \in [Gens -> BOOLEAN] /\ killed \in [Gens -> BOOLEAN]
      /\ launching \in BOOLEAN /\ ~launching
  BY Zenon DEF Init
<1>2. last \in 0..MaxGen /\ portFile = Absent /\ client = Absent /\ reply = "none"
  BY LifecycleAssumption DEF Init
<1>3. /\ zed \in [Gens -> {"open", "closed"}]
      /\ main \in [Gens -> {"unborn", "running", "cleanup", "wait", "waiting", "exited",
                       "panicked"}]
      /\ http \in [Gens -> {"idle", "bound", "truncated", "detached", "published",
                                    "failed"}]
      /\ stdin \in [Gens -> {"reading", "killing", "gone"}]
      /\ lock \in [Gens -> {"free", "main"}]
      /\ server \in [Gens -> {"none", "up", "mute", "dead"}]
  BY DEF Init
<1> QED BY <1>1, <1>2, <1>3 DEF TypeOK, Room

LEMMA StepType == TypeOK /\ Room /\ [Next]_vars => TypeOK' /\ Room'
<1> SUFFICES ASSUME TypeOK, Room, [Next]_vars PROVE TypeOK' /\ Room' OBVIOUS
<1>1. CASE UNCHANGED vars BY <1>1 DEF TypeOK, Room, vars, threads
<1>2. CASE ExtPrepare BY <1>2, PrepareType
<1>5. CASE ReadPort \/ Call BY <1>5, CallerType
<1>3. ASSUME NEW step \in Steps, Launch(step) PROVE TypeOK' /\ Room' BY <1>3, LaunchType
<1>4. ASSUME NEW g \in Gens, Http(g) \/ Stdin(g) \/ Main(g) \/ Environment(g)
      PROVE  TypeOK' /\ Room'
  <2>1. TypeOK' BY <1>4, HttpType, StdinType, MainType, EnvironmentType
  <2>2. UNCHANGED <<launching, last>>
    BY <1>4 DEF Http, Stdin, Main, Environment, HttpBind, HttpTruncate, HttpPublish,
                HttpFails, StdinEof, StdinKill, StdinWriteFails, MainEof, MainCleanup, MainWait,
                MainExit, ZedClose, BridgeKilled, ServerEnds, ServerGoesMute,
                ServerClosesStdin
  <2> QED BY <2>1, <2>2 DEF Room
<1> QED BY <1>1, <1>2, <1>3, <1>4, <1>5 DEF Next, Steps

(* Every variable keeps its type, for any number of generations.           *)
THEOREM TypeCorrect == Spec => []TypeOK
<1>1. Spec => [](TypeOK /\ Room) BY InitType, StepType, PTL DEF Spec
<1> QED BY <1>1, PTL

-----------------------------------------------------------------------------
(* The port file, when Zed waits for the old process.                      *)

(* What the file relies on: a generation that is not born has done         *)
(* nothing, only the newest lives, and no one removes the file under a     *)
(* bridge that is in its serving loop.                                     *)
Unborn       == \A g \in Gens : g > last => main[g] = "unborn" /\ http[g] = "idle"
OneAtATime   == \A g \in Gens : Alive(g) => g = last /\ ~launching
FileAttached == \A g \in Gens : main[g] = "running" => http[g] # "detached"

FileInv == /\ Unborn /\ OneAtATime /\ FileAttached
           /\ NeverAnOlderBridge /\ PublishedIsFindable /\ EmptyIsTheNewest

LEMMA InitFile == Init => FileInv
BY LifecycleAssumption
   DEF Init, FileInv, Unborn, OneAtATime, FileAttached, NeverAnOlderBridge,
       PublishedIsFindable, EmptyIsTheNewest, Gens, Alive

(* The extension removes the file when no bridge is left alive.            *)
LEMMA PrepareFile ==
    ASSUME Overlap = FALSE, TypeOK, FileInv, ExtPrepare PROVE FileInv'
<1> USE LifecycleAssumption
<1>1. \A g \in Gens : ~Alive(g) BY DEF ExtPrepare, MayLaunch
<1>2. /\ main' = main /\ last' = last /\ portFile' = Absent
      /\ \A g \in Gens : http[g] = "idle" => http'[g] = "idle"
  BY DEF ExtPrepare, StalePortRemoved, HttpAfterRemoval
<1>3. Unborn' BY <1>2 DEF FileInv, Unborn
<1>4. \A g \in Gens : ~Alive(g)' BY <1>1, <1>2 DEF Alive
<1>5. OneAtATime' /\ FileAttached' /\ PublishedIsFindable' /\ EmptyIsTheNewest'
  BY <1>2, <1>4 DEF OneAtATime, FileAttached, PublishedIsFindable, EmptyIsTheNewest, Alive
<1>6. NeverAnOlderBridge' BY <1>2 DEF NeverAnOlderBridge, Gens, ExtPrepare
<1> QED BY <1>3, <1>5, <1>6 DEF FileInv

(* A call reads the port of the newest bridge, and is over before a launch. *)
LEMMA CallerFile == ASSUME TypeOK, FileInv, ReadPort \/ Call PROVE FileInv'
<1> USE LifecycleAssumption
<1>1. UNCHANGED <<launching, last, portFile, threads>> BY DEF ReadPort, Call
<1>2. client' \in {client, portFile, Absent} BY DEF ReadPort, Call
<1>3. NeverAnOlderBridge' BY <1>1, <1>2 DEF FileInv, NeverAnOlderBridge, Gens
<1> QED BY <1>1, <1>3
        DEF FileInv, Unborn, OneAtATime, FileAttached, PublishedIsFindable,
            EmptyIsTheNewest, Alive, threads

(* The new generation finds no file and no bridge alive: while a Command   *)
(* is pending nothing is published.                                        *)
LEMMA LaunchFile ==
    ASSUME TypeOK, Room, FileInv, NEW step \in Steps, Launch(step) PROVE FileInv'
<1> USE LifecycleAssumption
<1> DEFINE n == last + 1
<1>1. /\ launching /\ launching' = FALSE /\ last' = n /\ n \in Gens
      /\ portFile' = portFile /\ http' = http
  BY DEF TypeOK, Room, Launch, Gens
<1>2. main' = [main EXCEPT ![n] = step] BY DEF Launch
<1>3. \A g \in Gens : g # n => main'[g] = main[g] BY <1>2 DEF TypeOK
<1>4. /\ portFile \notin Gens \cup {Empty} /\ client \notin Gens /\ client' = client
  BY <1>1 DEF FileInv, NeverAnOlderBridge, EmptyIsTheNewest, Launch
<1>5. \A g \in Gens : g # n => ~Alive(g)
  BY <1>1 DEF FileInv, OneAtATime
<1>6. http[n] = "idle" BY <1>1 DEF FileInv, Unborn, TypeOK, Gens
<1>7. Unborn' BY <1>1, <1>3 DEF FileInv, Unborn, TypeOK, Gens
<1>8. OneAtATime' BY <1>1, <1>3, <1>5 DEF OneAtATime, Alive
<1>9. FileAttached' BY <1>1, <1>3, <1>6 DEF FileInv, FileAttached
<1>10. NeverAnOlderBridge' BY <1>1, <1>4 DEF NeverAnOlderBridge
<1>11. PublishedIsFindable' BY <1>1, <1>6 DEF PublishedIsFindable
<1>12. EmptyIsTheNewest' BY <1>1, <1>4 DEF EmptyIsTheNewest
<1> QED BY <1>7, <1>8, <1>9, <1>10, <1>11, <1>12 DEF FileInv

(* Only the newest bridge writes the file, and in two steps.               *)
LEMMA HttpFile == ASSUME TypeOK, FileInv, NEW g \in Gens, Http(g) PROVE FileInv'
<1> USE LifecycleAssumption
<1> USE DEF FileInv, Unborn, OneAtATime, FileAttached, NeverAnOlderBridge,
            PublishedIsFindable, EmptyIsTheNewest, Alive, TypeOK, Gens
<1>1. CASE HttpBind(g) BY <1>1 DEF HttpBind
<1>2. CASE HttpTruncate(g) BY <1>2 DEF HttpTruncate
<1>3. CASE HttpPublish(g) BY <1>3 DEF HttpPublish, PortOf
<1>4. CASE HttpFails(g) BY <1>4 DEF HttpFails
<1> QED BY <1>1, <1>2, <1>3, <1>4 DEF Http

(* The bridge that cleans up is the newest, and no other is serving.       *)
LEMMA MainFile == ASSUME TypeOK, FileInv, NEW g \in Gens, Main(g) PROVE FileInv'
<1> USE LifecycleAssumption
<1> USE DEF FileInv, Unborn, OneAtATime, FileAttached, NeverAnOlderBridge,
            PublishedIsFindable, EmptyIsTheNewest, Alive, TypeOK, Gens
<1>1. CASE MainEof(g) BY <1>1 DEF MainEof
<1>2. CASE MainCleanup(g) BY <1>2 DEF MainCleanup, HttpAfterRemoval
<1>3. CASE MainWait(g) BY <1>3 DEF MainWait
<1>4. CASE MainExit(g) BY <1>4 DEF MainExit
<1> QED BY <1>1, <1>2, <1>3, <1>4 DEF Main

(* A bridge that is killed leaves what it wrote, and stays the newest.     *)
LEMMA OtherFile ==
    ASSUME TypeOK, FileInv, NEW g \in Gens, Stdin(g) \/ Environment(g) PROVE FileInv'
<1> USE LifecycleAssumption
<1>1. UNCHANGED <<launching, last, portFile, client, http>>
  BY DEF Stdin, Environment, StdinEof, StdinKill, StdinWriteFails, ZedClose,
         BridgeKilled, ServerEnds, ServerGoesMute, ServerClosesStdin
<1>2. main' = main \/ (Alive(g) /\ main' = [main EXCEPT ![g] = "exited"])
  BY DEF Stdin, Environment, StdinEof, StdinKill, StdinWriteFails, ZedClose,
         BridgeKilled, ServerEnds, ServerGoesMute, ServerClosesStdin
<1> QED BY <1>1, <1>2
        DEF FileInv, Unborn, OneAtATime, FileAttached, NeverAnOlderBridge,
            PublishedIsFindable, EmptyIsTheNewest, Alive, TypeOK, Gens

LEMMA StepFile ==
    ASSUME Overlap = FALSE
    PROVE  TypeOK /\ Room /\ FileInv /\ [Next]_vars => FileInv'
<1> SUFFICES ASSUME TypeOK, Room, FileInv, [Next]_vars PROVE FileInv' OBVIOUS
<1>1. CASE UNCHANGED vars
  BY <1>1 DEF vars, threads, FileInv, Unborn, OneAtATime, FileAttached,
              NeverAnOlderBridge, PublishedIsFindable, EmptyIsTheNewest, Alive
<1>2. CASE ExtPrepare BY <1>2, PrepareFile
<1>5. CASE ReadPort \/ Call BY <1>5, CallerFile
<1>3. ASSUME NEW step \in Steps, Launch(step) PROVE FileInv' BY <1>3, LaunchFile
<1>4. ASSUME NEW g \in Gens, Http(g) \/ Stdin(g) \/ Main(g) \/ Environment(g)
      PROVE  FileInv'
  BY <1>4, HttpFile, MainFile, OtherFile
<1> QED BY <1>1, <1>2, <1>3, <1>4, <1>5 DEF Next, Steps

(* Where Zed waits for the process it stops, neither the file nor a call   *)
(* ever names an older bridge, however many are started and killed, and    *)
(* the newest one can be found from the moment it has published its port   *)
(* for as long as it serves (lib.rs:479-519, 1025-1028, http.rs:18-30).    *)
THEOREM PortFileStaysSound == ASSUME Overlap = FALSE PROVE Spec => []PortFileSound
<1>1. FileInv => PortFileSound BY DEF FileInv, PortFileSound
<1> QED BY <1>1, InitType, StepType, InitFile, StepFile, PTL DEF Spec

-----------------------------------------------------------------------------
(* One server, when Zed waits for the old process.                         *)

(* A server that runs is that of a bridge alive, which is the newest, or   *)
(* was left behind by one that was killed or panicked.                     *)
LeftBehind ==
    \A g \in Gens :
        Runs(g) => /\ g <= last
                   /\ Alive(g) \/ killed[g] \/ main[g] = "panicked"

LEMMA LaunchLeaves ==
    ASSUME TypeOK, Room, FileInv, LeftBehind, NEW step \in Steps, Launch(step)
    PROVE  LeftBehind'
<1> USE LifecycleAssumption
<1>0. PICK n \in Gens : n = last + 1 BY DEF TypeOK, Room, Launch, Gens
<1>1. /\ last' = n /\ killed' = killed /\ last \in Nat
      /\ main' = [main EXCEPT ![n] = step]
      /\ server' = [server EXCEPT ![n] = IF step = "exited" THEN "none" ELSE "up"]
  BY <1>0 DEF TypeOK, Launch
<1>2. \A g \in Gens : g # n => main'[g] = main[g] /\ server'[g] = server[g]
  BY <1>1 DEF TypeOK
<1>3. main'[n] = step /\ server'[n] = IF step = "exited" THEN "none" ELSE "up"
  BY <1>1 DEF TypeOK
<1>4. ASSUME NEW g \in Gens, g # n, Runs(g)'
      PROVE  g <= last' /\ (Alive(g)' \/ killed'[g] \/ main'[g] = "panicked")
  <2>1. g <= last /\ (Alive(g) \/ killed[g] \/ main[g] = "panicked")
    BY <1>2, <1>4 DEF LeftBehind, Runs
  <2>2. g <= last' BY <1>0, <1>1, <2>1 DEF Gens
  <2> QED BY <1>1, <1>2, <1>4, <2>1, <2>2 DEF Alive
<1>5. ASSUME Runs(n)' PROVE Alive(n)' \/ main'[n] = "panicked"
  <2>1. step # "exited" BY <1>3, <1>5 DEF Runs
  <2> QED BY <1>3, <2>1 DEF Alive, Steps
<1>6. n <= last' BY <1>1 DEF Gens
<1> QED BY <1>4, <1>5, <1>6 DEF LeftBehind

(* Only MainExit and a kill end a bridge that lives, and MainExit comes    *)
(* after its server's end; nothing revives a server.                       *)
LEMMA ThreadsLeave ==
    ASSUME TypeOK, LeftBehind, NEW g \in Gens,
           Http(g) \/ Stdin(g) \/ Main(g) \/ Environment(g)
    PROVE  LeftBehind'
<1> USE DEF LeftBehind, TypeOK, Runs, Alive
<1>1. CASE Http(g)
  BY <1>1 DEF Http, HttpBind, HttpTruncate, HttpPublish, HttpFails
<1>2. CASE Stdin(g) BY <1>2 DEF Stdin, StdinEof, StdinKill, StdinWriteFails
<1>3. CASE MainEof(g) \/ MainCleanup(g) \/ MainWait(g)
  BY <1>3 DEF MainEof, MainCleanup, MainWait
<1>4. CASE MainExit(g) BY <1>4 DEF MainExit, Reaped
<1>5. CASE ZedClose(g) \/ BridgeKilled(g) BY <1>5 DEF ZedClose, BridgeKilled
<1>6. CASE ServerEnds(g) \/ ServerGoesMute(g) \/ ServerClosesStdin(g)
  BY <1>6 DEF ServerEnds, ServerGoesMute, ServerClosesStdin
<1> QED BY <1>1, <1>2, <1>3, <1>4, <1>5, <1>6 DEF Main, Environment

LEMMA StepLeaves == TypeOK /\ Room /\ FileInv /\ LeftBehind /\ [Next]_vars => LeftBehind'
<1> SUFFICES ASSUME TypeOK, Room, FileInv, LeftBehind, [Next]_vars PROVE LeftBehind'
  OBVIOUS
<1>1. CASE UNCHANGED vars BY <1>1 DEF vars, threads, LeftBehind, Runs, Alive
<1>2. CASE ExtPrepare \/ ReadPort \/ Call
  BY <1>2 DEF ExtPrepare, ReadPort, Call, threads, LeftBehind, Runs, Alive
<1>3. ASSUME NEW step \in Steps, Launch(step) PROVE LeftBehind' BY <1>3, LaunchLeaves
<1>4. ASSUME NEW g \in Gens, Http(g) \/ Stdin(g) \/ Main(g) \/ Environment(g)
      PROVE  LeftBehind'
  BY <1>4, ThreadsLeave
<1> QED BY <1>1, <1>2, <1>3, <1>4 DEF Next, Steps

(* Where Zed waits for the process it stops, two servers never run on one  *)
(* workspace unless the earlier one's bridge was killed or panicked at its *)
(* start, however many bridges come and whatever their servers do with     *)
(* their streams (main.rs:147-166, 216-222).                               *)
THEOREM OneServerAtATime == ASSUME Overlap = FALSE PROVE Spec => []OneServerPerWorkspace
<1>1. Init => LeftBehind BY DEF Init, LeftBehind, Runs
<1>2. TypeOK /\ FileInv /\ LeftBehind => OneServerPerWorkspace
  <2> SUFFICES ASSUME TypeOK, FileInv, LeftBehind, NEW g \in Gens, NEW h \in Gens,
                      g < h, Runs(g), Runs(h)
               PROVE  killed[g] \/ main[g] = "panicked"
    BY DEF OneServerPerWorkspace
  <2>1. h <= last BY DEF LeftBehind
  <2>3. g # last BY <2>1 DEF TypeOK, Gens
  <2>2. ~Alive(g) BY <2>3 DEF FileInv, OneAtATime
  <2> QED BY <2>2 DEF LeftBehind
<1> QED BY <1>1, <1>2, InitType, StepType, InitFile, StepFile, StepLeaves, PTL DEF Spec
=============================================================================
