------------------------ MODULE ExtensionInstallProofs ------------------------
(***************************************************************************)
(* Theorems about ExtensionInstall for any worktrees and any number of     *)
(* releases. What is in the caches, and what a call has found, is tied to  *)
(* what is on disk and to the release that runs; a command is what they    *)
(* were when it was launched.                                              *)
(***************************************************************************)
EXTENDS ExtensionInstall, TLAPS

-----------------------------------------------------------------------------
(* The inductive invariant.                                                *)

Searching == {"manual", "installed", "download", "extracting", "locate"}
Found     == {"bridge", "fetch", "fetching", "launch"}

Consented == pc # "idle" => consent

(* The server of a call is the cached one; the cached one is current and   *)
(* visible, and while there is such a one nothing else is looked for. The  *)
(* cached bridge is the one of this release.                               *)
CachesAreCurrent ==
    /\ pc \in Found => binary = cachedBinary /\ binary \in Servers
    /\ cachedBinary \in Releases => HasLauncher(cachedBinary) /\ cachedBinary >= release
    /\ pc \in Searching => cachedBinary \notin Releases
    /\ cachedBridge # None => cachedBridge = release
    /\ pc = "launch" => cachedBridge # None

(* Unless a download was interrupted, what is torn is being downloaded.    *)
TornIsDownloading ==
    interrupted \/ /\ \A v \in Releases : serverDir[v] = "torn" =>
                         v = release /\ pc \in {"extracting", "locate"}
                   /\ \A v \in Releases : bridgeFile[v] = "torn" =>
                         v = release /\ pc = "fetching"
                   /\ pc = "launch" => bridgeFile[release] = "full"

(* A worktree runs what it was given, and a downloaded server stays cached. *)
Fit(c, cached, torn) ==
    /\ c.consent
    /\ c.server # User => c.server >= c.pin /\ c.server = cached
    /\ c.bridge = c.pin
    /\ c.whole \/ torn
Fits(w) == launched[w] # None => Fit(launched[w], cachedBinary, interrupted)
CommandsFit == \A w \in Worktrees : Fits(w)

IInv == /\ TypeOK /\ Consented /\ CachesAreCurrent /\ TornIsDownloading
        /\ CommandsFit /\ HashIsOfTheServer

-----------------------------------------------------------------------------

(* Type correctness. The server of a command is one because a call that    *)
(* goes on to the bridge has found one.                                    *)

LEMMA ReleasesAreNumbers ==
    Releases \subseteq Nat /\ None \notin Releases /\ User \notin Releases
<1>1. \A v \in Releases : v \in Nat BY InstallAssumption DEF Releases
<1> QED BY <1>1, InstallAssumption

LEMMA InstalledType == TypeOK => /\ Installed \subseteq Releases
                                 /\ \A v \in Installed : HasLauncher(v) /\ v >= release
  BY DEF Installed

(* Where at most the settings have changed.                                *)
LEMMA SettingsType ==
    ASSUME TypeOK, UNCHANGED release, UNCHANGED sandbox, UNCHANGED caches,
           UNCHANGED pc, UNCHANGED call, UNCHANGED results,
           accepted' \in [Worktrees -> BOOLEAN],
           path' \in [Worktrees -> {"auto", "user", "bad"}]
    PROVE  TypeOK'
<1> USE DEF TypeOK, settings, sandbox, caches, call, results
<1>1. (/\ release \in Releases
       /\ serverDir \in [Releases -> {"absent", "empty", "torn", "full"}]
       /\ bridgeFile \in [Releases -> {"absent", "torn", "full"}]
       /\ cachedBinary \in Servers \cup {None} /\ cachedBridge \in Releases \cup {None})'
  OBVIOUS
<1>2. (/\ pc \in {"idle", "cached", "manual", "installed", "download", "extracting",
                  "locate", "bridge", "fetch", "fetching", "launch"}
       /\ who \in Worktrees /\ asks \in {"auto", "user", "bad"} /\ consent \in BOOLEAN
       /\ binary \in Servers \cup {None} /\ interrupted \in BOOLEAN)'
  OBVIOUS
<1>3. (/\ outcome \in {"none", "eula", "bad path", "download", "binary not found", "launched"}
       /\ launched \in [Worktrees -> Command \cup {None}]
       /\ hash \in [Worktrees -> Releases \cup {None}])'
  OBVIOUS
<1> QED BY <1>1, <1>2, <1>3

LEMMA StepType == TypeOK /\ CachesAreCurrent /\ [Next]_vars => TypeOK'
<1> SUFFICES ASSUME TypeOK, CachesAreCurrent, [Next]_vars PROVE TypeOK' OBVIOUS
<1> USE DEF settings, sandbox, caches, call, results
<1>1. CASE UNCHANGED vars
  <2>1. UNCHANGED settings /\ UNCHANGED sandbox /\ UNCHANGED caches /\ UNCHANGED pc
        /\ UNCHANGED call /\ UNCHANGED results
    BY <1>1, Zenon DEF vars
  <2> QED BY <2>1, SettingsType DEF TypeOK
<1> USE DEF TypeOK
<1>2. ASSUME NEW w \in Worktrees, CommandBegins(w) PROVE TypeOK'
  BY <1>2 DEF CommandBegins
<1>3. CASE UseCached BY <1>3 DEF UseCached
<1>4. CASE UseManual
  BY <1>4 DEF UseManual, Fail, ServerAt, IsServerBinary, Servers
<1>5. CASE UseInstalled BY <1>5 DEF UseInstalled, Installed, Servers
<1>6. CASE DownloadBegins BY <1>6 DEF DownloadBegins
<1>7. CASE Extract
  <2>1. serverDir' \in [Releases -> {"absent", "empty", "torn", "full"}]
    BY <1>7 DEF Extract
  <2>2. pc' \in {"extracting", "locate"} BY <1>7 DEF Extract
  <2>3. UNCHANGED settings /\ bridgeFile' = bridgeFile /\ UNCHANGED caches
        /\ UNCHANGED call /\ UNCHANGED results
    BY <1>7 DEF Extract
  <2> QED BY <2>1, <2>2, <2>3
<1>8. CASE DownloadFails BY <1>8 DEF DownloadFails, Fail
<1>9. CASE Locate BY <1>9 DEF Locate, Fail, Servers
<1>10. CASE UseCachedBridge BY <1>10 DEF UseCachedBridge
<1>11. CASE FindBridge
  <2>1. bridgeFile' \in [Releases -> {"absent", "torn", "full"}]
    BY <1>11 DEF FindBridge
  <2>2. pc' \in {"launch", "fetch"} /\ cachedBridge' \in Releases \cup {None}
    BY <1>11 DEF FindBridge, CurrentBridge
  <2> QED BY <1>11, <2>1, <2>2 DEF FindBridge
<1>12. CASE FetchBegins BY <1>12 DEF FetchBegins
<1>13. CASE FetchEnds BY <1>13 DEF FetchEnds
<1>14. CASE Launch
  <2>1. binary \in Servers /\ cachedBridge \in Releases
    BY <1>14 DEF Launch, CachesAreCurrent, Found
  <2>2. launched'[who] \in Command BY <1>14, <2>1 DEF Launch, Command
  <2>3. \A w \in Worktrees \ {who} : launched'[w] = launched[w] BY <1>14 DEF Launch
  <2>4. launched' \in [Worktrees -> Command \cup {None}]
    BY <1>14, <2>2, <2>3 DEF Launch
  <2>5. hash' \in [Worktrees -> Releases \cup {None}] BY <1>14 DEF Launch
  <2> QED BY <1>14, <2>4, <2>5 DEF Launch
<1>15. ASSUME NEW w \in Worktrees, InitializationOptions(w) PROVE TypeOK'
  <2>1. \A v \in EulaFound : v \in Releases \cup {None}
    BY DEF EulaFound, AnyEula, Eulas
  <2> QED BY <1>15, <2>1 DEF InitializationOptions
<1>16. ASSUME NEW w \in Worktrees, ChangeSettings(w) PROVE TypeOK'
  <2>1. accepted' \in [Worktrees -> BOOLEAN] BY <1>16 DEF ChangeSettings
  <2>2. path' \in [Worktrees -> {"auto", "user", "bad"}] BY <1>16 DEF ChangeSettings
  <2>3. UNCHANGED release /\ UNCHANGED sandbox /\ UNCHANGED caches /\ UNCHANGED pc
        /\ UNCHANGED call /\ UNCHANGED results
    BY <1>16, Zenon DEF ChangeSettings
  <2> QED BY <2>1, <2>2, <2>3, SettingsType
<1>17. ASSUME NEW n \in Releases, Restart(n) PROVE TypeOK' BY <1>17 DEF Restart
<1> QED
  BY <1>1, <1>2, <1>3, <1>4, <1>5, <1>6, <1>7, <1>8, <1>9, <1>10, <1>11, <1>12, <1>13,
     <1>14, <1>15, <1>16, <1>17
  DEF Next, Binary, Bridge

-----------------------------------------------------------------------------
(* The settings of a call stay what they were, and what it found is kept.  *)

LEMMA StepConsented == TypeOK /\ Consented /\ [Next]_vars => Consented'
<1> SUFFICES ASSUME TypeOK, Consented, [Next]_vars PROVE Consented' OBVIOUS
<1> USE DEF Consented, settings, sandbox, caches, call, results
<1>1. CASE UNCHANGED vars BY <1>1 DEF vars
<1>2. ASSUME NEW w \in Worktrees, CommandBegins(w) PROVE Consented'
  BY <1>2 DEF CommandBegins, GatePasses
<1>3. ASSUME NEW w \in Worktrees, InitializationOptions(w) \/ ChangeSettings(w)
      PROVE  Consented'
  BY <1>3 DEF InitializationOptions, ChangeSettings
<1>4. CASE Binary
  BY <1>4 DEF Binary, UseCached, UseManual, UseInstalled, DownloadBegins, Extract,
              DownloadFails, Locate, Fail, Downloading
<1>5. CASE Bridge \/ Launch
  BY <1>5 DEF Bridge, UseCachedBridge, FindBridge, FetchBegins, FetchEnds, Launch
<1>6. ASSUME NEW n \in Releases, Restart(n) PROVE Consented' BY <1>6 DEF Restart
<1> QED BY <1>1, <1>2, <1>3, <1>4, <1>5, <1>6 DEF Next

(* Launchers are never removed.                                            *)
LEMMA LaunchersStay ==
    ASSUME TypeOK, [Next]_vars, NEW v \in Releases
    PROVE  /\ HasLauncher(v) => HasLauncher(v)'
           /\ serverDir[v] = "full" => serverDir'[v] = "full"
<1> USE DEF HasLauncher, settings, sandbox, caches, call, results
<1>1. serverDir \in [Releases -> {"absent", "empty", "torn", "full"}] /\ release \in Releases
  BY DEF TypeOK
<1>2. CASE DownloadBegins \/ Extract \/ Locate
  BY <1>1, <1>2 DEF DownloadBegins, Extract, Locate
<1>3. CASE serverDir' = serverDir BY <1>3
<1>4. \/ serverDir' = serverDir \/ DownloadBegins \/ Extract \/ Locate
  <2>1. CASE UNCHANGED vars BY <2>1 DEF vars
  <2>2. ASSUME NEW w \in Worktrees,
               CommandBegins(w) \/ InitializationOptions(w) \/ ChangeSettings(w)
        PROVE serverDir' = serverDir
    BY <2>2 DEF CommandBegins, InitializationOptions, ChangeSettings
  <2>3. CASE UseCached \/ UseManual \/ UseInstalled \/ DownloadFails
    BY <2>3 DEF UseCached, UseManual, UseInstalled, DownloadFails
  <2>4. CASE Bridge \/ Launch
    BY <2>4 DEF Bridge, UseCachedBridge, FindBridge, FetchBegins, FetchEnds, Launch
  <2>5. ASSUME NEW n \in Releases, Restart(n) PROVE serverDir' = serverDir
    BY <2>5 DEF Restart
  <2> QED BY <2>1, <2>2, <2>3, <2>4, <2>5 DEF Next, Binary
<1> QED BY <1>2, <1>3, <1>4

LEMMA StepCaches == TypeOK /\ CachesAreCurrent /\ [Next]_vars => CachesAreCurrent'
<1> SUFFICES ASSUME TypeOK, CachesAreCurrent, [Next]_vars PROVE CachesAreCurrent' OBVIOUS
<1>t. TypeOK' BY StepType
<1>a. \A v \in Releases : HasLauncher(v) => HasLauncher(v)' BY LaunchersStay
<1>b. /\ release \in Releases /\ Releases \subseteq Nat
      /\ None \notin Releases /\ User \notin Releases
  BY ReleasesAreNumbers DEF TypeOK
(* Steps that leave the caches as they are, and where the call is.         *)
<1>c. ASSUME UNCHANGED <<release, cachedBinary, cachedBridge>>,
             pc' \in Found => binary' = cachedBinary /\ binary' \in Servers,
             pc' \in Searching => cachedBinary \notin Releases,
             pc' = "launch" => cachedBridge # None
      PROVE  CachesAreCurrent'
  BY <1>a, <1>c DEF CachesAreCurrent
(* A server is found.                                                      *)
<1>d. ASSUME UNCHANGED <<release, cachedBridge>>, pc' = "bridge",
             NEW s \in Servers, binary' = s, cachedBinary' = s,
             s \in Releases => HasLauncher(s)' /\ s >= release
      PROVE  CachesAreCurrent'
  BY <1>d DEF CachesAreCurrent, Searching
<1> USE DEF settings, sandbox, caches, call, results, Found, Searching
<1>1. CASE UNCHANGED vars BY <1>1, <1>c DEF vars, CachesAreCurrent
<1>2. ASSUME NEW w \in Worktrees,
             CommandBegins(w) \/ InitializationOptions(w) \/ ChangeSettings(w)
      PROVE  CachesAreCurrent'
  BY <1>2, <1>c DEF CommandBegins, InitializationOptions, ChangeSettings, CachesAreCurrent
<1>3. CASE UseCached
  <2>1. CASE Visible(cachedBinary)
    BY <1>3, <1>c, <2>1 DEF UseCached, Visible, Servers
  <2>2. CASE ~Visible(cachedBinary)
    BY <1>3, <1>c, <2>2 DEF UseCached, Visible, CachesAreCurrent
  <2> QED BY <2>1, <2>2
<1>4. CASE UseManual
  <2>1. CASE IsServerBinary(asks) /\ binary' = ServerAt(asks)
    <3>1. ServerAt(asks) = User BY <2>1 DEF ServerAt, IsServerBinary
    <3>2. UNCHANGED <<release, cachedBridge>> /\ pc' = "bridge" /\ cachedBinary' = User
      BY <1>4, <2>1, <3>1 DEF UseManual, Fail, IsServerBinary
    <3> QED BY <1>b, <1>d, <2>1, <3>1, <3>2 DEF Servers
  <2>2. CASE pc' = "idle" /\ UNCHANGED <<release, cachedBinary, cachedBridge>>
    BY <1>c, <2>2
  <2>3. CASE pc' = "installed" /\ UNCHANGED <<release, cachedBinary, cachedBridge>>
    BY <1>4, <1>c, <2>3 DEF UseManual, CachesAreCurrent
  <2> QED BY <1>4, <2>1, <2>2, <2>3 DEF UseManual, Fail
<1>5. CASE UseInstalled
  <2>1. CASE Installed # {}
    <3>1. PICK v \in Installed : binary' = v /\ cachedBinary' = v
      BY <1>5, <2>1 DEF UseInstalled
    <3>2. v \in Servers /\ HasLauncher(v)' /\ v >= release
      BY <1>a, InstalledType DEF Servers
    <3> QED BY <1>5, <1>d, <2>1, <3>1, <3>2 DEF UseInstalled
  <2>2. CASE Installed = {}
    BY <1>5, <1>c, <2>2 DEF UseInstalled, CachesAreCurrent
  <2> QED BY <2>1, <2>2
<1>6. CASE DownloadBegins \/ Extract
  BY <1>6, <1>c DEF DownloadBegins, Extract, CachesAreCurrent
<1>7. CASE DownloadFails BY <1>7, <1>c DEF DownloadFails, Fail
<1>8. CASE Locate
  <2>1. CASE binary' = release /\ cachedBinary' = release /\ HasLauncher(release)
    <3>1. release \in Servers /\ HasLauncher(release)' /\ release >= release
      <4>1. serverDir \in [Releases -> {"absent", "empty", "torn", "full"}] BY DEF TypeOK
      <4>2. UNCHANGED release BY <1>8 DEF Locate
      <4> QED BY <1>a, <1>b, <2>1, <4>2 DEF Servers, HasLauncher
    <3> QED BY <1>8, <1>d, <2>1, <3>1 DEF Locate
  <2>2. CASE pc' = "idle" /\ UNCHANGED <<release, cachedBinary, cachedBridge>>
    BY <1>c, <2>2
  <2> QED BY <1>8, <2>1, <2>2 DEF Locate, Fail
<1>9. CASE UseCachedBridge
  BY <1>b, <1>9, <1>c DEF UseCachedBridge, BridgeThere, CachesAreCurrent
<1>10. CASE FindBridge
  <2>1. CASE CurrentBridge = {}
    BY <1>10, <1>c, <2>1 DEF FindBridge, CachesAreCurrent
  <2>2. CASE CurrentBridge # {}
    <3>1. cachedBridge' = release BY <1>10, <2>2 DEF FindBridge, CurrentBridge
    <3>2. /\ pc = "bridge" /\ pc' = "launch"
          /\ UNCHANGED <<release, binary, cachedBinary, serverDir>>
      BY <1>10, <2>2 DEF FindBridge
    <3> QED BY <1>b, <3>1, <3>2 DEF CachesAreCurrent, HasLauncher
  <2> QED BY <2>1, <2>2
<1>11. CASE FetchBegins BY <1>11, <1>c DEF FetchBegins, CachesAreCurrent
<1>12. CASE FetchEnds BY <1>12, <1>b DEF FetchEnds, CachesAreCurrent, HasLauncher
<1>13. CASE Launch BY <1>13, <1>c DEF Launch
<1>14. ASSUME NEW n \in Releases, Restart(n) PROVE CachesAreCurrent'
  BY <1>14, <1>b DEF Restart, CachesAreCurrent
<1> QED
  BY <1>1, <1>2, <1>3, <1>4, <1>5, <1>6, <1>7, <1>8, <1>9, <1>10, <1>11, <1>12, <1>13,
     <1>14
  DEF Next, Binary, Bridge

-----------------------------------------------------------------------------
(* A download leaves nothing torn but when it is interrupted.              *)

LEMMA StepTorn ==
    TypeOK /\ CachesAreCurrent /\ TornIsDownloading /\ [Next]_vars => TornIsDownloading'
<1> SUFFICES ASSUME TypeOK, CachesAreCurrent, TornIsDownloading, [Next]_vars,
                    ~interrupted, ~interrupted'
             PROVE  TornIsDownloading'
  <2>1. interrupted /\ [Next]_vars => interrupted'
    <3> USE DEF settings, sandbox, caches, call, results
    <3> SUFFICES ASSUME interrupted, [Next]_vars PROVE interrupted' OBVIOUS
    <3>1. CASE UNCHANGED vars BY <3>1 DEF vars
    <3>2. ASSUME NEW w \in Worktrees,
                 CommandBegins(w) \/ InitializationOptions(w) \/ ChangeSettings(w)
          PROVE  interrupted'
      BY <3>2 DEF CommandBegins, InitializationOptions, ChangeSettings
    <3>3. CASE Binary
      BY <3>3 DEF Binary, UseCached, UseManual, UseInstalled, DownloadBegins, Extract,
                  DownloadFails, Locate
    <3>4. CASE Bridge \/ Launch
      BY <3>4 DEF Bridge, UseCachedBridge, FindBridge, FetchBegins, FetchEnds, Launch
    <3>5. ASSUME NEW n \in Releases, Restart(n) PROVE interrupted' BY <3>5 DEF Restart
    <3> QED BY <3>1, <3>2, <3>3, <3>4, <3>5 DEF Next
  <2> QED BY <2>1 DEF TornIsDownloading
<1> USE DEF settings, sandbox, caches, call, results
<1>a. /\ serverDir \in [Releases -> {"absent", "empty", "torn", "full"}]
      /\ bridgeFile \in [Releases -> {"absent", "torn", "full"}]
      /\ release \in Releases
  BY DEF TypeOK
<1>b. /\ \A v \in Releases : serverDir[v] = "torn" =>
            v = release /\ pc \in {"extracting", "locate"}
      /\ \A v \in Releases : bridgeFile[v] = "torn" => v = release /\ pc = "fetching"
      /\ pc = "launch" => bridgeFile[release] = "full"
  BY DEF TornIsDownloading
(* Steps that change no file, outside of a download.                       *)
<1>c. ASSUME UNCHANGED <<serverDir, bridgeFile, release>>,
             pc \notin {"extracting", "locate", "fetching"} \/ pc' = pc,
             pc' = "launch" => pc = "launch"
      PROVE  TornIsDownloading'
  BY <1>b, <1>c DEF TornIsDownloading
<1>1. CASE UNCHANGED vars BY <1>1, <1>c DEF vars
<1>2. ASSUME NEW w \in Worktrees,
             CommandBegins(w) \/ InitializationOptions(w) \/ ChangeSettings(w)
      PROVE  TornIsDownloading'
  BY <1>2, <1>c DEF CommandBegins, InitializationOptions, ChangeSettings
<1>3. CASE UseCached \/ UseInstalled BY <1>3, <1>c DEF UseCached, UseInstalled
<1>4. CASE UseManual BY <1>4, <1>c DEF UseManual, Fail
<1>5. CASE DownloadBegins
  <2>1. CASE serverDir[release] = "absent"
    BY <1>5, <1>a, <1>b, <2>1 DEF DownloadBegins, TornIsDownloading
  <2>2. CASE serverDir[release] # "absent"
    BY <1>5, <1>c, <2>2 DEF DownloadBegins
  <2> QED BY <2>1, <2>2
<1>6. CASE Extract
  <2>1. /\ pc = "extracting" /\ pc' \in {"extracting", "locate"}
        /\ \A v \in Releases : serverDir'[v] = "torn" => v = release
        /\ UNCHANGED <<bridgeFile, release>>
    BY <1>6, <1>a, <1>b DEF Extract
  <2> QED BY <1>b, <2>1 DEF TornIsDownloading
<1>7. CASE DownloadFails BY <1>7 DEF DownloadFails
<1>8. CASE Locate
  <2>1. /\ pc = "locate" /\ pc' \in {"bridge", "idle"} /\ UNCHANGED <<bridgeFile, release>>
    BY <1>8 DEF Locate, Fail
  <2>2. \A v \in Releases : serverDir'[v] # "torn"
    BY <1>8, <1>a, <1>b DEF Locate, HasLauncher
  <2> QED BY <1>b, <2>1, <2>2 DEF TornIsDownloading
<1>9. CASE UseCachedBridge
  <2>1. pc = "bridge" /\ pc' = "launch" /\ UNCHANGED <<serverDir, bridgeFile, release>>
    BY <1>9 DEF UseCachedBridge
  <2>2. bridgeFile[release] # "absent"
    <3>1. PICK v \in Releases : v = cachedBridge /\ bridgeFile[v] # "absent"
      BY <1>9 DEF UseCachedBridge, BridgeThere
    <3>2. v # None BY ReleasesAreNumbers
    <3> QED BY <3>1, <3>2 DEF CachesAreCurrent
  <2>3. bridgeFile[release] = "full" BY <1>a, <1>b, <2>1, <2>2
  <2> QED BY <1>b, <2>1, <2>3 DEF TornIsDownloading
<1>10. CASE FindBridge
  <2>1. pc = "bridge" /\ pc' \in {"launch", "fetch"} /\ UNCHANGED <<serverDir, release>>
    BY <1>10 DEF FindBridge
  <2>2. \A v \in Releases : bridgeFile'[v] # "torn"
    BY <1>10, <1>b, <2>1 DEF FindBridge
  <2>3. pc' = "launch" => bridgeFile'[release] = "full"
    <3> SUFFICES ASSUME pc' = "launch" PROVE bridgeFile'[release] = "full" OBVIOUS
    <3>1. CurrentBridge # {} BY <1>10 DEF FindBridge
    <3>2. bridgeFile[release] = "full" BY <1>a, <1>b, <2>1, <3>1 DEF CurrentBridge
    <3>3. bridgeFile'[release] = bridgeFile[release] BY <1>10, <1>a DEF FindBridge
    <3> QED BY <3>2, <3>3
  <2> QED BY <1>b, <2>1, <2>2, <2>3 DEF TornIsDownloading
<1>11. CASE FetchBegins BY <1>11, <1>a, <1>b DEF FetchBegins, TornIsDownloading
<1>12. CASE FetchEnds BY <1>12, <1>a, <1>b DEF FetchEnds, TornIsDownloading
<1>13. CASE Launch BY <1>13, <1>c DEF Launch
<1>14. ASSUME NEW n \in Releases, Restart(n) PROVE TornIsDownloading'
  <2>1. ~Downloading /\ pc' = "idle" /\ UNCHANGED <<serverDir, bridgeFile>>
    BY <1>14 DEF Restart
  <2>2. \A v \in Releases : serverDir[v] # "torn" /\ bridgeFile[v] # "torn"
    BY <1>b, <2>1 DEF Downloading, HasLauncher
  <2> QED BY <2>1, <2>2 DEF TornIsDownloading
<1> QED
  BY <1>1, <1>2, <1>3, <1>4, <1>5, <1>6, <1>7, <1>8, <1>9, <1>10, <1>11, <1>12, <1>13,
     <1>14
  DEF Next, Binary, Bridge

-----------------------------------------------------------------------------
(* What was launched, and the hash of its agreement.                       *)

(* Outside of a download what is visible is whole.                         *)
LEMMA VisibleIsWhole ==
    ASSUME TypeOK, TornIsDownloading, ~interrupted, pc \notin {"extracting", "locate"},
           NEW v \in Releases, HasLauncher(v)
    PROVE  serverDir[v] = "full"
  BY DEF TypeOK, TornIsDownloading, HasLauncher

(* Between a launch and the next the cached server only changes when there *)
(* was none that had been downloaded.                                      *)
LEMMA CacheKept ==
    ASSUME TypeOK, CachesAreCurrent, [Next]_vars
    PROVE  \/ cachedBinary \notin Releases
           \/ cachedBinary' = cachedBinary
           \/ \E n \in Releases : Restart(n)
<1> USE DEF settings, sandbox, caches, call, results
<1>1. CASE UNCHANGED vars BY <1>1 DEF vars
<1>2. ASSUME NEW w \in Worktrees,
             CommandBegins(w) \/ InitializationOptions(w) \/ ChangeSettings(w)
      PROVE  cachedBinary' = cachedBinary
  BY <1>2 DEF CommandBegins, InitializationOptions, ChangeSettings
<1>3. CASE UseCached \/ DownloadBegins \/ Extract \/ DownloadFails
  BY <1>3 DEF UseCached, DownloadBegins, Extract, DownloadFails
<1>4. CASE UseManual \/ UseInstalled \/ Locate
  <2>1. pc \in Searching BY <1>4 DEF UseManual, UseInstalled, Locate, Searching
  <2> QED BY <2>1 DEF CachesAreCurrent
<1>5. CASE Bridge \/ Launch
  BY <1>5 DEF Bridge, UseCachedBridge, FindBridge, FetchBegins, FetchEnds, Launch
<1> QED BY <1>1, <1>2, <1>3, <1>4, <1>5 DEF Next, Binary

(* What else may change without a launch.                                  *)
LEMMA LaunchedKept ==
    ASSUME [Next]_vars, ~Launch, \A n \in Releases : ~Restart(n)
    PROVE  /\ launched' = launched /\ (interrupted => interrupted')
           /\ hash' = hash \/ \E w \in Worktrees : InitializationOptions(w)
<1> USE DEF settings, sandbox, caches, call, results
<1>1. CASE UNCHANGED vars BY <1>1 DEF vars
<1>2. ASSUME NEW w \in Worktrees, CommandBegins(w) \/ ChangeSettings(w)
      PROVE  UNCHANGED <<launched, interrupted, hash>>
  BY <1>2 DEF CommandBegins, ChangeSettings
<1>3. ASSUME NEW w \in Worktrees, InitializationOptions(w)
      PROVE  UNCHANGED <<launched, interrupted>>
  BY <1>3 DEF InitializationOptions
<1>4. CASE Binary
  <2>1. CASE UseCached \/ UseInstalled \/ DownloadBegins \/ Extract
    BY <2>1 DEF UseCached, UseInstalled, DownloadBegins, Extract
  <2>2. CASE DownloadFails
    <3>1. Fail("download") /\ interrupted' = TRUE BY <2>2 DEF DownloadFails
    <3> QED BY <3>1 DEF Fail
  <2>3. CASE UseManual \/ Locate
    <3>1. interrupted' = interrupted BY <2>3 DEF UseManual, Locate
    <3>2. launched' = launched /\ hash' = hash BY <2>3 DEF UseManual, Locate, Fail
    <3> QED BY <3>1, <3>2
  <2> QED BY <1>4, <2>1, <2>2, <2>3 DEF Binary
<1>5. CASE Bridge
  BY <1>5 DEF Bridge, UseCachedBridge, FindBridge, FetchBegins, FetchEnds
<1> QED BY <1>1, <1>2, <1>3, <1>4, <1>5 DEF Next

LEMMA StepFits == IInv /\ [Next]_vars => CommandsFit' /\ HashIsOfTheServer'
<1> SUFFICES ASSUME IInv, [Next]_vars PROVE CommandsFit' /\ HashIsOfTheServer' OBVIOUS
<1> USE DEF settings, sandbox, caches, call, results
<1>a. /\ launched \in [Worktrees -> Command \cup {None}]
      /\ hash \in [Worktrees -> Releases \cup {None}]
  BY DEF IInv, TypeOK
<1>b. ASSUME NEW w \in Worktrees, launched[w] # None
      PROVE  launched[w].server \in Releases \cup {User}
  BY <1>a, <1>b DEF Command, Servers
<1>1. CASE Launch
  <2>1. /\ pc = "launch"
        /\ launched' = [launched EXCEPT ![who] =
              [server |-> binary, bridge |-> cachedBridge, pin |-> release,
               asked |-> asks, consent |-> consent,
               whole |-> /\ binary \in {User} \cup {v \in Releases : serverDir[v] = "full"}
                         /\ bridgeFile[cachedBridge] = "full"]]
        /\ hash' = [hash EXCEPT ![who] = None]
        /\ UNCHANGED <<cachedBinary, interrupted>>
    BY <1>1 DEF Launch
  <2>2. /\ binary = cachedBinary /\ binary \in Releases \cup {User}
        /\ binary \in Releases => HasLauncher(binary) /\ binary >= release
        /\ cachedBridge = release /\ consent
    BY <2>1 DEF IInv, CachesAreCurrent, Consented, Found, Servers
  <2>3. interrupted \/ /\ binary \in {User} \cup {v \in Releases : serverDir[v] = "full"}
                       /\ bridgeFile[cachedBridge] = "full"
    <3> SUFFICES ASSUME ~interrupted
                 PROVE  /\ binary \in {User} \cup {v \in Releases : serverDir[v] = "full"}
                        /\ bridgeFile[cachedBridge] = "full"
      OBVIOUS
    <3>1. binary \in Releases => serverDir[binary] = "full"
      BY <2>1, <2>2, VisibleIsWhole DEF IInv
    <3>2. bridgeFile[release] = "full" BY <2>1 DEF IInv, TornIsDownloading
    <3> QED BY <2>2, <3>1, <3>2
  <2>4. who \in Worktrees BY DEF IInv, TypeOK
  <2>5. ASSUME NEW w \in Worktrees, w = who PROVE Fits(w)'
    <3>1. /\ launched'[w].server = binary /\ launched'[w].bridge = cachedBridge
          /\ launched'[w].pin = release /\ launched'[w].consent = consent
          /\ launched'[w].whole =
                (/\ binary \in {User} \cup {v \in Releases : serverDir[v] = "full"}
                 /\ bridgeFile[cachedBridge] = "full")
      BY <1>a, <2>1, <2>5
    <3>2. launched'[w].consent BY <2>2, <3>1, Zenon
    <3>3. launched'[w].whole \/ interrupted' BY <2>1, <2>3, <3>1, Zenon
    <3>4. launched'[w].server # User => /\ launched'[w].server >= launched'[w].pin
                                          /\ launched'[w].server = cachedBinary'
      BY <2>1, <2>2, <3>1
    <3>5. launched'[w].bridge = launched'[w].pin BY <2>2, <3>1
    <3> QED BY <3>2, <3>3, <3>4, <3>5, Zenon DEF Fits, Fit
  <2>6. ASSUME NEW w \in Worktrees, w # who PROVE Fits(w)'
    <3>1. launched'[w] = launched[w] BY <1>a, <2>1, <2>6
    <3>2. Fits(w) /\ cachedBinary' = cachedBinary /\ interrupted' = interrupted
      BY <2>1 DEF IInv, CommandsFit
    <3> QED BY <3>1, <3>2 DEF Fits
  <2>7. CommandsFit' BY <2>5, <2>6, Zenon DEF CommandsFit
  <2>8. ASSUME NEW w \in Worktrees, launched'[w] # None, hash'[w] # None, ~interrupted'
        PROVE  launched'[w].server = User \/ hash'[w] = launched'[w].server
    <3>1. w # who BY <1>a, <2>1, <2>4, <2>8
    <3>2. launched'[w] = launched[w] /\ hash'[w] = hash[w] BY <1>a, <2>1, <3>1
    <3> QED BY <2>1, <2>8, <3>2 DEF IInv, HashIsOfTheServer
  <2> QED BY <2>7, <2>8 DEF HashIsOfTheServer
<1>2. ASSUME NEW n \in Releases, Restart(n) PROVE CommandsFit' /\ HashIsOfTheServer'
  <2>1. launched' = [w \in Worktrees |-> None] BY <1>2 DEF Restart
  <2> QED BY <2>1 DEF CommandsFit, Fits, HashIsOfTheServer
<1>3. CASE ~Launch /\ \A n \in Releases : ~Restart(n)
  <2>1. launched' = launched /\ (interrupted => interrupted') BY <1>3, LaunchedKept
  <2>2. ASSUME NEW w \in Worktrees PROVE Fits(w)'
    <3> SUFFICES ASSUME launched[w] # None PROVE Fits(w)' BY <2>1 DEF Fits
    <3>1. Fit(launched[w], cachedBinary, interrupted) BY DEF IInv, CommandsFit, Fits
    <3>2. launched[w].server # User => cachedBinary' = cachedBinary
      <4>1. launched[w].server # User => launched[w].server = cachedBinary
        BY <3>1, Zenon DEF Fit
      <4> QED BY <1>3, <1>b, <4>1, CacheKept DEF IInv
    <3>3. Fit(launched[w], cachedBinary', interrupted')
      BY <2>1, <3>1, <3>2, Zenon DEF Fit
    <3> QED BY <2>1, <3>3 DEF Fits
  <2>3. CommandsFit' BY <2>2, Zenon DEF CommandsFit
  <2>4. CASE hash' = hash
    <3>1. HashIsOfTheServer' BY <2>1, <2>4, Zenon DEF IInv, HashIsOfTheServer
    <3> QED BY <2>3, <3>1
  <2>5. ASSUME NEW w \in Worktrees, InitializationOptions(w) PROVE HashIsOfTheServer'
    <3>1. /\ pc = "idle" /\ launched[w] # None /\ interrupted' = interrupted
          /\ \E v \in EulaFound : hash' = [hash EXCEPT ![w] = v]
      BY <2>5 DEF InitializationOptions
    <3>2. ~interrupted /\ launched[w].server # User => EulaFound = {launched[w].server}
      <4> SUFFICES ASSUME ~interrupted, launched[w].server # User
                   PROVE  EulaFound = {launched[w].server}
        OBVIOUS
      <4>1. launched[w].server = cachedBinary /\ cachedBinary \in Releases
        BY <1>b, <3>1 DEF IInv, CommandsFit, Fits, Fit
      <4>2. HasLauncher(cachedBinary) BY <4>1 DEF IInv, CachesAreCurrent
      <4>3. serverDir[cachedBinary] = "full"
        BY <3>1, <4>1, <4>2, VisibleIsWhole DEF IInv
      <4> QED BY <4>1, <4>3 DEF EulaFound, Eulas
    <3>3. ASSUME NEW u \in Worktrees, launched'[u] # None, hash'[u] # None, ~interrupted'
          PROVE  launched'[u].server = User \/ hash'[u] = launched'[u].server
      <4>1. CASE u = w BY <1>a, <2>1, <3>1, <3>2, <3>3, <4>1
      <4>2. CASE u # w
        <5>1. hash'[u] = hash[u] BY <1>a, <3>1, <4>2
        <5> QED BY <2>1, <3>1, <3>3, <5>1 DEF IInv, HashIsOfTheServer
      <4> QED BY <4>1, <4>2
    <3> QED BY <3>3 DEF HashIsOfTheServer
  <2> QED BY <1>3, <2>3, <2>4, <2>5, LaunchedKept
<1> QED BY <1>1, <1>2, <1>3

-----------------------------------------------------------------------------
(* The theorems.                                                           *)

LEMMA InitInv == Init => IInv
<1> SUFFICES ASSUME Init PROVE IInv OBVIOUS
<1>1. TypeOK
  <2>1. 1 \in Releases BY InstallAssumption DEF Releases
  <2>2. (/\ release \in Releases /\ accepted \in [Worktrees -> BOOLEAN]
         /\ path \in [Worktrees -> {"auto", "user", "bad"}]
         /\ serverDir \in [Releases -> {"absent", "empty", "torn", "full"}]
         /\ bridgeFile \in [Releases -> {"absent", "torn", "full"}])
    BY <2>1 DEF Init
  <2>3. (/\ launched \in [Worktrees -> Command \cup {None}]
         /\ hash \in [Worktrees -> Releases \cup {None}])
    BY DEF Init
  <2> QED BY <2>2, <2>3 DEF Init, TypeOK
<1>2. Consented /\ CachesAreCurrent
  BY ReleasesAreNumbers DEF Init, Consented, CachesAreCurrent, Found, Searching
<1>3. TornIsDownloading BY DEF Init, TornIsDownloading
<1>4. CommandsFit /\ HashIsOfTheServer BY DEF Init, CommandsFit, Fits, HashIsOfTheServer
<1> QED BY <1>1, <1>2, <1>3, <1>4 DEF IInv

LEMMA Invariance == Spec => []IInv
<1>1. IInv /\ [Next]_vars => IInv'
  BY StepType, StepConsented, StepCaches, StepTorn, StepFits DEF IInv
<1> QED BY InitInv, <1>1, PTL DEF Spec

(* Type correctness for any worktrees and any number of releases.          *)
THEOREM TypeCorrect == Spec => []TypeOK
<1>1. IInv => TypeOK BY DEF IInv
<1> QED BY <1>1, Invariance, PTL

(* Nothing is downloaded or launched in a worktree whose settings do not   *)
(* accept the license, whatever the caches hold (lib.rs:1006-1013).        *)
THEOREM NothingRunsWithoutConsent == Spec => []NothingWithoutConsent
<1>1. IInv => NothingWithoutConsent
  BY DEF IInv, Consented, CommandsFit, Fits, Fit, NothingWithoutConsent, Commands
<1> QED BY <1>1, Invariance, PTL

(* Whatever releases left in the sandbox, what is launched is current, and *)
(* complete where no download was interrupted (lib.rs:302-376, 744-804).   *)
THEOREM LaunchesCurrentAndWhole == Spec => []RunsCurrentAndWhole
<1>1. IInv => RunsCurrentAndWhole
  BY DEF IInv, CommandsFit, Fits, Fit, RunsCurrentAndWhole, Commands
<1> QED BY <1>1, Invariance, PTL

(* The agreement hashed is that of the server the worktree runs            *)
(* (lib.rs:870-886): the cached server is not replaced while it runs.      *)
THEOREM HashesItsAgreement == Spec => []HashIsOfTheServer
<1>1. IInv => HashIsOfTheServer BY DEF IInv
<1> QED BY <1>1, Invariance, PTL
=============================================================================
