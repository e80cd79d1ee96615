# Specifications of intellij-lsp-zed

TLA+ models of the Zed extension (`src/lib.rs`), of the native bridge it runs
(`bridge/src/*.rs`) and of the workflows that release it (`.github/workflows`),
the TLC configurations that check them on small instances, and TLAPS proofs of
what they state about safety for instances of any size. Paths below are relative to the root of
the repository.

```
tlc -workers 2 -config router.cfg MCLspRouter.tla     # any row of "Runs"
tlapm LspRouterProofs.tla                             # any of the *Proofs modules
```

## The system

```
            stdin/stdout                 stdin/stdout
   Zed  <------------------>   bridge  <-------------->  intellij-server (JVM)
    |  \                       |  |  |                     |
    |   \---- TCP (DAP) ---- proxy |  \---- TCP (DAP) ---- debug adapter
    |                              |
 extension (wasm) -- HTTP ---- control endpoint
    |
    +-- proxy/<hex(workspace uri)>: the port file, written by the bridge
```

Zed starts one bridge per worktree, with the server's path as its argument. The
extension lives inside Zed, has no channel to the bridge it had started, and
finds it again through the port file.

### Components

| Component | State | Operations | Met by |
|---|---|---|---|
| Message router: `lsp.rs`, the stdin thread and main loop of `main.rs`, `http.rs` | `pending`, `next_id`, `real_dap_port`, the locks on `server_stdin`, stdout, the table and the port, four pipes | forward, intercept an inlay hint, send a request and wait, route a message of the server, acknowledge, exit | Zed, the server, HTTP callers, the DAP proxy (through `real_dap_port`) |
| Life of a bridge process: `main.rs`, `http.rs`, `language_server_command` | port file, child process and its lock, the threads | start, bind, publish, see either EOF, kill, clean up, wait, exit | earlier and later bridges of the same workspace |
| Client of the bridge: `proxy_port`, `lsp_request_via_proxy`, `start_debug_server` | the port just read | read the port file, one HTTP request | port file, control endpoint |
| DAP proxy: `dap.rs` | `real_dap_port`, two sockets and two threads per connection | poll, connect, copy in both directions, rewrite `stackTrace`, join | the router, Zed's debugger, the server's adapters |
| Framing: `framing.rs` | a byte buffer | `push`, `next_frame`, `encode_frame` | both stdio pipes and the adapter's socket |
| Library sources: `jars.rs`, `forward_to_zed` | memory of URIs, files below `<workdir>/sources` | collect, look up, extract, write, remember, replace, forward | bridges of other worktrees, through the directory |
| Installation and consent: `src/lib.rs` | settings, sandbox files, `cached_binary_path`, `cached_bridge_path` | consent gate, find, download, launch, hash the agreement | the life of a bridge |
| Debug configuration: `src/lib.rs` | `cached_workspace`, the configuration being completed, the adapters started | scenario from the modal and the gutter, four questions to the server, local fallbacks | the control endpoint |
| Release pipeline: `.github/workflows`, `scripts` | `main`, tags, release assets | check, bump, rebuild, commit, push, tag, publish | installation (versions and assets) |

### What is hard, and what makes each part correct

* **Router.** Three kinds of thread share one table, one writer and one
  remembered port, and the only link from a response to its caller is a number.
  A caller must get the answer to its own request whatever is in flight; the
  table must hold exactly the calls in flight, on any of the ways out; a timeout
  may race the answer; every request of Zed and of the server must be settled
  once and by the right side.
* **Threads and locks.** A frame takes several writes, a full pipe stops its
  writer in the middle of one with the lock in its hand, and two critical sections
  nest. Frames must arrive whole, nobody may wait in a ring, calls must end and
  the end of Zed's stream must get through.
* **Life of a bridge.** A kill at any step leaves a port file; cleanup and
  publication run in different threads; the main thread waits for the child
  holding the lock the stdin thread needs to kill it; a client uses the port some
  time after it read it. No client may reach an older bridge, two servers must not
  run on one workspace, and Zed's EOF, or the server's end, must end both.
* **DAP proxy.** One remembered port for all sessions; a client may come before
  the port, or give up while the handler polls; either side closes first. Both
  streams must arrive whole and in order, over any reads, and nothing may stay
  behind when both ends have left.
* **Framing.** Reads cut a frame anywhere, and bodies may look like headers.
* **Library sources.** Writes are not atomic, may fail, and are shared by
  several processes. A message must go out whatever cannot be extracted, and
  what is handed out must be a real source.
* **Installation.** Downloads land in their final place and may stop anywhere, as
  may the step that makes them executable; the cached paths outlive changes of
  settings; Zed runs the extension for several worktrees. Nothing may happen
  without consent; nothing outdated or torn may run.
* **Debug configuration.** Four questions may each fail, the three entry points
  differ in what they know, servers of other worktrees start in between, and an
  adapter is started before the configuration is read.
* **Release pipeline.** Nothing keeps two jobs apart, maintainers push in
  between, and every step may fail after the one before it has left the machine.

## Modules

| Module | Models | Role |
|---|---|---|
| `LspRouter` | router: where every message goes | state machine, properties |
| `ControlContract` | what an HTTP caller may observe | abstract specification, implemented by `LspRouter` |
| `LspRouterProofs` | | theorems about `LspRouter` |
| `BridgeThreads` | router: who waits for whom; locks, parts of frames, full pipes | state machine, liveness |
| `BridgeThreadsProofs` | | theorems about `BridgeThreads` |
| `BridgeLifecycle` | life of the bridges of one workspace, port file, client | state machine |
| `BridgeLifecycleProofs` | | theorems about `BridgeLifecycle` |
| `DapProxy` | DAP proxy and the part of the router that feeds it | state machine |
| `DapProxyProofs` | | theorems about `DapProxy`, and about `FrameReader`, through which a connection reads its adapter |
| `FrameReader` | framing and the loops around it | state machine over symbols |
| `FrameStream` | what a framed stream promises | abstract specification, implemented by `FrameReader` |
| `SourceCache` | library sources | state machine |
| `SourceDelivery` | what the library sources promise Zed | abstract specification, implemented by `SourceCache` |
| `SourceCacheProofs` | | theorems about `SourceCache` |
| `ExtensionInstall` | installation and consent | state machine |
| `ExtensionInstallProofs` | | theorems about `ExtensionInstall` |
| `LaunchConfig` | debug configuration | state machine |
| `LaunchConfigProofs` | | theorems about `LaunchConfig` |
| `ReleasePipeline` | release pipeline | state machine |
| `ReleasePipelineProofs` | | theorems about `ReleasePipeline` |
| `MC*` | | values of the constants for TLC |

`PROJECT.json` maps every definition to the lines it translates. A definition
whose comment names a *mutant* is followed or preceded by a variant with a
plausible mistake; each property is broken by one of them.

The router is modelled twice because one question makes the other's state
useless. `LspRouter` keeps ids, contents and the order of messages and takes a
write as one step; `BridgeThreads` keeps locks, parts and room and forgets what a
message says beyond where it leads. `BridgeThreads` shows what lets `LspRouter`
write whole frames (`FramesWhole`, `NoCircularWait`), as `FrameReader` shows what
lets it read them (`IsAFrameStream`).

### How state and steps correspond to the code

**`LspRouter`.** A pipe is a log and the index its reader has reached
(`toServer`/`srvRead`, and so on); a message is its sort, sender and id, and a
response also carries the place of the request it answers (`re`), which the
bridge cannot see and only properties read. A step is one critical section: the
guard on `pending` lives to the end of the `if let` body (`lsp.rs:60-79`), so
taking the entry, remembering the port and sending to the channel are one
step; a caller's timeout and its removal of the entry (`lsp.rs:41-42`) are two.
A full pipe blocks the writer (`PipeHasRoom`); a dead server breaks it.
`nextId` and `pending` are the fields of `Shared`, and the table replaces on
insert as a `HashMap` does. Zed acts while the bridge runs.

**`BridgeThreads`.** `owner` has one entry per mutex (`serverStdin`, `stdout`,
`pending`, `port`) and `pc` says where each thread is: the stdin thread, main,
the callers of the control endpoint, the DAP handlers that look for a port. A
frame is `FrameParts` parts, because `write_all` returns to a full pipe as often
as it has to; `left` counts those a thread still owes. A critical section in which
a thread neither blocks nor nests is one step that needs the lock free. `SrvRead`
and `ZedRead` take the parts out again, and `srvPart`, `zedPart` remember the part
they are in the middle of.

**`BridgeLifecycle`.** One generation per bridge started. `Launch` has the three
outcomes of `main`'s start: it serves, it exits because there is no server to start,
or it panics with the server already started (`main.rs:106-113`: the pipes and the
listener of the DAP proxy; after them, its threads), which goes on running. `fs::write` is two
steps, truncate and fill, and may fail at any; a file removed in between is
written to all the same but no longer found (`detached`). `lock` is the mutex
around the child, held by the main thread through `wait()`. `client` is the port a
call of the extension has read (`ReadPort`) and not yet used (`Call`), `reply` what
the last call got, an empty file (`corrupt`) included.

**`DapProxy`.** A session is its `start_debug_server` request, its adapter and
its connection; adapters are named after the session they were started for,
while every answer gives the same proxy port. The history variable `crossed`
remembers sessions that one cell cannot serve (see *Divergences*). A look at
`real_dap_port` and the test of the deadline are separate steps.

**`FrameReader`.** Symbols are header lines with and without a length, line
ends and body units; lengths count symbols. A body may read like a frame. The
writer sends a message whenever it likes (`Write`); it may add other header lines
before or after the length, or send a header without one. A read takes any part of
what was sent (`Push`), and `next_frame` is called until it finds nothing
(`NextFrame`, `NoFrame`). The history variable `ends` remembers where in the stream
each message ends; the code never sees it. Its names differ from those of
`DapProxy`, because one module proves theorems about both. In `FrameStream` a `Read` makes bodies arrive whole and is possible
only when everything that has arrived was delivered.

**`SourceCache`.** Whether an archive is there and holds the entry is a fact of
the machine (`present`); a target is a path below `<workdir>/sources`. `disk`
tells absent, partial and full; every bridge has its own memory. `Unix` says
whether absolute paths begin with a slash. History variables remember failed or
killed writes (`cut`) and messages lost with a killed bridge (`lost`).
`SourceDelivery` knows archives, files and messages and nothing of memories,
lookups and writes.

**`ExtensionInstall`.** Release, pinned server and bridge version are one
number. A call of the extension is a sequence of steps, and Zed may quit between
any two; a download is over only when its file has been made executable.
`interrupted` remembers that a download failed or died with Zed.

**`LaunchConfig`.** A field of the configuration holds where its value comes
from. Environment, build files and every answer of the server are chosen
freely. `adapters` collects what was started, by which step and in whose server;
`start_debug_server` fails before one was started (`NotStarted`), after the bridge
had given up on a server that does start one (`StartedLate`), or not at all.

**`ReleasePipeline`.** A tree is the server it pins, its version, its sources as
a number and the committed wasm; `main` is the log of its commits. A job is a run
of `auto-update.yml` with its own checkout, which may fail at every step;
A commit that fails does not end it (`auto-update.yml:86`): `JobPushNothing` leaves
HEAD where the job found it and goes on to the tag, and the history variable `unmade`
remembers the job. `MaintainerPin` is the update by hand of the README. `Publish` is
`release.yml`, `MaintainerPublish` a release made by a person. What is pushed with a
workflow's own token starts no other workflow.

## Runs

| Run | Distinct states | Shows |
|---|---|---|
| `router` | 1.93 M | two racing callers, traffic of Zed and of the server, the timer and the death of the server: correlation, an exact table, strays only after a timeout, the port before the answer, every request settled once, and refinement of `ControlContract` |
| `threads` | 313 k | every thread with its locks, pipes with room for one part, peers that stop reading: no circular wait, whole frames; calls end, main drains the server, Zed's end of stream gets through |
| `lifecycle` | 622 k | two generations and a client, kills, panics at the start, failing publications and closed streams at any step |
| `lifecycle_port_lost` | violated | with overlapping bridges the successor's port file is removed |
| `dap` | 244 k | two sessions in any order, early clients, the deadline, either end closing |
| `frame` | 83 k | every stream of up to three messages, cut in every way; refinement of `FrameStream` |
| `cache` | 272 k | two bridges, one directory, failing writes, kills; refinement of `SourceDelivery` |
| `cache_unix` | violated | on Unix no source is extracted |
| `install` | 3.7 M | two worktrees, changing settings, an upgrade, downloads that stop anywhere |
| `install_server_path` | violated | a cached download wins over `server_path` |
| `launch` | 82 k | three ways into a session, all mixes of what user, server and machine provide, and the adapters they start |
| `release` | 1.19 M | two update jobs, a maintainer and new servers at once, failures at any step, a failed commit that is not noticed |

### Properties

*Router.* `Correlation`, `PendingIsExact`, `StrayOnlyAfterTimeout`,
`PortBeforeAnswer`, `SettledOnce`, `ContractHolds`.
*Threads.* `NoCircularWait`, `FramesWhole`; `CallsEnd`, `MainDrains`,
`EofReachesServer`.
*Life of a bridge.* `PortFileSound` (no older bridge is ever named, the newest is
found, an empty file is the newest's), `OneServerPerWorkspace`; `SessionEnds`
(`EofEndsSession` and `DeadServerEndsBridge`); `PublishedIsFindable`, violated with
overlapping bridges.
*DAP.* `OwnAdapter`, `StreamsInOrder`; `FramesDelivered`, `BothClosedReleases`.
*Framing.* `IsAFrameStream`.
*Sources.* `TornIsBeingWritten`, `DeliversSources`; `SourcesOpen`, violated on Unix.
*Installation.* `NothingWithoutConsent`, `RunsCurrentAndWhole`,
`HashIsOfTheServer`; `ServerPathWins`, violated.
*Configuration.* `UserWins`, `ServerJavaFirst`, `OwnWorktree`,
`NoAdapterStranded`.
*Releases.* `TagsAreOnMain`, `VersionPinsOneServer`, `ReleasePinsItsServer`.
Every state machine has one `TypeOK` (`FrameTypeOK` in `FrameReader`). All the
invariants that hold are also proved, and so are `ContractHolds` and the safety
halves of `DeliversSources` and `IsAFrameStream`.

### Bounds, and why they are enough

| Bound | Value | Why |
|---|---|---|
| `Callers` (router) | 2 | a wrong delivery needs two; callers are interchangeable (symmetry, used only with safety and the refinement, which treats them alike); the theorems cover any number |
| `MaxZed`, `MaxSrv`, `MaxTraffic` (router) | 1, 1, 3 | one message of either side collides with a caller's, holds a pipe, or is settled twice; three messages in all leave room for both callers and one of them |
| `Ports` | 70000 | the one that does not fit `u16`: what is remembered is told from what was reported |
| `PipeCap` (router, threads) | 1 | a full pipe must be reachable; with room for more, fewer steps block |
| `FrameParts` | 2 | a frame that can be stopped in the middle |
| `Callers`, `Handlers`, `MaxZed`, `MaxSrv`, `OutCap` (threads) | 1, 1, 2, 2, 1 | with the stdin thread and main, three writers of one pipe; a message behind the one that blocks; the theorems cover any number |
| `MaxGen` | 2 | what is shared is one file and one successor; a third generation only repeats it, and the theorems cover any number |
| `Sessions`, `Talkers`, `MaxTraffic` (DAP) | 2, 1, 2 | overtaking needs two sessions; frames kept back and chunk joins need two messages; connections do not share streams, so one that talks is enough |
| `MaxMessages` (framing) | 3 | a bad header between two good frames, and a frame cut while two wait; the theorems cover any number, and any bodies |
| `Bridges`, `MaxMessages` (sources) | 2, 3 | two writers of one file; a message that meets what an earlier one left, in another process |
| `Worktrees`, `MaxRelease` | 2, 2 | one worktree's cache seen by another; one upgrade |
| `Jobs`, `MaxPin`, `MaxMain` | 2, 3, 3 | two jobs with different servers in hand, behind a commit of a person; the theorems cover any number |

Runs that stop when their bounds are used up say `CHECK_DEADLOCK FALSE`: the
bridges really exit, and an idle bridge waits for its environment.

### Fairness

Weak fairness of each thread of a bridge (`Stdin`, `Main`, every caller after it
was accepted, handler, forwarder, HTTP thread): the operating system schedules
threads, and the timer of `recv_timeout` and the deadline of the poll are steps
of time passing. Zed, HTTP clients, adapters and the death of a server get none. In
`BridgeLifecycle` the stdin thread's write is no fair step: it fails when Zed sends
something, and Zed need not, so a bridge whose server has ended must go without it
(`DeadServerEndsBridge`).

In `BridgeThreads` a step that takes a lock is enabled only while the lock is
free, and weak fairness of the thread is enough all the same: traffic is bounded,
so nobody takes a lock for ever, and a mutex of the operating system does not
starve a waiter that long. Two demands are made on the environment: `WF(SrvRead)`
and `WF(ZedRead)`, that a live server and a live Zed go on reading what they are
written. Without the first `CallsEnd` is false, because `REQUEST_TIMEOUT` does
not cover the write (`lsp.rs:31`); the second keeps `MainDrains` from waiting on a
Zed that is there and does not read.

`FrameReader` states weak fairness of the loop that reads, and none of whoever writes.
`SourceCache` states weak fairness of each bridge, from which it implements that of
`Deliver` in `SourceDelivery`. `LspRouter` is checked for safety only; its liveness
is that of `BridgeThreads`.

## Proofs

**Message router.** `LspRouterProofs` proves, for any set of callers, any ports and
any bounds that satisfy `RouterAssumption`:

* `TypeCorrect`: `Spec => []TypeOK`. It includes that the remembered port
  fits sixteen bits for a result of any size.
* `AnswersCorrelate`: `Spec => []Correlation`.
* `PendingStaysExact`: `Spec => []PendingIsExact`.
* `StraysAreLate`, `PortComesFirst`, `RequestsSettledOnce`: `Spec =>` always
  `StrayOnlyAfterTimeout`, `PortBeforeAnswer`, `SettledOnce`.
* `RouterImplementsContract`: `Spec => ContractHolds`; and, as its consequence,
  `CallsCloseOnce`: `Spec => ClosedForGood`, a call that was closed stays closed with
  what its caller was told.

`RouterAssumption` says that the bounds are naturals, that ids of the bridge
start above those of Zed and of the server (which the code takes for granted,
`main.rs:39-41`), that the markers for "no result" are no numbers, and that no
caller is called `"zed"` or `"bridge"`.

Neither `Correlation` nor `PendingIsExact` is inductive. A response carries an id,
`Correlation` speaks of the caller behind it, and nothing in the property ties
the two. The invariant `IInv` adds: ids given to callers are distinct, at least
`IdBase` and below `nextId` (`IdsApart`); ids of Zed's messages are below
`IdBase` (`ZedIds`); a request of a caller in `toServer` has that caller's id
and was written by it (`RequestIds`); a response has the id of the request it
answers, everything else the server writes has an id below `IdBase`
(`ResponseIds`); every entry of the table is a live caller's and a waiting
caller has an entry or a message (`Registered`); and what lies in a channel or
was replied is the caller's own response (`Truthful`). `HitIsOwn` is the heart:
a message of the server that hits an entry is the response to the request of
the caller in it. Then each of the steps of `Next` keeps `IInv`, one lemma per
thread and one step per action.

The other properties say that something happens once, or not before something else. `JInv` adds to `IInv`
how often each message of a stream has been taken over into the next (`Streams`:
Zed's requests are written to the server once, the server's reach Zed or are
acknowledged once, a request is answered once and not before it was read), and how a
call ended (`CallsSettled`: a call that was rejected or whose write failed has no
request at the server, one that was aborted saw the bridge end). That a stray
response is late follows from the two: its caller has no entry any more, and of the
ways to lose it only the timeout leaves a request that is answered later. `JInv` is
also what the refinement needs: under it each step of the router is one of
`ControlContract` or leaves alone what an HTTP caller observes.

**Threads.** `BridgeThreadsProofs` proves, for any number of callers and handlers,
frames of any number of parts and pipes of any room, under `ThreadsAssumption`
(the bounds are numbers, and names of threads are not used twice):

* `TypeCorrect`: `Spec => []TypeOK`. A thread in the middle of a frame has parts
  left (`Writing`), and main resolves calls only (`Resolving`).
* `NeverACircularWait`: `Spec => []NoCircularWait`. The invariant `Held` says that
  where a thread is tells which lock it holds. The rest is the order of the locks:
  who has `server_stdin` wants at most the table, who has the table at most the
  port, who has stdout nothing, and nobody stays anywhere with the port.
* `FramesStayWhole`: `Spec => []FramesWhole`. `FrameInv` relates the end of a pipe
  to the part its writer is about to put in; `Held` gives that there is one writer.

**Life of the bridges.** `BridgeLifecycleProofs` proves, for any number of
generations, under `LifecycleAssumption` (the bound is a natural, the two markers
for a file without a port are no generations):

* `TypeCorrect`: `Spec => []TypeOK`. A launch starts generation `last + 1`, so
  the invariant adds that a pending launch has room for it (`Room`).
* `PortFileStaysSound`: `Spec => []PortFileSound`, where Zed waits for the process
  it stops (`Overlap = FALSE`); without that it is false (`lifecycle_port_lost`).
* `OneServerAtATime`: `Spec => []OneServerPerWorkspace`, where `Overlap = FALSE`.

The parts of `PortFileSound` need each other and three facts about the bridges
(`FileInv`): a generation that is not born has done nothing (`Unborn`); only the
newest is alive, and none while a launch is pending (`OneAtATime`), which is where
Zed's waiting is used; and nobody removes the file under a bridge in its serving
loop (`FileAttached`). The removal in `language_server_command` is what leaves
nothing to be found until the new bridge publishes; that calls of the extension
run one at a time is what keeps a port already read from outliving it.

`OneServerPerWorkspace` compares two bridges, of which nothing says that the first
has ended in order. `LeftBehind` does: a server that runs is that of a bridge that has
been started and is alive, was killed or panicked. With `OneAtATime` of `FileInv` only
the newest is alive, so the earlier of two servers was left behind by one of the two.

**Release pipeline.** `ReleasePipelineProofs` proves, for any number of jobs, servers and
commits, under `ReleaseAssumption` (there may be a server and a commit):

* `TypeCorrect`, `TagsStayOnMain`, `VersionsPinOneServer` and
  `ReleasesPinTheirServer`: `Spec =>` always `TypeOK`, `TagsAreOnMain`,
  `VersionPinsOneServer`, `ReleasePinsItsServer`.

The invariant `RInv` says that along `main` versions and sources never go back,
grow by one at most with a commit, and that equal versions have equal pins
(`Line`); and that a job which has not pushed has the tree of the commit it started
on, but for the pin and the raised version, and one that has pushed has a commit of
`main`: the one it made, or the one it found if it is in `unmade` (`JobTrees`). What
`release.yml` is started on was tagged by a person and is of its version
(`QueuedTagged`), and what it released was built from such a commit (`Released`):
that no job's tag starts it is what keeps a wrongly tagged commit from being
released. The refused push of a branch that has moved is what keeps
`Line`: the commit a job adds goes on from the one it started on.

**DAP proxy.** `DapProxyProofs` proves, for any sessions and traffic of any length, under
`DapAssumption` (`None` is no session, the bound is a natural):

* `TypeCorrect`: `Spec => []TypeOK`. Taking a frame from those held is typed only
  because a handler that forwards holds one.
* `SessionsReachTheirAdapter`: `Spec => []OwnAdapter`. The property is about the
  adapter a handler has chosen; `CellIsOwn` says what holds before: while a session
  that was started and not crossed waits, the cell has its own port.
* `StreamsKeepTheirOrder`: `Spec => []StreamsInOrder`. The frames of an adapter are
  numbered; what Zed was sent is the first of them, and while it listens, what is
  held comes next and ends where the reads have come to (`Down`). Once Zed has left,
  frames are dropped and that relation is given up, but then nothing is sent. The
  other way, all that was read has been written as long as the adapter runs (`Up`),
  and an adapter that has ended is not started again (`PortsOfStarted`). A step of
  one connection leaves the streams of the others alone (`OnlyOne`).

**Framing.** `DapProxyProofs` also proves, for any bodies, any number of messages, any
mix of headers and any way the stream is cut into reads, under `FramingAssumption`
(a body is a sequence of symbols, the bound is a natural):

* `FramesTypeCorrect`: `FrameSpec => []FrameTypeOK`.
* `FramesArriveInOrder`: `FrameSpec => Messages!SafeSpec`, the refinement of
  `FrameStream` without its fairness.

The reader finds its place by counting symbols, and nothing in its buffer marks where
a message begins. So the invariant `FrameInv` compares it with the stream: the messages
sent lie one behind the other, up to the first header that cannot be read (`Laid`);
what the reader holds begins where the last message it delivered ends, and when it
goes back to read, the next one has not arrived (`InStep`); and every place of the
stream has a number of messages before it (`Counted`), which is what the abstract
`arrived` stands for. `FoundIs` is the heart: a buffer that begins like a message
yields that message when all of it is there and its header can be read, and nothing
otherwise, whatever its body looks like, because no terminator begins inside a header
and the first line with a length is the writer's. No induction over the stream is
needed, as the stream grows by one message in a step and `ends` keeps its place.

**Library sources.** `SourceCacheProofs` proves, for any bridges, URIs, archives and
targets, under `CacheAssumption` (each URI has a scheme and a target):

* `TypeCorrect`, `TornFilesAreExplained`: `Spec =>` always `TypeOK`,
  `TornIsBeingWritten`.
* `SourcesOpenElsewhere`: `Spec => []SourcesOpen` where `Unix = FALSE`; with
  `Unix = TRUE` it is false (`cache_unix`).
* `CacheDeliversSources`: `Spec => Delivery!SafeSpec` where `Unix = FALSE`, the
  refinement of `SourceDelivery` without its fairness. On Unix no archive is found
  and nothing is delivered, so the run `cache` leaves Unix out as well.
* `LinksStayGood`: `Spec => []LinksResolve`, on any machine: what Zed was told to open
  is a file of an archive, and stays one.

The invariant follows a bridge through its message: what it is about to extract can
be parsed (`Placed`), what it remembers or has replaced has a file (`Known`), and
of what is behind it nothing was left out that could have been extracted (`Done`).

**Installation.** `ExtensionInstallProofs` proves, for any worktrees and number of
releases, under `InstallAssumption` (there is a release; the markers for "none" and
for the user's server are no numbers):

* `TypeCorrect`, `NothingRunsWithoutConsent`, `LaunchesCurrentAndWhole`,
  `HashesItsAgreement`: `Spec =>` always `TypeOK`, `NothingWithoutConsent`,
  `RunsCurrentAndWhole`, `HashIsOfTheServer`.

A command is what the caches were when it was launched, so the invariant ties the
caches and the step of the call to the disk and the running release
(`CachesAreCurrent`), says where a torn file can come from when no download was
interrupted (`TornIsDownloading`), and that a downloaded server that a worktree runs
stays the cached one (`Fits`).

**Debug configuration.** `LaunchConfigProofs` proves, for any worktrees, under
`LaunchAssumption` (no worktree has the name of one of the other origins):

* `TypeCorrect`, `UserAlwaysWins`, `ServerJavaIsFirst`, `StaysInItsWorktree`,
  `AdaptersAreUsed`: `Spec =>` always `TypeOK`, `UserWins`, `ServerJavaFirst`,
  `OwnWorktree`, `NoAdapterStranded`.

The properties speak of the end of a session. The invariant says what must hold at
each step for that: what the user gave is untouched (`UserKept`), a local `java` comes
in at the last step and for a reason (`LocalJavaLast`), nothing came from another
worktree (`OwnTree`), and no adapter of `get_dap_binary` is there before it asked for
one, after which the text is known to be JSON (`AdapterUsed`).

**Only model-checked.** The liveness properties (`CallsEnd`, `MainDrains`,
`EofReachesServer`, `SessionEnds`, `FramesDelivered`, `BothClosedReleases`) and the fairness of `SourceDelivery` and `FrameStream`: fairness and `ENABLED` are out of reach
of the prover.

## Divergences

Between code and the claims of its comments and documents, each with a run:

* `lifecycle_port_lost`: `http.rs:18` publishes the port so that the extension
  can find it; `cleanup_port_file` of a bridge that ends late removes the file of
  its successor. It needs two bridges of one name: Zed starts the next before the
  old one is gone, or a single-file worktree is open beside its directory, which
  `lib.rs:449-467` gives the same key.
* `cache_unix`: `README.md:35` promises library sources; `jars.rs:27` strips the
  slash of a Unix path with the prefix.
* `install_server_path`: `lib.rs:750` says `server_path` always wins over a
  cached download; the cached path is returned before it is looked at.

Seen while modelling, and visible as exemptions in the properties or choices of
the models:

* A response to a call that timed out is forwarded to Zed, who did not ask, by the
  branch `lsp.rs:98` keeps for "a response meant for Zed" (`StrayOnlyAfterTimeout`).
* A server that never reads its stdin blocks callers beyond any timeout
  (`WF(SrvRead)` in `BridgeThreads`).
* A server that closes its stdout and lives on cannot be killed any more, although
  `main.rs:148-150` takes Zed's EOF for the signal to do so: main waits for it with
  the lock. One that closes its stdin makes the stdin thread return, after which Zed's
  EOF is not seen (`ClosedAStream`).
* `README.md:47-48` has the JVM end with its bridge. A `Child` that is dropped is not
  killed, and a bridge that panics at `main.rs:106-113` leaves it running
  (`OneServerPerWorkspace` exempts it).
* A bridge that publishes after its main thread has cleaned up leaves a port
  file; `PortFileSound` shows that it lasts until the next start at most.
* A connection may reach the adapter of another session, when two are started
  before the handler of the first reads the port, or when a client comes early
  (`crossed`).
* A file whose write failed or was killed is handed out for good: `is_file` is all
  that is asked (`cut`). A `jrt:` URI is never replaced, although `README.md:580`
  says both are, through a request to the server the code does not make.
* A server download that failed leaves its directory behind: the next start skips
  the download, finds no launcher, and says so at every start. A torn server or
  bridge, or one that was never made executable, is taken for a whole one
  (`interrupted`).
* The modal takes the JDK of `$JAVA_HOME` before the server is asked
  (`ServerJavaFirst` exempts it), and scenarios of the modal and the gutter are
  made for the worktree whose server was started last (`strayed`).
* The modal starts a debug server for its scenario, and `get_dap_binary` another
  when the scenario is launched: the first is never connected to. A text that is no
  JSON, a request that is neither launch nor attach, and an answer after the timeout
  leave an adapter too (`NoAdapterStranded`).
* The committed `extension.wasm` of an automatic update is built before the version
  is bumped and says it is the version before, although `README.md:501` has CI verify
  that it is in sync; `ci.yml:35-43` warns and goes on. The release's own wasm is
  built from the tag and is right (`ReleasePinsItsServer`).
* The tag of `auto-update.yml` is pushed with the token of the workflow, whose
  events start no other one: it has no release until a person makes one; a release
  made by `release.yml` does not start `build-bridge.yml` either, for the same
  reason.
* `auto-update.yml:86` swallows a failed commit, and lines 88-89 tag the commit before
  the update as the new version (`TagsAreOnMain` allows it to such a job alone).
* `build-bridge.yml`, started by hand, builds the ref it is started on and attaches the
  result to whatever version is typed in: older bridges can replace newer ones.
* A job that stops between its push of `main` and that of the tag is not healed by
  the next: the pin is then current, and there is nothing to do.
* `README.md:432-445` has `auto-update.yml` propagate the version to Zed's registry;
  the workflow has no such step. `bump-version.py` does not raise
  `bridge/Cargo.toml`.

## Not modelled

Logging and the stderr thread; `build-bridge.yml`, which builds any ref for any version,
so that nothing can be said of the bridges of a release; the contents of messages beyond what routing looks at; percent decoding and the tail
match of archive entries, and archives that are rebuilt under the same path; the
overrides of `server_version`, `download_url` and `eula_hash`; settings, labels and
environment variables (pure, no state); language queries, tasks and schemas (data);
`monitor.yml`, which reports and changes nothing.

## Plan

Every invariant the runs check is proved, and so are the safety halves of the three
refinements. What is left is out of the prover's reach (liveness, see *Only
model-checked*) or widens the models:

1. The tail match of archive entries and archives that are rebuilt under the same
   path (`jars.rs`), and with them whether a file already extracted is stale.
2. The overrides of `server_version`, `download_url` and `eula_hash` in
   `ExtensionInstall`.
