------------------------- MODULE BridgeThreadsProofs -------------------------
(***************************************************************************)
(* Theorems about BridgeThreads for any callers and handlers, frames of    *)
(* any length and pipes of any room.                                       *)
(***************************************************************************)
EXTENDS BridgeThreads, TLAPS

USE DEF pipes, peers

Places == {"read", "idle", "wantServer", "toServer", "wantZed", "toZed", "dropEntry",
           "wait", "expired", "lookUp", "remember", "resolve", "look", "done"}

-----------------------------------------------------------------------------
(* Type correctness.                                                       *)

(* The three parts of the type, each disturbed by other steps; a thread in *)
(* the middle of a frame has parts of it left.                             *)
Writing == \A t \in Threads : pc[t] \in {"toServer", "toZed"} => left[t] # 0

ThreadType ==
    /\ owner \in [Locks -> Threads \cup {NoOne}]
    /\ pc \in [Threads -> Places]
    /\ left \in [Threads -> 0..FrameParts]
    /\ Writing
PipeType ==
    /\ fromZed \in Seq({"inlay", "message"})
    /\ toServer \in Seq(Parts) /\ Len(toServer) <= PipeCap
    /\ toZed \in Seq(Parts) /\ Len(toZed) <= PipeCap
    /\ toBridge \in Seq(Callers \cup {"ask", "notice"}) /\ Len(toBridge) <= OutCap
    /\ srvPart \in Parts \cup {NoPart} /\ zedPart \in Parts \cup {NoPart}
StateType ==
    /\ pending \subseteq Callers /\ mailbox \subseteq Callers /\ asked \subseteq Callers
    /\ port \in BOOLEAN
    /\ current \in Callers \cup {"ask", "notice"}
    /\ zedSent \in 0..MaxZed /\ srvSent \in 0..MaxSrv
    /\ zedClosed \in BOOLEAN /\ srvUp \in BOOLEAN /\ bridgeUp \in BOOLEAN

(* Main resolves a call and nothing else.                                  *)
Resolving == pc["main"] \in {"remember", "resolve"} => current \in Callers

TypeInv == ThreadType /\ PipeType /\ StateType /\ Resolving

LEMMA TypeParts == TypeInv => TypeOK
BY DEF TypeInv, ThreadType, PipeType, StateType, TypeOK, Places

LEMMA PartType ==
    ASSUME ThreadType, NEW t \in Threads, pc[t] \in {"toServer", "toZed"}
    PROVE  Part(t) \in Parts /\ left[t] \in 1..FrameParts /\ left[t] - 1 \in 0..FrameParts
BY ThreadsAssumption DEF ThreadType, Writing, Part, Parts

(* What the steps of the threads are made of.                              *)
LEMMA GuardsType ==
    ASSUME ThreadType, NEW t \in Threads, NEW l \in Locks,
           Take(l, t) \/ DropGuards(t) \/ owner' = owner
    PROVE  owner' \in [Locks -> Threads \cup {NoOne}]
BY DEF ThreadType, Take, DropGuards

LEMMA MoveType ==
    ASSUME ThreadType, NEW t \in Threads, NEW place \in Places \ {"toServer", "toZed"},
           GoTo(t, place), left' \in {left, [left EXCEPT ![t] = 0]},
           owner' \in [Locks -> Threads \cup {NoOne}]
    PROVE  ThreadType'
<1> USE ThreadsAssumption DEF ThreadType, GoTo
<1>1. pc' \in [Threads -> Places] BY Zenon
<1>2. left' \in [Threads -> 0..FrameParts] OBVIOUS
<1>3. Writing' BY DEF Writing
<1> QED BY <1>1, <1>2, <1>3

LEMMA StartType ==
    ASSUME ThreadType, NEW t \in Threads, NEW place \in {"toServer", "toZed"},
           GoTo(t, place), StartFrame(t), owner' \in [Locks -> Threads \cup {NoOne}]
    PROVE  ThreadType'
<1> USE ThreadsAssumption DEF ThreadType, GoTo, StartFrame
<1>1. pc' \in [Threads -> Places] BY DEF Places
<1>2. left' \in [Threads -> 0..FrameParts] OBVIOUS
<1>3. Writing' BY DEF Writing
<1> QED BY <1>1, <1>2, <1>3

LEMMA WrittenType ==
    ASSUME ThreadType, NEW t \in Threads, pc[t] \in {"toServer", "toZed"},
           NEW next \in {"read", "wait"}, PartWritten(t, next)
    PROVE  ThreadType'
<1> USE ThreadsAssumption DEF ThreadType
<1>1. left[t] \in 1..FrameParts /\ left[t] - 1 \in 0..FrameParts BY PartType
<1>2. left' = [left EXCEPT ![t] = left[t] - 1] BY DEF PartWritten
<1>3. left' \in [Threads -> 0..FrameParts] BY <1>1, <1>2
<1>4. CASE left[t] = 1
  <2>1. pc' = [pc EXCEPT ![t] = next] /\ DropGuards(t) BY <1>4 DEF PartWritten, GoTo
  <2>2. owner' \in [Locks -> Threads \cup {NoOne}] BY <2>1 DEF DropGuards
  <2>3. pc' \in [Threads -> Places] BY <2>1 DEF Places
  <2>4. Writing' BY <2>1, <1>2 DEF Writing
  <2> QED BY <1>3, <2>2, <2>3, <2>4
<1>5. CASE left[t] # 1
  <2>1. pc' = pc /\ owner' = owner BY <1>5 DEF PartWritten
  <2>2. Writing' BY <2>1, <1>1, <1>2, <1>5 DEF Writing
  <2> QED BY <1>3, <2>1, <2>2
<1> QED BY <1>4, <1>5

LEMMA InitType == Init => TypeInv
<1> SUFFICES ASSUME Init PROVE TypeInv OBVIOUS
<1> USE ThreadsAssumption
<1>1. owner \in [Locks -> Threads \cup {NoOne}] BY DEF Init
<1>2. /\ \A t \in Threads : pc[t] \in Places \ {"toServer", "toZed"}
      /\ pc \in [Threads -> Places]
  BY DEF Init, Places
<1>3. left \in [Threads -> 0..FrameParts] BY DEF Init
<1>4. ThreadType BY <1>1, <1>2, <1>3 DEF ThreadType, Writing
<1>5. PipeType BY DEF Init, PipeType
<1>6. StateType
  <2>1. port \in BOOLEAN /\ zedClosed \in BOOLEAN /\ srvUp \in BOOLEAN /\ bridgeUp \in BOOLEAN
    BY Zenon DEF Init
  <2>2. zedSent \in 0..MaxZed /\ srvSent \in 0..MaxSrv BY DEF Init
  <2> QED BY <2>1, <2>2 DEF Init, StateType
<1>7. Resolving BY <1>2 DEF Resolving, Init, Threads
<1> QED BY <1>4, <1>5, <1>6, <1>7 DEF TypeInv

Typed == ThreadType /\ PipeType /\ StateType

LEMMA WriterType == ASSUME TypeInv, NEW t \in Threads, Writer(t) PROVE Typed'
<1> USE DEF Typed
<1>1. CASE TakeServerStdin(t) \/ TakeStdout(t)
  <2>1. ThreadType'
    BY <1>1, StartType, GuardsType DEF TypeInv, TakeServerStdin, TakeStdout, Locks
  <2> QED BY <1>1, <2>1
          DEF TypeInv, PipeType, StateType, TakeServerStdin, TakeStdout
<1>2. CASE WriteServer(t)
  <2>1. Part(t) \in Parts BY <1>2, PartType DEF TypeInv, WriteServer
  <2>2. toServer' \in Seq(Parts) /\ Len(toServer') <= PipeCap
    BY <1>2, <2>1, ThreadsAssumption DEF TypeInv, PipeType, WriteServer, HasRoom
  <2>3. ThreadType'
    BY <1>2, WrittenType DEF TypeInv, WriteServer, AfterServer
  <2> QED BY <1>2, <2>2, <2>3 DEF TypeInv, PipeType, StateType, WriteServer
<1>3. CASE WriteZed(t)
  <2>1. Part(t) \in Parts BY <1>3, PartType DEF TypeInv, WriteZed
  <2>2. toZed' \in Seq(Parts) /\ Len(toZed') <= PipeCap
    BY <1>3, <2>1, ThreadsAssumption DEF TypeInv, PipeType, WriteZed, HasRoom
  <2>3. ThreadType' BY <1>3, WrittenType DEF TypeInv, WriteZed
  <2> QED BY <1>3, <2>2, <2>3 DEF TypeInv, PipeType, StateType, WriteZed
<1>4. CASE BrokenServer(t) \/ BrokenZed(t)
  <2>1. PICK place \in {"dropEntry", "done", "read"} : GoTo(t, place)
    BY <1>4 DEF BrokenServer, BrokenZed
  <2>2. left' = [left EXCEPT ![t] = 0] BY <1>4 DEF BrokenServer, BrokenZed
  <2>3. owner' \in [Locks -> Threads \cup {NoOne}]
    BY <1>4 DEF TypeInv, ThreadType, BrokenServer, BrokenZed, DropGuards
  <2>4. ThreadType' BY <2>1, <2>2, <2>3, MoveType DEF TypeInv, Places
  <2> QED BY <1>4, <2>4 DEF TypeInv, PipeType, StateType, BrokenServer, BrokenZed
<1> QED BY <1>1, <1>2, <1>3, <1>4 DEF Writer

LEMMA StdinType == ASSUME TypeInv, StdinRead \/ StdinEof PROVE Typed'
<1> USE DEF Typed
<1>1. PICK place \in {"wantZed", "wantServer", "done"} : GoTo("stdin", place)
  BY DEF StdinRead, StdinEof
<1>2. UNCHANGED <<owner, left>> BY DEF StdinRead, StdinEof
<1>3. ThreadType' BY <1>1, <1>2, MoveType DEF TypeInv, ThreadType, Threads, Places
<1>4. PipeType'
  <2>1. CASE StdinRead BY <2>1 DEF TypeInv, PipeType, StdinRead
  <2>2. CASE StdinEof BY <2>2, ThreadsAssumption DEF TypeInv, PipeType, StdinEof, ServerGone
  <2> QED BY <2>1, <2>2
<1>5. StateType' BY DEF TypeInv, StateType, StdinRead, StdinEof, ServerGone
<1> QED BY <1>3, <1>4, <1>5 DEF TypeInv

LEMMA CallerType == ASSUME TypeInv, NEW c \in Callers, Caller(c) PROVE Typed'
<1> USE DEF Typed
<1> USE DEF TypeInv
<1>1. c \in Threads BY DEF Threads
<1>2. CASE Register(c) \/ DropEntry(c) \/ Receive(c) \/ Timeout(c) \/ Expire(c)
  <2>1. PICK place \in {"wantServer", "done", "expired"} : GoTo(c, place)
    BY <1>2 DEF Register, DropEntry, Receive, Timeout, Expire
  <2>2. left' = left BY <1>2 DEF Register, DropEntry, Receive, Timeout, Expire
  <2>3. owner' \in [Locks -> Threads \cup {NoOne}]
    BY <1>2 DEF ThreadType, Register, DropEntry, Receive, Timeout, Expire, DropGuards
  <2>4. ThreadType' BY <1>1, <2>1, <2>2, <2>3, MoveType DEF Places
  <2>5. PipeType' BY <1>2 DEF PipeType, Register, DropEntry, Receive, Timeout, Expire
  <2>6. StateType' BY <1>2 DEF StateType, Register, DropEntry, Receive, Timeout, Expire
  <2> QED BY <2>4, <2>5, <2>6
<1>3. CASE Writer(c) BY <1>1, <1>3, WriterType
<1> QED BY <1>2, <1>3 DEF Caller

LEMMA HandlerType == ASSUME TypeInv, NEW h \in Handlers, Handler(h) PROVE Typed'
<1> USE DEF Typed
<1> USE DEF TypeInv, Handler, FindPort, GiveUp
<1>1. h \in Threads BY DEF Threads
<1>2. ThreadType' BY <1>1, MoveType DEF ThreadType, Places
<1>3. PipeType' /\ StateType' BY DEF PipeType, StateType
<1> QED BY <1>2, <1>3

(* An entry is a caller's, and no caller is called "ask".                  *)
LEMMA NextPlace ==
    ASSUME TypeInv
    PROVE  /\ current \in pending => AfterLookUp = {"remember", "resolve"}
           /\ current \notin pending => AfterLookUp \subseteq {"wantServer", "wantZed"}
BY ThreadsAssumption DEF TypeInv, StateType, AfterLookUp

LEMMA MainType == ASSUME TypeInv, Main PROVE Typed'
<1> USE DEF Typed
<1> USE DEF TypeInv
<1>1. CASE MainRead \/ LookUp \/ Remember \/ Resolve
  <2>1. PICK place \in {"wantZed", "lookUp", "remember", "resolve", "wantServer", "read"} :
           GoTo("main", place)
    BY <1>1, NextPlace DEF MainRead, LookUp, Remember, Resolve
  <2>2. left' = left BY <1>1 DEF MainRead, LookUp, Remember, Resolve
  <2>3. owner' \in [Locks -> Threads \cup {NoOne}]
    BY <1>1 DEF ThreadType, MainRead, LookUp, Remember, Resolve, Take, DropGuards, Threads
  <2>4. ThreadType' BY <2>1, <2>2, <2>3, MoveType DEF Places, Threads
  <2>5. PipeType'
    <3>1. CASE MainRead
      BY <1>1, <3>1, ThreadsAssumption DEF PipeType, MainRead
    <3>2. CASE LookUp \/ Remember \/ Resolve
      BY <3>2 DEF PipeType, LookUp, Remember, Resolve
    <3> QED BY <1>1, <3>1, <3>2
  <2>6. StateType'
    <3>1. CASE MainRead BY <1>1, <3>1 DEF StateType, PipeType, MainRead
    <3>2. CASE LookUp \/ Remember \/ Resolve
      <4>1. current' \in {current, "notice"} /\ pending' \subseteq pending
        BY <3>2 DEF LookUp, Remember, Resolve, Take
      <4>2. mailbox' \subseteq Callers
        <5>1. CASE LookUp \/ Remember BY <5>1 DEF TypeInv, StateType, LookUp, Remember
        <5>2. CASE Resolve BY <5>2 DEF TypeInv, StateType, Resolving, Resolve
        <5> QED BY <3>2, <5>1, <5>2
      <4>3. port' \in BOOLEAN BY <3>2 DEF StateType, LookUp, Remember, Resolve
      <4> QED BY <3>2, <4>1, <4>2, <4>3 DEF StateType, LookUp, Remember, Resolve
    <3> QED BY <1>1, <3>1, <3>2
  <2> QED BY <2>4, <2>5, <2>6
<1>2. CASE MainExit
  BY <1>2 DEF MainExit, ThreadType, PipeType, StateType, Writing
<1>3. CASE Writer("main") BY <1>3, WriterType DEF Threads
<1> QED BY <1>1, <1>2, <1>3 DEF Main

LEMMA PeersType == ASSUME TypeInv, Zed \/ Server PROVE Typed'
<1> USE DEF Typed
<1> USE ThreadsAssumption DEF TypeInv
<1>1. ThreadType'
  BY DEF ThreadType, Writing, Zed, ZedSend, ZedClose, ZedRead, Server, SrvRead, SrvStop,
         SrvAnswer, SrvSend
<1>2. CASE Zed
  <2>1. ASSUME NEW m \in {"inlay", "message"}, ZedSend(m) PROVE PipeType' /\ StateType'
    BY <2>1 DEF ZedSend, PipeType, StateType
  <2>2. CASE ZedClose BY <2>2, <1>1 DEF ZedClose, PipeType, StateType
  <2>3. CASE ZedRead BY <2>3, <1>1 DEF ZedRead, Rest, PipeType, StateType
  <2> QED BY <1>1, <1>2, <2>1, <2>2, <2>3 DEF Zed
<1>3. CASE Server
  <2>1. CASE SrvRead BY <2>1, <1>1 DEF SrvRead, Rest, PipeType, StateType
  <2>2. CASE SrvStop
    <3>1. PipeType' BY <2>2 DEF SrvStop, ServerGone, PipeType
    <3>2. StateType' BY <2>2 DEF SrvStop, ServerGone, StateType
    <3> QED BY <1>1, <3>1, <3>2
  <2>3. ASSUME NEW c \in Callers, SrvAnswer(c) PROVE PipeType' /\ StateType'
    BY <2>3 DEF SrvAnswer, PipeType, StateType
  <2>4. ASSUME NEW m \in {"ask", "notice"}, SrvSend(m) PROVE PipeType' /\ StateType'
    BY <2>4 DEF SrvSend, PipeType, StateType
  <2> QED BY <1>1, <1>3, <2>1, <2>2, <2>3, <2>4 DEF Server
<1> QED BY <1>2, <1>3

(* Main is at an entry only after it has found one.                        *)
LEMMA KeepResolving ==
    ASSUME ThreadType, Resolving, UNCHANGED current,
           pc' = pc \/ \E t \in Threads, place \in Places \ {"remember", "resolve"} : GoTo(t, place)
    PROVE  Resolving'
BY DEF ThreadType, Resolving, GoTo, Threads

LEMMA StepResolving == ASSUME TypeInv, [Next]_vars PROVE Resolving'
<1> USE DEF TypeInv
<1>1. ASSUME NEW t \in Threads, Writer(t) PROVE Resolving'
  <2>1. UNCHANGED current
    BY <1>1 DEF Writer, TakeServerStdin, TakeStdout, WriteServer, WriteZed, BrokenServer,
                BrokenZed
  <2>2. \/ pc' = pc
        \/ \E place \in {"toServer", "toZed", "wait", "read", "dropEntry", "done"} :
              GoTo(t, place)
    BY <1>1 DEF Writer, TakeServerStdin, TakeStdout, WriteServer, WriteZed, BrokenServer,
                BrokenZed, PartWritten, AfterServer
  <2> QED BY <2>1, <2>2, KeepResolving DEF Places
<1>2. CASE UNCHANGED vars BY <1>2, KeepResolving DEF vars
<1>3. CASE Zed \/ Server
  BY <1>3, KeepResolving
     DEF Zed, ZedSend, ZedClose, ZedRead, Server, SrvRead, SrvStop, SrvAnswer, SrvSend
<1>4. CASE StdinRead \/ StdinEof
  BY <1>4, KeepResolving DEF StdinRead, StdinEof, Threads, Places
<1>5. ASSUME NEW c \in Callers, Caller(c) PROVE Resolving'
  <2>1. CASE Register(c) \/ DropEntry(c) \/ Receive(c) \/ Timeout(c) \/ Expire(c)
    BY <2>1, KeepResolving
       DEF Register, DropEntry, Receive, Timeout, Expire, Threads, Places
  <2> QED BY <1>1, <1>5, <2>1 DEF Caller, Threads
<1>6. ASSUME NEW h \in Handlers, Handler(h) PROVE Resolving'
  BY <1>6, KeepResolving DEF Handler, FindPort, GiveUp, Threads, Places
<1>7. CASE Main
  <2>1. CASE MainRead BY <2>1 DEF MainRead, GoTo, Resolving, ThreadType, Threads
  <2>2. CASE LookUp
    <3>1. CASE current \in pending
      BY <2>2, <3>1 DEF LookUp, Take, Resolving, StateType
    <3>2. CASE current \notin pending
      BY <2>2, <3>2, NextPlace DEF LookUp, GoTo, Resolving, ThreadType, Threads
    <3> QED BY <3>1, <3>2
  <2>3. CASE Remember BY <2>3 DEF Remember, Resolving
  <2>4. CASE Resolve BY <2>4 DEF Resolve, GoTo, Resolving, ThreadType, Threads
  <2>5. CASE MainExit BY <2>5, KeepResolving DEF MainExit
  <2> QED BY <1>1, <1>7, <2>1, <2>2, <2>3, <2>4, <2>5 DEF Main, Threads
<1> QED BY <1>1, <1>2, <1>3, <1>4, <1>5, <1>6, <1>7 DEF Next, Stdin, Threads

LEMMA StepType == TypeInv /\ [Next]_vars => TypeInv'
<1> SUFFICES ASSUME TypeInv, [Next]_vars PROVE TypeInv' OBVIOUS
<1>1. CASE UNCHANGED vars
  BY <1>1, StepResolving DEF TypeInv, ThreadType, PipeType, StateType, Writing, vars
<1>2. CASE Stdin
  BY <1>2, StdinType, WriterType, StepResolving DEF Stdin, Threads, Typed, TypeInv
<1>3. CASE Main BY <1>3, MainType, StepResolving DEF Typed, TypeInv
<1>4. CASE Zed \/ Server BY <1>4, PeersType, StepResolving DEF Typed, TypeInv
<1>5. ASSUME NEW c \in Callers, Caller(c) PROVE TypeInv'
  BY <1>5, CallerType, StepResolving DEF Typed, TypeInv
<1>6. ASSUME NEW h \in Handlers, Handler(h) PROVE TypeInv'
  BY <1>6, HandlerType, StepResolving DEF Typed, TypeInv
<1> QED BY <1>1, <1>2, <1>3, <1>4, <1>5, <1>6 DEF Next

(* Every variable keeps its type: no pipe ever holds more than it has room *)
(* for and no thread writes more parts than its frame has, for any number  *)
(* of callers and handlers (lsp.rs, http.rs, dap.rs, main.rs).             *)
THEOREM TypeCorrect == Spec => []TypeOK
<1>1. Spec => []TypeInv BY InitType, StepType, PTL DEF Spec
<1> QED BY <1>1, TypeParts, PTL

-----------------------------------------------------------------------------
(* No circular wait.                                                       *)

(* Where a thread is tells which lock it holds, at most one, and nobody    *)
(* stays anywhere with the lock on the port.                               *)
HeldAt == [l \in Locks |-> CASE l = "serverStdin" -> {"toServer", "dropEntry"}
                             [] l = "stdout"      -> {"toZed"}
                             [] l = "pending"     -> {"remember", "resolve"}
                             [] OTHER             -> {}]
Held == \A t \in Threads, l \in Locks : owner[l] = t <=> pc[t] \in HeldAt[l]
Bare(place) == \A l \in Locks : place \notin HeldAt[l]

LEMMA HeldOnce ==
    /\ HeldAt["serverStdin"] = {"toServer", "dropEntry"} /\ HeldAt["stdout"] = {"toZed"}
    /\ HeldAt["pending"] = {"remember", "resolve"} /\ HeldAt["port"] = {}
    /\ \A place \in {"read", "idle", "wantServer", "wantZed", "wait", "expired",
                      "lookUp", "look", "done"} : Bare(place)
    /\ \A l, k \in Locks : l # k => HeldAt[l] \cap HeldAt[k] = {}
BY DEF HeldAt, Locks, Bare

LEMMA TakeKeepsHeld ==
    ASSUME ThreadType, Held, NEW t \in Threads, NEW l \in Locks, NEW place \in HeldAt[l],
           Take(l, t), GoTo(t, place), Bare(pc[t])
    PROVE  Held'
<1> SUFFICES ASSUME NEW u \in Threads, NEW k \in Locks
             PROVE  owner'[k] = u <=> pc'[u] \in HeldAt[k]
  BY DEF Held
<1>1. /\ owner[l] = NoOne
      /\ owner'[k] = IF k = l THEN t ELSE owner[k]
      /\ pc'[u] = IF u = t THEN place ELSE pc[u]
  BY DEF ThreadType, Take, Free, GoTo
<1>2. owner[k] = u <=> pc[u] \in HeldAt[k] BY DEF Held
<1>3. CASE u = t
  <2>1. owner[k] # t BY <1>2, <1>3 DEF Bare
  <2>2. place \in HeldAt[k] <=> k = l BY HeldOnce
  <2> QED BY <1>1, <1>3, <2>1, <2>2
<1>4. CASE u # t
  <2>1. k = l => pc[u] \notin HeldAt[k]
    BY <1>1, <1>2, ThreadsAssumption DEF Threads
  <2> QED BY <1>1, <1>2, <1>4, <2>1
<1> QED BY <1>3, <1>4

LEMMA DropKeepsHeld ==
    ASSUME ThreadType, Held, NEW t \in Threads, NEW place, Bare(place),
           GoTo(t, place), DropGuards(t)
    PROVE  Held'
<1> SUFFICES ASSUME NEW u \in Threads, NEW k \in Locks
             PROVE  owner'[k] = u <=> pc'[u] \in HeldAt[k]
  BY DEF Held
<1>1. /\ owner'[k] = IF owner[k] = t THEN NoOne ELSE owner[k]
      /\ pc'[u] = IF u = t THEN place ELSE pc[u]
  BY DEF ThreadType, DropGuards, GoTo
<1>2. owner[k] = u <=> pc[u] \in HeldAt[k] BY DEF Held
<1>3. u # NoOne BY ThreadsAssumption DEF Threads
<1> QED BY <1>1, <1>2, <1>3 DEF Bare

LEMMA MoveKeepsHeld ==
    ASSUME ThreadType, Held, NEW t \in Threads, NEW place, owner' = owner, GoTo(t, place),
           \A l \in Locks : pc[t] \in HeldAt[l] <=> place \in HeldAt[l]
    PROVE  Held'
<1> SUFFICES ASSUME NEW u \in Threads, NEW k \in Locks
             PROVE  owner[k] = u <=> pc'[u] \in HeldAt[k]
  BY DEF Held
<1>1. pc'[u] = IF u = t THEN place ELSE pc[u] BY DEF ThreadType, GoTo
<1>2. owner[k] = u <=> pc[u] \in HeldAt[k] BY DEF Held
<1> QED BY <1>1, <1>2

LEMMA InitHeld == Init => Held
<1> SUFFICES ASSUME Init, NEW t \in Threads, NEW l \in Locks
             PROVE  owner[l] # t /\ pc[t] \notin HeldAt[l]
  BY DEF Held
<1>1. owner[l] # t BY ThreadsAssumption DEF Init, Threads
<1>2. pc[t] \in {"read", "idle", "look"} BY DEF Init
<1> QED BY <1>1, <1>2, HeldOnce DEF Bare

LEMMA WriterHeld == ASSUME ThreadType, Held, NEW t \in Threads, Writer(t) PROVE Held'
<1>1. CASE TakeServerStdin(t)
  <2>1. Bare(pc[t]) BY <1>1, HeldOnce DEF TakeServerStdin
  <2> QED BY <1>1, <2>1, TakeKeepsHeld, HeldOnce DEF TakeServerStdin, Locks
<1>2. CASE TakeStdout(t)
  <2>1. Bare(pc[t]) BY <1>2, HeldOnce DEF TakeStdout
  <2> QED BY <1>2, <2>1, TakeKeepsHeld, HeldOnce DEF TakeStdout, Locks
<1>3. CASE WriteServer(t) \/ WriteZed(t)
  <2>1. PICK next \in {"read", "wait"} : PartWritten(t, next)
    BY <1>3 DEF WriteServer, WriteZed, AfterServer
  <2>2. CASE left[t] = 1
    BY <2>1, <2>2, DropKeepsHeld, HeldOnce DEF PartWritten
  <2>3. CASE left[t] # 1
    <3>1. UNCHANGED <<pc, owner>> BY <2>1, <2>3 DEF PartWritten
    <3> QED BY <3>1 DEF Held
  <2> QED BY <2>2, <2>3
<1>4. CASE BrokenServer(t)
  <2>1. CASE t \in Callers
    <3>1. GoTo(t, "dropEntry") /\ owner' = owner /\ pc[t] = "toServer"
      BY <1>4, <2>1, ThreadsAssumption DEF BrokenServer
    <3> QED BY <3>1, MoveKeepsHeld, HeldOnce DEF Locks
  <2>2. CASE t \notin Callers
    <3>1. PICK place \in {"done", "read"} : GoTo(t, place) /\ DropGuards(t)
      BY <1>4, <2>2 DEF BrokenServer
    <3> QED BY <3>1, DropKeepsHeld, HeldOnce
  <2> QED BY <2>1, <2>2
<1>5. CASE BrokenZed(t) BY <1>5, DropKeepsHeld, HeldOnce DEF BrokenZed
<1> QED BY <1>1, <1>2, <1>3, <1>4, <1>5 DEF Writer

(* From one place without a lock to another.                               *)
LEMMA BareKeepsHeld ==
    ASSUME ThreadType, Held, NEW t \in Threads, NEW place, owner' = owner, GoTo(t, place),
           Bare(pc[t]), Bare(place)
    PROVE  Held'
BY MoveKeepsHeld DEF Bare

LEMMA StepHeld == TypeInv /\ Held /\ [Next]_vars => Held'
<1> SUFFICES ASSUME ThreadType, TypeInv, Held, [Next]_vars PROVE Held' BY DEF TypeInv
<1>1. CASE UNCHANGED vars \/ Zed \/ Server \/ MainExit
  <2>1. UNCHANGED <<owner, pc>>
    BY <1>1 DEF vars, Zed, ZedSend, ZedClose, ZedRead, Server, SrvRead, SrvStop,
                SrvAnswer, SrvSend, MainExit
  <2> QED BY <2>1 DEF Held
<1>2. ASSUME NEW t \in Threads, Writer(t) PROVE Held' BY <1>2, WriterHeld
<1>3. CASE StdinRead \/ StdinEof
  <2>1. PICK place \in {"wantZed", "wantServer", "done"} : GoTo("stdin", place)
    BY <1>3 DEF StdinRead, StdinEof
  <2>2. pc["stdin"] = "read" /\ owner' = owner BY <1>3 DEF StdinRead, StdinEof
  <2> QED BY <2>1, <2>2, BareKeepsHeld, HeldOnce DEF Threads
<1>4. ASSUME NEW c \in Callers, Caller(c) PROVE Held'
  <2>1. c \in Threads BY DEF Threads
  <2>2. CASE Register(c) \/ Receive(c) \/ Timeout(c) \/ Expire(c)
    <3>1. PICK place \in {"wantServer", "done", "expired"} : GoTo(c, place)
      BY <2>2 DEF Register, Receive, Timeout, Expire
    <3>2. pc[c] \in {"idle", "wait", "expired"} /\ owner' = owner
      BY <2>2 DEF Register, Receive, Timeout, Expire
    <3> QED BY <2>1, <3>1, <3>2, BareKeepsHeld, HeldOnce
  <2>3. CASE DropEntry(c) BY <2>1, <2>3, DropKeepsHeld, HeldOnce DEF DropEntry
  <2> QED BY <1>2, <1>4, <2>1, <2>2, <2>3 DEF Caller
<1>5. ASSUME NEW h \in Handlers, Handler(h) PROVE Held'
  <2>1. h \in Threads /\ GoTo(h, "done") /\ pc[h] = "look" /\ owner' = owner
    BY <1>5 DEF Threads, Handler, FindPort, GiveUp
  <2> QED BY <2>1, BareKeepsHeld, HeldOnce
<1>6. CASE Main
  <2>1. CASE MainRead
    <3>1. PICK place \in {"wantZed", "lookUp"} : GoTo("main", place) BY <2>1 DEF MainRead
    <3> QED BY <2>1, <3>1, BareKeepsHeld, HeldOnce DEF MainRead, Threads
  <2>2. CASE LookUp /\ current \in pending
    <3>1. PICK place \in HeldAt["pending"] : GoTo("main", place)
      BY <2>2, NextPlace, HeldOnce DEF LookUp
    <3>2. Take("pending", "main") /\ Bare(pc["main"]) BY <2>2, HeldOnce DEF LookUp
    <3> QED BY <3>1, <3>2, TakeKeepsHeld DEF Threads, Locks
  <2>3. CASE LookUp /\ current \notin pending
    <3>1. PICK place \in {"wantServer", "wantZed"} : GoTo("main", place)
      BY <2>3, NextPlace DEF LookUp
    <3>2. owner' = owner /\ pc["main"] = "lookUp" BY <2>3 DEF LookUp
    <3> QED BY <3>1, <3>2, BareKeepsHeld, HeldOnce DEF Threads
  <2>4. CASE Remember BY <2>4, MoveKeepsHeld, HeldOnce DEF Remember, Threads, Locks
  <2>5. CASE Resolve BY <2>5, DropKeepsHeld, HeldOnce DEF Resolve, Threads
  <2> QED BY <1>1, <1>2, <1>6, <2>1, <2>2, <2>3, <2>4, <2>5 DEF Main, Threads
<1> QED BY <1>1, <1>2, <1>3, <1>4, <1>5, <1>6 DEF Next, Stdin, Threads

(* The owner of the table wants at most the port, which nobody sits on; the *)
(* owner of the server's stdin wants at most the table; the owner of stdout *)
(* wants no lock. So from any thread that waits two steps reach one that    *)
(* does not, and a group without such a thread is empty.                    *)
LEMMA HeldIsOrdered == TypeInv /\ Held => NoCircularWait
<1> SUFFICES ASSUME TypeInv, Held, NEW S \in (SUBSET Threads) \ {{}},
                    \A t \in S : Wants(t) # "none" /\ owner[Wants(t)] \in S
             PROVE  FALSE
  BY DEF NoCircularWait
<1>1. \A t \in S, l \in Locks : owner[l] = t => pc[t] \in HeldAt[l] BY DEF Held
<1>2. \A t \in S : Wants(t) \in {"serverStdin", "pending"}
  <2> SUFFICES ASSUME NEW t \in S PROVE Wants(t) \in {"serverStdin", "pending"} OBVIOUS
  <2>1. Wants(t) \in {"serverStdin", "stdout", "pending", "port", "none"} BY DEF Wants
  <2>2. Wants(t) # "port" BY <1>1, HeldOnce DEF Locks
  <2>3. ASSUME Wants(t) = "stdout" PROVE FALSE
    <3>1. PICK u \in S : owner["stdout"] = u BY <2>3
    <3>2. pc[u] = "toZed" BY <1>1, <3>1, HeldOnce DEF Locks
    <3> QED BY <3>2 DEF Wants
  <2> QED BY <2>1, <2>2, <2>3
<1>3. \A t \in S : Wants(t) # "pending"
  <2> SUFFICES ASSUME NEW t \in S, Wants(t) = "pending" PROVE FALSE OBVIOUS
  <2>1. PICK u \in S : owner["pending"] = u OBVIOUS
  <2>2. pc[u] \in {"remember", "resolve"} BY <1>1, <2>1, HeldOnce DEF Locks
  <2> QED BY <1>2, <2>2 DEF Wants
<1>4. PICK t \in S : TRUE OBVIOUS
<1>5. PICK u \in S : owner["serverStdin"] = u BY <1>2, <1>3
<1>6. pc[u] \in {"toServer", "dropEntry"} BY <1>1, <1>5, HeldOnce DEF Locks
<1> QED BY <1>2, <1>3, <1>6 DEF Wants

(* No circular wait, for any number of callers and handlers: the locks are *)
(* taken in one order, the server's stdin before the table before the      *)
(* port, and no thread takes another behind stdout (lsp.rs:28-37, 56-93).  *)
THEOREM NeverACircularWait == Spec => []NoCircularWait
<1>1. Spec => [](TypeInv /\ Held)
  BY InitType, StepType, InitHeld, StepHeld, PTL DEF Spec
<1> QED BY <1>1, HeldIsOrdered, PTL

-----------------------------------------------------------------------------
(* Frames stay whole.                                                      *)

(* The last part of a pipe, and what is true of a pipe and of the parts    *)
(* its writers are about to put in: they follow it, and with no writer in  *)
(* the middle of a frame the last frame is complete.                       *)
LastOf(first, pipe) == IF pipe = <<>> THEN first ELSE pipe[Len(pipe)]
Between(p) == p.part \in {0, FrameParts}
InStep(next, first, pipe) ==
    /\ Whole(first, pipe)
    /\ \A q \in next : Follows(LastOf(first, pipe), q)
    /\ next = {} => Between(LastOf(first, pipe))

NextParts(place) == {Part(t) : t \in {u \in Threads : pc[u] = place}}

FrameInv ==
    /\ srvUp => InStep(NextParts("toServer"), srvPart, toServer)
    /\ ~srvUp => toServer = <<>>
    /\ ~zedClosed => InStep(NextParts("toZed"), zedPart, toZed)
    /\ zedClosed => toZed = <<>>

LEMMA FramesFollow == FrameInv => FramesWhole
BY DEF FrameInv, FramesWhole, InStep, Whole

LEMMA StartStep ==
    ASSUME NEW first, NEW pipe, NEW q, q.part = 1, InStep({}, first, pipe)
    PROVE  InStep({q}, first, pipe)
BY DEF InStep, Follows, Between

LEMMA AppendStep ==
    ASSUME NEW first \in Parts \cup {NoPart}, NEW pipe \in Seq(Parts), NEW q \in Parts,
           InStep({q}, first, pipe), NEW next,
           next = IF q.part = FrameParts THEN {} ELSE {[by |-> q.by, part |-> q.part + 1]}
    PROVE  InStep(next, first, Append(pipe, q))
<1> DEFINE longer == Append(pipe, q)
<1>1. /\ longer \in Seq(Parts) /\ Len(longer) = Len(pipe) + 1 /\ longer[Len(longer)] = q
      /\ \A i \in 1..Len(pipe) : longer[i] = pipe[i]
  OBVIOUS
<1>2. LastOf(first, longer) = q BY <1>1 DEF LastOf
<1>3. Whole(first, longer)
  <2> SUFFICES ASSUME NEW i \in 1..Len(longer)
               PROVE  Follows(IF i = 1 THEN first ELSE longer[i - 1], longer[i])
    BY DEF Whole
  <2>1. CASE i \in 1..Len(pipe)
    <3>1. i # 1 => i - 1 \in 1..Len(pipe) BY <2>1
    <3> QED BY <2>1, <3>1, <1>1 DEF InStep, Whole
  <2>2. CASE i = Len(pipe) + 1
    <3>1. (IF i = 1 THEN first ELSE longer[i - 1]) = LastOf(first, pipe)
      BY <2>2, <1>1 DEF LastOf
    <3> QED BY <2>2, <3>1, <1>1 DEF InStep
  <2> QED BY <1>1, <2>1, <2>2
<1>4. q.part \in 1..FrameParts BY DEF Parts
<1> HIDE DEF longer
<1>5. next = {} => Between(q) BY DEF Between
<1>6. \A r \in next : Follows(q, r) BY <1>4, ThreadsAssumption DEF Follows
<1>7. InStep(next, first, longer) BY <1>2, <1>3, <1>5, <1>6 DEF InStep
<1> QED BY <1>7 DEF longer

(* A reader takes the first part: what follows it still does.              *)
LEMMA ReadStep ==
    ASSUME NEW first, NEW pipe \in Seq(Parts), pipe # <<>>, NEW next,
           InStep(next, first, pipe)
    PROVE  InStep(next, Rest(Head(pipe)), Tail(pipe))
<1> DEFINE p == Head(pipe)
           rest == Tail(pipe)
<1>1. /\ p = pipe[1] /\ p \in Parts /\ Len(pipe) \in Nat \ {0}
      /\ rest \in Seq(Parts) /\ Len(rest) = Len(pipe) - 1
      /\ \A i \in 1..Len(rest) : rest[i] = pipe[i + 1]
  OBVIOUS
<1>2. p.part \in 1..FrameParts BY <1>1 DEF Parts
<1>3. \A q : Follows(Rest(p), q) <=> Follows(p, q)
  BY <1>2 DEF Rest, NoPart, Follows
<1>4. Between(Rest(p)) <=> Between(p) BY <1>2, ThreadsAssumption DEF Rest, NoPart, Between
<1>5. LastOf(Rest(p), rest) = IF rest = <<>> THEN Rest(p) ELSE LastOf(first, pipe)
  <2>1. CASE rest = <<>> BY <2>1 DEF LastOf
  <2>2. CASE rest # <<>>
    <3>1. Len(rest) \in 1..Len(rest) BY <2>2, <1>1
    <3> QED BY <2>2, <3>1, <1>1 DEF LastOf
  <2> QED BY <2>1, <2>2
<1>6. rest = <<>> => LastOf(first, pipe) = p BY <1>1 DEF LastOf
<1>7. Whole(Rest(p), rest)
  <2> SUFFICES ASSUME NEW i \in 1..Len(rest)
               PROVE  Follows(IF i = 1 THEN Rest(p) ELSE rest[i - 1], rest[i])
    BY DEF Whole
  <2>1. i + 1 \in 1..Len(pipe) /\ i + 1 # 1 /\ (i + 1) - 1 = i BY <1>1
  <2>2. Follows(pipe[i], pipe[i + 1]) BY <2>1 DEF InStep, Whole
  <2>3. CASE i = 1 BY <2>2, <2>3, <1>1, <1>3
  <2>4. CASE i # 1
    <3>1. rest[i - 1] = pipe[i] /\ rest[i] = pipe[i + 1] BY <2>4, <1>1
    <3> QED BY <2>2, <2>4, <3>1
  <2> QED BY <2>3, <2>4
<1> HIDE DEF p, rest
<1>8. InStep(next, Rest(p), rest) BY <1>3, <1>4, <1>5, <1>6, <1>7 DEF InStep
<1> QED BY <1>8 DEF p, rest

(* The parts to be written change when a thread enters or leaves a frame   *)
(* or goes on in it.                                                       *)
Pipes == {"toServer", "toZed"}

LEMMA SameNext ==
    ASSUME NEW place,
           \A u \in Threads : /\ pc'[u] = place <=> pc[u] = place
                              /\ pc[u] = place => left'[u] = left[u]
    PROVE  NextParts(place)' = NextParts(place)
BY DEF NextParts, Part

LEMMA NextMoved ==
    ASSUME ThreadType, NEW t \in Threads, NEW to, to \notin Pipes, GoTo(t, to),
           pc[t] \notin Pipes, left' = left, NEW place \in Pipes
    PROVE  NextParts(place)' = NextParts(place)
BY SameNext DEF ThreadType, GoTo, Pipes

LEMMA NextStarted ==
    ASSUME ThreadType, NEW t \in Threads, NEW place \in Pipes, GoTo(t, place), StartFrame(t),
           pc[t] \notin Pipes, NEW other \in Pipes \ {place}, NextParts(place) = {}
    PROVE  /\ NextParts(place)' = {[by |-> t, part |-> 1]}
           /\ NextParts(other)' = NextParts(other)
<1> USE DEF ThreadType, GoTo, StartFrame
<1>1. \A u \in Threads : pc[u] # place BY DEF NextParts
<1>2. {u \in Threads : pc'[u] = place} = {t} BY <1>1
<1>3. Part(t)' = [by |-> t, part |-> 1] BY ThreadsAssumption DEF Part
<1>4. NextParts(place)' = {[by |-> t, part |-> 1]} BY <1>2, <1>3 DEF NextParts
<1>5. NextParts(other)' = NextParts(other) BY SameNext DEF Pipes
<1> QED BY <1>4, <1>5

(* The lock lets one thread at a time into a pipe.                         *)
LEMMA AloneAtPipe ==
    ASSUME Held, NEW t \in Threads, NEW place \in Pipes, pc[t] = place
    PROVE  {u \in Threads : pc[u] = place} = {t}
<1>1. CASE place = "toServer" BY <1>1, HeldOnce DEF Held, Locks
<1>2. CASE place = "toZed" BY <1>2, HeldOnce DEF Held, Locks
<1> QED BY <1>1, <1>2 DEF Pipes

LEMMA NextWritten ==
    ASSUME ThreadType, Held, NEW t \in Threads, NEW place \in Pipes, pc[t] = place,
           NEW to \in {"read", "wait"}, PartWritten(t, to), NEW other \in Pipes \ {place}
    PROVE  /\ NextParts(place) = {Part(t)}
           /\ NextParts(place)' = IF Part(t).part = FrameParts THEN {}
                                  ELSE {[by |-> Part(t).by, part |-> Part(t).part + 1]}
           /\ NextParts(other)' = NextParts(other)
<1>1. {u \in Threads : pc[u] = place} = {t} BY AloneAtPipe
<1>2. NextParts(place) = {Part(t)} BY <1>1 DEF NextParts
<1>3. left[t] \in 1..FrameParts BY PartType DEF Pipes
<1>4. left' = [left EXCEPT ![t] = left[t] - 1] BY DEF PartWritten
<1>5. Part(t).part = FrameParts <=> left[t] = 1 BY <1>3, ThreadsAssumption DEF Part
<1>6. CASE left[t] = 1
  <2>1. pc' = [pc EXCEPT ![t] = to] BY <1>6 DEF PartWritten, GoTo
  <2>2. {u \in Threads : pc'[u] = place} = {} BY <2>1, <1>1 DEF ThreadType, Pipes
  <2>3. NextParts(place)' = {} BY <2>2 DEF NextParts
  <2>4. NextParts(other)' = NextParts(other)
    BY <2>1, <1>4, SameNext DEF ThreadType, Pipes
  <2> QED BY <2>3, <2>4, <1>2, <1>5, <1>6
<1>7. CASE left[t] # 1
  <2>1. pc' = pc BY <1>7 DEF PartWritten
  <2>2. Part(t)' = [by |-> Part(t).by, part |-> Part(t).part + 1]
    BY <1>3, <1>4, ThreadsAssumption DEF Part, ThreadType
  <2>3. NextParts(place)' = {Part(t)'} BY <2>1, <1>1 DEF NextParts
  <2>4. NextParts(other)' = NextParts(other)
    BY <2>1, <1>4, SameNext DEF ThreadType, Pipes
  <2> QED BY <2>2, <2>3, <2>4, <1>2, <1>5, <1>7
<1> QED BY <1>6, <1>7

LEMMA SameFrames ==
    ASSUME FrameInv, UNCHANGED <<srvUp, srvPart, toServer, zedClosed, zedPart, toZed>>,
           NextParts("toServer")' = NextParts("toServer"),
           NextParts("toZed")' = NextParts("toZed")
    PROVE  FrameInv'
BY DEF FrameInv

LEMMA InitFrames == Init => FrameInv
<1> SUFFICES ASSUME Init PROVE FrameInv OBVIOUS
<1>1. \A t \in Threads : pc[t] \in {"read", "idle", "look"} BY DEF Init
<1>2. NextParts("toServer") = {} /\ NextParts("toZed") = {} BY <1>1 DEF NextParts
<1>3. InStep({}, NoPart, <<>>)
  BY DEF InStep, Whole, LastOf, Between, NoPart
<1> QED BY <1>2, <1>3 DEF Init, FrameInv

LEMMA WriterFrames ==
    ASSUME TypeInv, Held, FrameInv, NEW t \in Threads, Writer(t)
    PROVE  FrameInv'
<1> USE DEF TypeInv
<1>1. CASE TakeServerStdin(t)
  <2>1. \A u \in Threads : pc[u] # "toServer"
    <3>1. \A u \in Threads : owner["serverStdin"] # u
      BY <1>1, ThreadsAssumption DEF TakeServerStdin, Take, Free, Threads
    <3> QED BY <3>1, HeldOnce DEF Held, Locks
  <2>2. NextParts("toServer") = {} BY <2>1 DEF NextParts
  <2>3. /\ NextParts("toServer")' = {[by |-> t, part |-> 1]}
        /\ NextParts("toZed")' = NextParts("toZed")
    BY <1>1, <2>2, NextStarted DEF TakeServerStdin, Pipes
  <2>4. ASSUME srvUp PROVE InStep({[by |-> t, part |-> 1]}, srvPart, toServer)
    BY <2>2, <2>4, StartStep DEF FrameInv
  <2>5. UNCHANGED <<srvUp, srvPart, toServer, zedClosed, zedPart, toZed>>
    BY <1>1 DEF TakeServerStdin
  <2> QED BY <2>3, <2>4, <2>5 DEF FrameInv
<1>2. CASE TakeStdout(t)
  <2>1. \A u \in Threads : pc[u] # "toZed"
    <3>1. \A u \in Threads : owner["stdout"] # u
      BY <1>2, ThreadsAssumption DEF TakeStdout, Take, Free, Threads
    <3> QED BY <3>1, HeldOnce DEF Held, Locks
  <2>2. NextParts("toZed") = {} BY <2>1 DEF NextParts
  <2>3. /\ NextParts("toZed")' = {[by |-> t, part |-> 1]}
        /\ NextParts("toServer")' = NextParts("toServer")
    BY <1>2, <2>2, NextStarted DEF TakeStdout, Pipes
  <2>4. ASSUME ~zedClosed PROVE InStep({[by |-> t, part |-> 1]}, zedPart, toZed)
    BY <2>2, <2>4, StartStep DEF FrameInv
  <2>5. UNCHANGED <<srvUp, srvPart, toServer, zedClosed, zedPart, toZed>>
    BY <1>2 DEF TakeStdout
  <2> QED BY <2>3, <2>4, <2>5 DEF FrameInv
<1>3. CASE WriteServer(t)
  <2>1. /\ NextParts("toServer") = {Part(t)}
        /\ NextParts("toServer")' = IF Part(t).part = FrameParts THEN {}
                                    ELSE {[by |-> Part(t).by, part |-> Part(t).part + 1]}
        /\ NextParts("toZed")' = NextParts("toZed")
    BY <1>3, NextWritten DEF WriteServer, AfterServer, Pipes
  <2>2. Part(t) \in Parts BY <1>3, PartType DEF WriteServer
  <2>3. InStep(NextParts("toServer")', srvPart, Append(toServer, Part(t)))
    BY <1>3, <2>1, <2>2, AppendStep DEF WriteServer, FrameInv, PipeType
  <2> QED BY <1>3, <2>1, <2>3 DEF WriteServer, FrameInv
<1>4. CASE WriteZed(t)
  <2>1. /\ NextParts("toZed") = {Part(t)}
        /\ NextParts("toZed")' = IF Part(t).part = FrameParts THEN {}
                                 ELSE {[by |-> Part(t).by, part |-> Part(t).part + 1]}
        /\ NextParts("toServer")' = NextParts("toServer")
    BY <1>4, NextWritten DEF WriteZed, Pipes
  <2>2. Part(t) \in Parts BY <1>4, PartType DEF WriteZed
  <2>3. InStep(NextParts("toZed")', zedPart, Append(toZed, Part(t)))
    BY <1>4, <2>1, <2>2, AppendStep DEF WriteZed, FrameInv, PipeType
  <2> QED BY <1>4, <2>1, <2>3 DEF WriteZed, FrameInv
<1>5. CASE BrokenServer(t)
  <2>1. PICK to \in {"dropEntry", "done", "read"} : GoTo(t, to) BY <1>5 DEF BrokenServer
  <2>2. NextParts("toZed")' = NextParts("toZed")
    BY <1>5, <2>1, SameNext DEF BrokenServer, GoTo, ThreadType
  <2> QED BY <1>5, <2>2 DEF BrokenServer, FrameInv
<1>6. CASE BrokenZed(t)
  <2>1. NextParts("toServer")' = NextParts("toServer")
    BY <1>6, SameNext DEF BrokenZed, GoTo, ThreadType
  <2> QED BY <1>6, <2>1 DEF BrokenZed, FrameInv
<1> QED BY <1>1, <1>2, <1>3, <1>4, <1>5, <1>6 DEF Writer

(* The other steps of the threads: no writer moves and no pipe changes,    *)
(* except that the end of Zed's stream may take the server along.          *)
LEMMA ThreadFrames ==
    ASSUME TypeInv, FrameInv, NEW t \in Threads, NEW to \in Places \ Pipes,
           GoTo(t, to), pc[t] \notin Pipes, left' = left,
           UNCHANGED <<toZed, zedPart, zedClosed>>,
           UNCHANGED <<toServer, srvPart, srvUp>> \/ ServerGone
    PROVE  FrameInv'
BY NextMoved DEF TypeInv, FrameInv, Pipes, ServerGone

LEMMA PeersFrames == ASSUME TypeInv, FrameInv, Zed \/ Server PROVE FrameInv'
<1>1. UNCHANGED <<pc, left>>
  BY DEF Zed, ZedSend, ZedClose, ZedRead, Server, SrvRead, SrvStop, SrvAnswer, SrvSend
<1>2. \A place \in Pipes : NextParts(place)' = NextParts(place) BY <1>1, SameNext
<1>3. CASE Zed
  <2>1. ASSUME NEW m \in {"inlay", "message"}, ZedSend(m) PROVE FrameInv'
    BY <2>1, <1>2, SameFrames DEF ZedSend, Pipes
  <2>2. CASE ZedClose BY <2>2, <1>2 DEF ZedClose, FrameInv, Pipes
  <2>3. CASE ZedRead
    BY <2>3, <1>2, ReadStep DEF ZedRead, FrameInv, Pipes, TypeInv, PipeType
  <2> QED BY <1>3, <2>1, <2>2, <2>3 DEF Zed
<1>4. CASE Server
  <2>1. CASE SrvRead
    BY <2>1, <1>2, ReadStep DEF SrvRead, FrameInv, Pipes, TypeInv, PipeType
  <2>2. CASE SrvStop BY <2>2, <1>2 DEF SrvStop, ServerGone, FrameInv, Pipes
  <2>3. ASSUME NEW c \in Callers, SrvAnswer(c) PROVE FrameInv'
    BY <2>3, <1>2, SameFrames DEF SrvAnswer, Pipes
  <2>4. ASSUME NEW m \in {"ask", "notice"}, SrvSend(m) PROVE FrameInv'
    BY <2>4, <1>2, SameFrames DEF SrvSend, Pipes
  <2> QED BY <1>4, <2>1, <2>2, <2>3, <2>4 DEF Server
<1> QED BY <1>3, <1>4

LEMMA StepFrames == TypeInv /\ Held /\ FrameInv /\ [Next]_vars => FrameInv'
<1> SUFFICES ASSUME TypeInv, Held, FrameInv, [Next]_vars PROVE FrameInv' OBVIOUS
<1>1. CASE UNCHANGED vars \/ MainExit
  <2>1. UNCHANGED <<pc, left, srvUp, srvPart, toServer, zedClosed, zedPart, toZed>>
    BY <1>1 DEF vars, MainExit
  <2> QED BY <2>1, SameNext, SameFrames
<1>2. ASSUME NEW t \in Threads, Writer(t) PROVE FrameInv' BY <1>2, WriterFrames
<1>3. CASE StdinRead \/ StdinEof
  <2>1. PICK to \in {"wantZed", "wantServer", "done"} : GoTo("stdin", to)
    BY <1>3 DEF StdinRead, StdinEof
  <2>2. /\ pc["stdin"] = "read" /\ left' = left /\ UNCHANGED <<toZed, zedPart, zedClosed>>
        /\ UNCHANGED <<toServer, srvPart, srvUp>> \/ ServerGone
    BY <1>3 DEF StdinRead, StdinEof
  <2> QED BY <2>1, <2>2, ThreadFrames DEF Threads, Places, Pipes
<1>4. ASSUME NEW c \in Callers, Caller(c) PROVE FrameInv'
  <2>1. CASE Register(c) \/ DropEntry(c) \/ Receive(c) \/ Timeout(c) \/ Expire(c)
    <3>1. PICK to \in {"wantServer", "done", "expired"} : GoTo(c, to)
      BY <2>1 DEF Register, DropEntry, Receive, Timeout, Expire
    <3>2. /\ pc[c] \in {"idle", "dropEntry", "wait", "expired"} /\ left' = left
          /\ UNCHANGED <<toZed, zedPart, zedClosed, toServer, srvPart, srvUp>>
      BY <2>1 DEF Register, DropEntry, Receive, Timeout, Expire
    <3> QED BY <3>1, <3>2, ThreadFrames DEF Threads, Places, Pipes
  <2> QED BY <1>2, <1>4, <2>1 DEF Caller, Threads
<1>5. ASSUME NEW h \in Handlers, Handler(h) PROVE FrameInv'
  BY <1>5, ThreadFrames DEF Handler, FindPort, GiveUp, Threads, Places, Pipes
<1>6. CASE MainRead \/ LookUp \/ Remember \/ Resolve
  <2>1. PICK to \in {"wantZed", "lookUp", "remember", "resolve", "wantServer", "read"} :
           GoTo("main", to)
    BY <1>6, NextPlace DEF MainRead, LookUp, Remember, Resolve
  <2>2. /\ pc["main"] \in {"read", "lookUp", "remember", "resolve"} /\ left' = left
        /\ UNCHANGED <<toZed, zedPart, zedClosed, toServer, srvPart, srvUp>>
    BY <1>6 DEF MainRead, LookUp, Remember, Resolve
  <2> QED BY <2>1, <2>2, ThreadFrames DEF Threads, Places, Pipes
<1>7. CASE Zed \/ Server BY <1>7, PeersFrames
<1> QED BY <1>1, <1>2, <1>3, <1>4, <1>5, <1>6, <1>7 DEF Next, Stdin, Main, Threads

(* Whoever reads a pipe always finds whole frames, for any number of       *)
(* writers, frames of any number of parts and pipes of any room: a thread  *)
(* that is held up in the middle of a frame keeps its lock                 *)
(* (lsp.rs:30-37, 89-92, 141-145, main.rs:171-181).                        *)
THEOREM FramesStayWhole == Spec => []FramesWhole
<1>1. Spec => [](TypeInv /\ Held /\ FrameInv)
  BY InitType, StepType, InitHeld, StepHeld, InitFrames, StepFrames, PTL DEF Spec
<1> QED BY <1>1, FramesFollow, PTL
=============================================================================
