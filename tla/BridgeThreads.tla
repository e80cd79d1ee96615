---------------------------- MODULE BridgeThreads ----------------------------
(***************************************************************************)
(* Who waits for whom inside the native bridge: the threads of             *)
(* bridge/src/main.rs, http.rs and dap.rs, the mutexes they share and the  *)
(* pipes of finite room they write to.                                     *)
(*                                                                         *)
(* LspRouter takes a write as one step and asks where each message goes.   *)
(* Here a frame is written part by part under its lock, and a writer whose *)
(* pipe is full keeps the lock until somebody reads: the question is       *)
(* whether frames stay whole and whether the threads ever get stuck on     *)
(* each other. A critical section in which a thread can neither block nor  *)
(* take a second lock is one step, possible while the lock is free; every  *)
(* other one takes the lock in one step and gives it back in a later one.  *)
(* Two of them nest: a caller whose write failed wants the table while it  *)
(* holds the server's stdin (lsp.rs:30-32), and main wants the debug port  *)
(* while it holds the table (lsp.rs:60-69).                                *)
(***************************************************************************)
EXTENDS Naturals, Sequences

CONSTANTS
    Callers,     \* HTTP connections, one request each
    Handlers,    \* DAP connections that look for the debug port
    NoOne,       \* the owner of a free lock
    FrameParts,  \* parts a frame reaches its pipe in
    PipeCap,     \* bound: parts a pipe holds
    OutCap,      \* bound: messages the server's stdout holds
    MaxZed,      \* bound: messages Zed sends
    MaxSrv       \* bound: messages the server sends of its own

ASSUME ThreadsAssumption ==
    /\ FrameParts \in Nat \ {0} /\ PipeCap \in Nat \ {0} /\ OutCap \in Nat \ {0}
    /\ MaxZed \in Nat /\ MaxSrv \in Nat
    /\ Callers \cap Handlers = {}
    /\ (Callers \cup Handlers) \cap {"stdin", "main", "ask", "notice", NoOne} = {}
    /\ NoOne \notin {"stdin", "main"}

Threads == {"stdin", "main"} \cup Callers \cup Handlers

VARIABLES
    owner,      \* per lock: the thread that holds it, or NoOne
    pc,         \* per thread: where it is
    left,       \* per thread: parts of its frame still to be written
    fromZed,    \* the bridge's stdin: what Zed sent, unread
    toServer,   \* the server's stdin: parts, unread
    toZed,      \* the bridge's stdout: parts, unread
    toBridge,   \* the server's stdout: messages, unread
    srvPart,    \* the last part the server read, if its frame goes on
    zedPart,    \* the last part Zed read, if its frame goes on
    pending,    \* Shared.pending: the callers with an entry
    mailbox,    \* the callers with an answer in their channel
    port,       \* Shared.real_dap_port is Some
    current,    \* the message main is routing
    asked,      \* callers whose request the server has read, unanswered
    zedSent, srvSent,           \* messages sent so far
    zedClosed, srvUp, bridgeUp  \* Zed has closed; each process is running

pipes == <<fromZed, toServer, toZed, toBridge>>
peers == <<srvPart, zedPart, asked, zedSent, srvSent, zedClosed>>
vars  == <<owner, pc, left, pipes, peers, pending, mailbox, port, current,
           srvUp, bridgeUp>>

-----------------------------------------------------------------------------
(* Locks, parts and pipes.                                                 *)

Locks == {"serverStdin", "stdout", "pending", "port"}
Free(l) == owner[l] = NoOne

Take(l, t) == Free(l) /\ owner' = [owner EXCEPT ![l] = t]
(* A thread leaves a scope: its guards are dropped.                        *)
DropGuards(t) ==
    owner' = [l \in Locks |-> IF owner[l] = t THEN NoOne ELSE owner[l]]

NoPart == [by |-> NoOne, part |-> 0]
Part(t) == [by |-> t, part |-> FrameParts + 1 - left[t]]
Parts == [by : Threads, part : 1..FrameParts]

HasRoom(pipe) == Len(pipe) < PipeCap

GoTo(t, place) == pc' = [pc EXCEPT ![t] = place]
StartFrame(t)  == left' = [left EXCEPT ![t] = FrameParts]

(* A thread has written a part; its guard is dropped after the last one.   *)
PartWritten(t, next) ==
    /\ left' = [left EXCEPT ![t] = @ - 1]
    /\ IF left[t] = 1 THEN GoTo(t, next) /\ DropGuards(t)
                     ELSE UNCHANGED <<pc, owner>>

(* The server is gone, and with it what it had not read or not answered;   *)
(* what it had written can still be read.                                  *)
ServerGone ==
    /\ srvUp' = FALSE
    /\ toServer' = <<>> /\ srvPart' = NoPart /\ asked' = {}

-----------------------------------------------------------------------------
Init ==
    /\ owner = [l \in Locks |-> NoOne]
    /\ pc = [t \in Threads |-> CASE t \in Callers  -> "idle"
                             [] t \in Handlers -> "look"
                             [] OTHER          -> "read"]
    /\ left = [t \in Threads |-> 0]
    /\ fromZed = <<>> /\ toServer = <<>> /\ toZed = <<>> /\ toBridge = <<>>
    /\ srvPart = NoPart /\ zedPart = NoPart
    /\ pending = {} /\ mailbox = {} /\ port = FALSE /\ current = "notice"
    /\ asked = {} /\ zedSent = 0 /\ srvSent = 0
    /\ zedClosed = FALSE /\ srvUp = TRUE /\ bridgeUp = TRUE

-----------------------------------------------------------------------------
(* The stdin thread.                                                       *)

StdinRead ==
    /\ bridgeUp /\ pc["stdin"] = "read" /\ fromZed # <<>>
    /\ GoTo("stdin", IF Head(fromZed) = "inlay" THEN "wantZed" ELSE "wantServer")
    /\ fromZed' = Tail(fromZed)
    /\ UNCHANGED <<owner, left, toServer, toZed, toBridge, peers, pending,
                   mailbox, port, current, srvUp, bridgeUp>>

(* Mutant: the end of Zed's stream ends the thread and nothing else.       *)
StdinEofSilent ==
    /\ bridgeUp /\ pc["stdin"] = "read" /\ fromZed = <<>> /\ zedClosed
    /\ GoTo("stdin", "done")
    /\ UNCHANGED <<owner, left, pipes, peers, pending, mailbox, port, current,
                   srvUp, bridgeUp>>
StdinEof ==
    /\ bridgeUp /\ pc["stdin"] = "read" /\ fromZed = <<>> /\ zedClosed
    /\ GoTo("stdin", "done")
    /\ ServerGone
    /\ UNCHANGED <<owner, left, fromZed, toZed, toBridge, zedPart, zedSent, srvSent,
                   zedClosed, pending, mailbox, port, current, bridgeUp>>

-----------------------------------------------------------------------------
(* Writers: the stdin thread, main and the callers write to the server; the *)
(* stdin thread and main write to Zed.                                      *)

TakeServerStdin(t) ==
    /\ bridgeUp /\ pc[t] = "wantServer"
    /\ Take("serverStdin", t)
    /\ GoTo(t, "toServer") /\ StartFrame(t)
    /\ UNCHANGED <<pipes, peers, pending, mailbox, port, current, srvUp, bridgeUp>>

AfterServer(t) == IF t \in Callers THEN "wait" ELSE "read"

WriteServer(t) ==
    /\ bridgeUp /\ pc[t] = "toServer"
    /\ srvUp /\ HasRoom(toServer)
    /\ toServer' = Append(toServer, Part(t))
    /\ PartWritten(t, AfterServer(t))
    /\ UNCHANGED <<fromZed, toZed, toBridge, peers, pending, mailbox, port,
                   current, srvUp, bridgeUp>>

(* The server's stdin is closed. The stdin thread returns and main goes on, *)
(* both without the lock; a caller keeps it while it wants the table.       *)
BrokenServer(t) ==
    /\ bridgeUp /\ pc[t] = "toServer"
    /\ ~srvUp
    /\ CASE t \in Callers -> GoTo(t, "dropEntry") /\ UNCHANGED owner
         [] t = "stdin"   -> GoTo(t, "done") /\ DropGuards(t)
         [] OTHER         -> GoTo(t, "read") /\ DropGuards(t)
    /\ left' = [left EXCEPT ![t] = 0]
    /\ UNCHANGED <<pipes, peers, pending, mailbox, port, current, srvUp, bridgeUp>>

(* Mutant: `io::stdout()` is written to without lock().                    *)
TakeStdoutUnlocked(t) ==
    /\ bridgeUp /\ pc[t] = "wantZed"
    /\ GoTo(t, "toZed") /\ StartFrame(t)
    /\ UNCHANGED <<owner, pipes, peers, pending, mailbox, port, current, srvUp,
                   bridgeUp>>
TakeStdout(t) ==
    /\ bridgeUp /\ pc[t] = "wantZed"
    /\ Take("stdout", t)
    /\ GoTo(t, "toZed") /\ StartFrame(t)
    /\ UNCHANGED <<pipes, peers, pending, mailbox, port, current, srvUp, bridgeUp>>

WriteZed(t) ==
    /\ bridgeUp /\ pc[t] = "toZed"
    /\ ~zedClosed /\ HasRoom(toZed)
    /\ toZed' = Append(toZed, Part(t))
    /\ PartWritten(t, "read")
    /\ UNCHANGED <<fromZed, toServer, toBridge, peers, pending, mailbox, port,
                   current, srvUp, bridgeUp>>

(* Zed is gone: the error is ignored. Mutant: the write is tried again.     *)
BrokenZedRetried(t) == FALSE
BrokenZed(t) ==
    /\ bridgeUp /\ pc[t] = "toZed"
    /\ zedClosed
    /\ GoTo(t, "read") /\ DropGuards(t)
    /\ left' = [left EXCEPT ![t] = 0]
    /\ UNCHANGED <<pipes, peers, pending, mailbox, port, current, srvUp, bridgeUp>>

Writer(t) == \/ TakeServerStdin(t) \/ WriteServer(t) \/ BrokenServer(t)
             \/ TakeStdout(t) \/ WriteZed(t) \/ BrokenZed(t)

Stdin == StdinRead \/ StdinEof \/ Writer("stdin")

-----------------------------------------------------------------------------
(* HTTP callers: send_lsp_request.                                         *)

Register(c) ==
    /\ bridgeUp /\ pc[c] = "idle" /\ Free("pending")
    /\ pending' = pending \cup {c}
    /\ GoTo(c, "wantServer")
    /\ UNCHANGED <<owner, left, pipes, peers, mailbox, port, current, srvUp, bridgeUp>>

(* The write failed: the entry goes, then both guards.                     *)
DropEntry(c) ==
    /\ bridgeUp /\ pc[c] = "dropEntry" /\ Free("pending")
    /\ pending' = pending \ {c}
    /\ GoTo(c, "done") /\ DropGuards(c)
    /\ UNCHANGED <<left, pipes, peers, mailbox, port, current, srvUp, bridgeUp>>

Receive(c) ==
    /\ bridgeUp /\ pc[c] = "wait" /\ c \in mailbox
    /\ GoTo(c, "done")
    /\ UNCHANGED <<owner, left, pipes, peers, pending, mailbox, port, current,
                   srvUp, bridgeUp>>

(* recv_timeout gives up on an empty channel. Mutant: recv().              *)
TimeoutNever(c) == FALSE
Timeout(c) ==
    /\ bridgeUp /\ pc[c] = "wait" /\ c \notin mailbox
    /\ GoTo(c, "expired")
    /\ UNCHANGED <<owner, left, pipes, peers, pending, mailbox, port, current,
                   srvUp, bridgeUp>>

Expire(c) ==
    /\ bridgeUp /\ pc[c] = "expired" /\ Free("pending")
    /\ pending' = pending \ {c}
    /\ GoTo(c, "done")
    /\ UNCHANGED <<owner, left, pipes, peers, mailbox, port, current, srvUp, bridgeUp>>

Caller(c) == \/ Register(c) \/ DropEntry(c) \/ Receive(c) \/ Timeout(c)
             \/ Expire(c) \/ Writer(c)

-----------------------------------------------------------------------------
(* DAP handlers: handle_client until it has a port. The guard on the port  *)
(* does not outlive the `if let`, so nobody sleeps with it; a look that    *)
(* finds no port changes nothing, and the deadline ends the search.        *)

FindPort(h) ==
    /\ bridgeUp /\ pc[h] = "look" /\ Free("port") /\ port
    /\ GoTo(h, "done")
    /\ UNCHANGED <<owner, left, pipes, peers, pending, mailbox, port, current,
                   srvUp, bridgeUp>>

GiveUp(h) ==
    /\ bridgeUp /\ pc[h] = "look"
    /\ GoTo(h, "done")
    /\ UNCHANGED <<owner, left, pipes, peers, pending, mailbox, port, current,
                   srvUp, bridgeUp>>

Handler(h) == FindPort(h) \/ GiveUp(h)

-----------------------------------------------------------------------------
(* The main thread: the server's stdout, one message after the other.      *)

MainRead ==
    /\ bridgeUp /\ pc["main"] = "read" /\ toBridge # <<>>
    /\ current' = Head(toBridge) /\ toBridge' = Tail(toBridge)
    /\ GoTo("main", IF Head(toBridge) = "notice" THEN "wantZed" ELSE "lookUp")
    /\ UNCHANGED <<owner, left, fromZed, toServer, toZed, peers, pending, mailbox,
                   port, srvUp, bridgeUp>>

(* A message with an id. Where the entry it hits leads depends on the call *)
(* it belongs to: "remember" if it asked for a debug server. Mutant: every *)
(* id is taken for that of an answer.                                      *)
AfterLookUpAnyId == {"remember", "resolve"}
AfterLookUp == CASE current \in pending -> {"remember", "resolve"}
                 [] current = "ask"     -> {"wantServer"}
                 [] OTHER               -> {"wantZed"}

(* With a hit the guard on the table is kept, without one it is dropped at *)
(* the end of the `if let`. Mutant: an `else` keeps it for what follows.   *)
LookUpElse ==
    /\ bridgeUp /\ pc["main"] = "lookUp" /\ Take("pending", "main")
    /\ pending' = pending \ {current}
    /\ \E next \in AfterLookUp : GoTo("main", next)
    /\ UNCHANGED <<left, pipes, peers, mailbox, port, current, srvUp, bridgeUp>>
LookUp ==
    /\ bridgeUp /\ pc["main"] = "lookUp" /\ Free("pending")
    /\ pending' = pending \ {current}
    /\ \E next \in AfterLookUp : GoTo("main", next)
    /\ IF current \in pending
       THEN Take("pending", "main") /\ UNCHANGED current
       ELSE current' = "notice" /\ UNCHANGED owner
    /\ UNCHANGED <<left, pipes, peers, mailbox, port, srvUp, bridgeUp>>

(* Under the guard on the table: the answer to start_debug_server leaves   *)
(* its port, then the caller is sent its message and the table released.   *)
Remember ==
    /\ bridgeUp /\ pc["main"] = "remember" /\ Free("port")
    /\ port' = TRUE
    /\ GoTo("main", "resolve")
    /\ UNCHANGED <<owner, left, pipes, peers, pending, mailbox, current, srvUp, bridgeUp>>

Resolve ==
    /\ bridgeUp /\ pc["main"] = "resolve"
    /\ mailbox' = mailbox \cup {current} /\ current' = "notice"
    /\ GoTo("main", "read") /\ DropGuards("main")
    /\ UNCHANGED <<left, pipes, peers, pending, port, srvUp, bridgeUp>>

(* The server's stdout is at its end: the process exits with every thread. *)
MainExit ==
    /\ bridgeUp /\ pc["main"] = "read" /\ toBridge = <<>> /\ ~srvUp
    /\ bridgeUp' = FALSE
    /\ UNCHANGED <<owner, pc, left, pipes, peers, pending, mailbox, port, current, srvUp>>

Main == MainRead \/ LookUp \/ Remember \/ Resolve \/ MainExit \/ Writer("main")

-----------------------------------------------------------------------------
(* Zed and the server (environment).                                       *)

ZedSend(m) ==
    /\ bridgeUp /\ ~zedClosed /\ zedSent < MaxZed
    /\ zedSent' = zedSent + 1 /\ fromZed' = Append(fromZed, m)
    /\ UNCHANGED <<owner, pc, left, toServer, toZed, toBridge, srvPart, zedPart, asked,
                   srvSent, zedClosed, pending, mailbox, port, current, srvUp, bridgeUp>>

ZedClose ==
    /\ bridgeUp /\ ~zedClosed /\ zedClosed' = TRUE
    /\ toZed' = <<>> /\ zedPart' = NoPart
    /\ UNCHANGED <<owner, pc, left, fromZed, toServer, toBridge, srvPart, asked, zedSent, srvSent,
                   pending, mailbox, port, current, srvUp, bridgeUp>>

Rest(p) == IF p.part = FrameParts THEN NoPart ELSE p

ZedRead ==
    /\ bridgeUp /\ ~zedClosed /\ toZed # <<>>
    /\ zedPart' = Rest(Head(toZed)) /\ toZed' = Tail(toZed)
    /\ UNCHANGED <<owner, pc, left, fromZed, toServer, toBridge, srvPart, asked, zedSent,
                   srvSent, zedClosed, pending, mailbox, port, current, srvUp, bridgeUp>>

SrvRead ==
    /\ srvUp /\ toServer # <<>>
    /\ LET p == Head(toServer) IN
       /\ srvPart' = Rest(p) /\ toServer' = Tail(toServer)
       /\ asked' = IF p.part = FrameParts THEN asked \cup ({p.by} \cap Callers) ELSE asked
    /\ UNCHANGED <<owner, pc, left, fromZed, toZed, toBridge, zedPart, zedSent,
                   srvSent, zedClosed, pending, mailbox, port, current, srvUp, bridgeUp>>

SrvAnswer(c) ==
    /\ srvUp /\ c \in asked /\ Len(toBridge) < OutCap
    /\ asked' = asked \ {c} /\ toBridge' = Append(toBridge, c)
    /\ UNCHANGED <<owner, pc, left, fromZed, toServer, toZed, srvPart, zedPart, zedSent,
                   srvSent, zedClosed, pending, mailbox, port, current, srvUp, bridgeUp>>

SrvSend(m) ==
    /\ srvUp /\ srvSent < MaxSrv /\ Len(toBridge) < OutCap
    /\ srvSent' = srvSent + 1 /\ toBridge' = Append(toBridge, m)
    /\ UNCHANGED <<owner, pc, left, fromZed, toServer, toZed, srvPart, zedPart, asked,
                   zedSent, zedClosed, pending, mailbox, port, current, srvUp, bridgeUp>>

SrvStop ==
    /\ srvUp /\ ServerGone
    /\ UNCHANGED <<owner, pc, left, fromZed, toZed, toBridge, zedPart, zedSent, srvSent,
                   zedClosed, pending, mailbox, port, current, bridgeUp>>

Zed == (\E m \in {"inlay", "message"} : ZedSend(m)) \/ ZedClose \/ ZedRead

Server == \/ SrvRead \/ SrvStop
          \/ \E c \in Callers : SrvAnswer(c)
          \/ \E m \in {"ask", "notice"} : SrvSend(m)

Next == \/ Stdin \/ Main \/ Zed \/ Server
        \/ \E c \in Callers : Caller(c)
        \/ \E h \in Handlers : Handler(h)

Spec == Init /\ [][Next]_vars

(* Fairness: the operating system runs a thread that can run, and hands a  *)
(* free lock to one that asks for it; timers go off. Zed and the server    *)
(* owe the bridge one thing: each goes on reading its end of the pipe,     *)
(* whatever it is about to write itself. They need not send, nor answer.   *)
Fairness == /\ WF_vars(Stdin) /\ WF_vars(Main)
            /\ \A c \in Callers : WF_vars(pc[c] # "idle" /\ Caller(c))
            /\ WF_vars(ZedRead) /\ WF_vars(SrvRead)

FairSpec == Spec /\ Fairness

-----------------------------------------------------------------------------
TypeOK ==
    /\ owner \in [Locks -> Threads \cup {NoOne}]
    /\ pc \in [Threads -> {"read", "idle", "wantServer", "toServer", "wantZed", "toZed",
                           "dropEntry", "wait", "expired", "lookUp", "remember", "resolve",
                           "look", "done"}]
    /\ left \in [Threads -> 0..FrameParts]
    /\ fromZed \in Seq({"inlay", "message"})
    /\ toServer \in Seq(Parts) /\ Len(toServer) <= PipeCap
    /\ toZed \in Seq(Parts) /\ Len(toZed) <= PipeCap
    /\ toBridge \in Seq(Callers \cup {"ask", "notice"}) /\ Len(toBridge) <= OutCap
    /\ srvPart \in Parts \cup {NoPart} /\ zedPart \in Parts \cup {NoPart}
    /\ pending \subseteq Callers /\ mailbox \subseteq Callers /\ asked \subseteq Callers
    /\ port \in BOOLEAN
    /\ current \in Callers \cup {"ask", "notice"}
    /\ zedSent \in 0..MaxZed /\ srvSent \in 0..MaxSrv
    /\ zedClosed \in BOOLEAN /\ srvUp \in BOOLEAN /\ bridgeUp \in BOOLEAN

(* The lock a thread is blocked on, if any, by where it is.                *)
Wants(t) == CASE pc[t] = "wantServer" -> "serverStdin"
              [] pc[t] = "wantZed" -> "stdout"
              [] pc[t] \in {"dropEntry", "expired", "lookUp"} -> "pending"
              [] pc[t] \in {"remember", "look"} -> "port"
              [] OTHER -> "none"

(* No circular wait: among the threads of the bridge there is never a      *)
(* group in which everyone waits for a lock that somebody of the group     *)
(* holds, whatever has failed or filled up (lsp.rs:30-34, 60-69, 80-93).   *)
NoCircularWait ==
    \A S \in (SUBSET Threads) \ {{}} :
        \E t \in S : Wants(t) = "none" \/ owner[Wants(t)] \notin S

(* What arrives at either end is whole frames: the part behind one that    *)
(* leaves its frame open is the next of the same thread, and behind a last *)
(* part a new frame begins, though several threads write to both pipes and *)
(* may be held up in the middle of a frame (lsp.rs:30-37, 89-92, 141-145,  *)
(* main.rs:171-181).                                                       *)
Follows(p, q) == IF p.part \in {0, FrameParts}
                 THEN q.part = 1
                 ELSE q = [by |-> p.by, part |-> p.part + 1]
Whole(first, pipe) ==
    \A i \in 1..Len(pipe) : Follows(IF i = 1 THEN first ELSE pipe[i - 1], pipe[i])
FramesWhole == Whole(srvPart, toServer) /\ Whole(zedPart, toZed)

(* Every call ends, also one that was blocked on a lock or a full pipe, if *)
(* the server reads its stdin: with an answer, at the timer, or with the   *)
(* bridge (lsp.rs:28-47).                                                  *)
CallsEnd == \A c \in Callers : pc[c] # "idle" ~> (pc[c] = "done" \/ ~bridgeUp)

(* Main always comes back to the server's stdout and routes all there is,  *)
(* although a message may make it wait for two locks, the table and two    *)
(* pipes, and the server or Zed may have died (main.rs:202-214).           *)
MainDrains ==
    (toBridge # <<>> \/ pc["main"] # "read")
        ~> (toBridge = <<>> /\ pc["main"] = "read")

(* Zed's end of stream always ends the server, whatever the stdin thread   *)
(* was blocked on when it came (main.rs:147-166).                          *)
EofReachesServer == zedClosed ~> ~srvUp
=============================================================================
