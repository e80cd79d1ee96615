------------------------------ MODULE LspRouter ------------------------------
(***************************************************************************)
(* The message router of the native bridge: bridge/src/lsp.rs, the stdin   *)
(* thread and main loop of bridge/src/main.rs, and the request threads of  *)
(* bridge/src/http.rs.                                                     *)
(*                                                                         *)
(* Three kinds of thread share the server's stdin, the table of pending     *)
(* requests and the remembered debug port:                                 *)
(*   - the stdin thread copies Zed's messages to the server, answers       *)
(*     inlay hint requests itself and kills the server at Zed's EOF;       *)
(*   - the main thread routes what the server writes;                      *)
(*   - one thread per HTTP connection sends one request to the server and  *)
(*     blocks for its response, at most REQUEST_TIMEOUT.                   *)
(* Zed and the server are environment, as demanding as JSON-RPC lets them: *)
(* they answer a request at most once, or never.                           *)
(*                                                                         *)
(* A stream is a log that only grows and an index of what its reader has   *)
(* taken. A step is one critical section: `server_stdin` is locked around  *)
(* one write, and the guard on `pending` lives to the end of the `if let`  *)
(* body (lsp.rs:60-79), so removing the entry, remembering the port and    *)
(* sending to the caller is one step for everyone else. BridgeThreads      *)
(* looks inside the steps, at locks that are held while a pipe is full.    *)
(***************************************************************************)
EXTENDS Integers, Sequences, FiniteSets

CONSTANTS
    Callers,     \* HTTP connections made to the control endpoint
    Ports,       \* numeric results the server may answer with
    Other,       \* any other result, and any error
    NoResult,    \* the absence of a result or of a port
    EmptyInlay,  \* the result [] of a request answered by the bridge itself
    ProxyPort,   \* dap_proxy_port, where the bridge's DAP proxy listens
    IdBase,      \* ID_BASE
    MaxZed,      \* bound: messages Zed sends of its own
    MaxSrv,      \* bound: requests and notifications the server sends
    MaxTraffic,  \* bound: calls and messages of Zed and the server, together
    PipeCap      \* bound: messages the server's stdin pipe holds

(***************************************************************************)
(* IdBase separates the bridge's ids from Zed's (main.rs:39-40) and from   *)
(* the server's own, which the code takes for granted as well.             *)
(***************************************************************************)
ASSUME RouterAssumption ==
    /\ IdBase \in Nat /\ MaxZed \in Nat /\ MaxSrv \in Nat /\ MaxTraffic \in Nat
    /\ PipeCap \in Nat \ {0}
    /\ MaxZed < IdBase /\ MaxSrv < IdBase
    /\ Ports \subseteq Nat
    /\ ProxyPort \in Nat
    /\ Other \notin Nat /\ NoResult \notin Nat /\ EmptyInlay \notin Nat
    /\ Other # NoResult /\ Other # EmptyInlay /\ NoResult # EmptyInlay
    /\ Callers \cap {"zed", "bridge"} = {}

VARIABLES
    fromZed, stdinRead,    \* Zed's stdout, and what the stdin thread has read
    toServer, srvRead,     \* the server's stdin, and what the server has read
    toBridge, mainRead,    \* the server's stdout, and what main has routed
    toZed,                 \* the bridge's stdout
    zedSent, zedClosed,    \* Zed: messages sent of its own; its pipe is closed
    srvSent, srvUp,        \* server: messages sent of its own; it is running
    stdinThread,           \* "running" or "gone"
    bridgeUp,              \* the bridge process
    nextId,                \* Shared.next_id
    pending,               \* Shared.pending: a set of [id, caller]
    realDapPort,           \* Shared.real_dap_port
    pc, kind, callId,      \* per caller: step, sort of request, its LSP id
    mailbox, outcome       \* per caller: the channel `rx`, the HTTP reply

zedVars  == <<fromZed, zedSent, zedClosed>>
srvVars  == <<srvRead, srvSent, srvUp>>
callVars == <<pc, kind, callId, mailbox, outcome>>
vars == <<zedVars, stdinRead, toServer, srvVars, toBridge, mainRead, toZed,
          stdinThread, bridgeUp, nextId, pending, realDapPort, callVars>>

-----------------------------------------------------------------------------
(* Messages.                                                               *)

Results    == Ports \cup {Other}
AllResults == Results \cup {NoResult, EmptyInlay, ProxyPort}

(* What reaches the server: from Zed, from a caller, or an acknowledgement *)
(* of the bridge. The id of a notification only tells it from the others.  *)
Inbound == [from: Callers \cup {"zed", "bridge"},
            type: {"request", "inlay", "notification", "reply"}, id: Nat]

(* What the server writes. "ask" is a request with a numeric id, "prompt"  *)
(* a window/showMessageRequest with one, "stringAsk" a request of either   *)
(* sort whose id is a string; "malformed" is a frame that is not JSON.     *)
(* `re` is the place in toServer of the request a response answers, which  *)
(* the bridge cannot see: all it has is the id.                            *)
Outbound == [type: {"response", "ask", "prompt", "stringAsk",
                    "notification", "malformed"},
             id: Nat, re: Nat,
             result: AllResults]

ServerOwn == {"ask", "prompt", "stringAsk", "notification", "malformed"}

NoMessage == [type |-> "none", id |-> 0, re |-> 0, result |-> NoResult]
Mailbox   == Outbound \cup {NoMessage}

Tags    == {"none", "rejected", "writeError", "timeout", "aborted", "answered"}
Outcome == [tag: Tags, result: AllResults]

(* msg.get("id").as_u64() is Some *)
NumericId(m) == m.type \in {"response", "ask", "prompt"}

Kinds == {"startDebug", "command"}

PendingRequest == [id: Nat, caller: Callers]

(* The pending table is a HashMap: insert replaces, remove is by key.      *)
Insert(p, n, c) == {e \in p : e.id # n} \cup {[id |-> n, caller |-> c]}
Remove(p, n)    == {e \in p : e.id # n}
(* Mutant: a response that is an error is not matched against the table.   *)
HitsButErrors(m) == {e \in pending : /\ NumericId(m) /\ e.id = m.id
                                     /\ m.result # Other}
Hits(m)         == {e \in pending : NumericId(m) /\ e.id = m.id}

(* Only the numeric result of start_debug_server is rewritten.             *)
(* Mutant: any numeric result is.                                          *)
RewritesAnyCommand(k, r) == r \in Nat
Rewrites(k, r) == k = "startDebug" /\ r \in Nat

(* Mutant: an error of start_debug_server is never sent to its caller.     *)
DeliveredIfPort(k, m) ==
    IF k # "startDebug" THEN m
    ELSE IF m.result \in Nat THEN [m EXCEPT !.result = ProxyPort] ELSE NoMessage
Delivered(k, m) ==
    IF Rewrites(k, m.result) THEN [m EXCEPT !.result = ProxyPort] ELSE m

U16(n) == n \in Nat /\ n < 65536

(* `as u16`. Mutant: the port is kept as the u64 it was parsed to.          *)
RememberedWide(k, r) == IF Rewrites(k, r) THEN r ELSE realDapPort
Remembered(k, r) == IF Rewrites(k, r) THEN r % 65536 ELSE realDapPort

(* The bound on what Zed, the server and the callers start of their own.   *)
Quiet == zedSent + srvSent + Cardinality({c \in Callers : pc[c] # "idle"}) < MaxTraffic

PipeHasRoom == Len(toServer) - srvRead < PipeCap

Reply(tag, r) == [tag |-> tag, result |-> r]

-----------------------------------------------------------------------------
(* AtomicU64::new(ID_BASE). Mutant: ids counted from one, as Zed's are.    *)
FirstIdLow == 1
FirstId == IdBase

Init ==
    /\ fromZed = <<>> /\ zedSent = 0 /\ zedClosed = FALSE
    /\ stdinRead = 0 /\ stdinThread = "running"
    /\ toServer = <<>> /\ srvRead = 0 /\ srvSent = 0 /\ srvUp = TRUE
    /\ toBridge = <<>> /\ mainRead = 0 /\ toZed = <<>>
    /\ bridgeUp = TRUE
    /\ nextId = FirstId /\ pending = {} /\ realDapPort = NoResult
    /\ pc = [c \in Callers |-> "idle"]
    /\ kind = [c \in Callers |-> "command"]
    /\ callId = [c \in Callers |-> 0]
    /\ mailbox = [c \in Callers |-> NoMessage]
    /\ outcome = [c \in Callers |-> Reply("none", NoResult)]

-----------------------------------------------------------------------------
(* Zed (environment).                                                      *)

ZedSend(t) ==
    /\ bridgeUp /\ ~zedClosed /\ zedSent < MaxZed /\ Quiet
    /\ zedSent' = zedSent + 1
    /\ fromZed' = Append(fromZed, [from |-> "zed", type |-> t, id |-> zedSent + 1])
    /\ UNCHANGED <<zedClosed, stdinRead, toServer, srvVars, toBridge, mainRead,
                   toZed, stdinThread, bridgeUp, nextId, pending, realDapPort,
                   callVars>>

(* Zed answers, once, a request it was shown.                              *)
ZedReply(i) ==
    /\ bridgeUp /\ ~zedClosed
    /\ toZed[i].type \in {"ask", "prompt", "stringAsk"}
    /\ \A j \in 1..Len(fromZed) :
          ~(fromZed[j].type = "reply" /\ fromZed[j].id = toZed[i].id)
    /\ fromZed' = Append(fromZed, [from |-> "zed", type |-> "reply", id |-> toZed[i].id])
    /\ UNCHANGED <<zedSent, zedClosed, stdinRead, toServer, srvVars, toBridge,
                   mainRead, toZed, stdinThread, bridgeUp, nextId, pending,
                   realDapPort, callVars>>

ZedClose ==
    /\ bridgeUp /\ ~zedClosed
    /\ zedClosed' = TRUE
    /\ UNCHANGED <<fromZed, zedSent, stdinRead, toServer, srvVars, toBridge,
                   mainRead, toZed, stdinThread, bridgeUp, nextId, pending,
                   realDapPort, callVars>>

-----------------------------------------------------------------------------
(* The stdin thread.                                                       *)

StdinHasNext == /\ bridgeUp /\ stdinThread = "running"
                /\ stdinRead < Len(fromZed)
NextFromZed  == fromZed[stdinRead + 1]

Intercepted(m) == m.type = "inlay"

StdinIntercept ==
    /\ StdinHasNext /\ Intercepted(NextFromZed)
    /\ stdinRead' = stdinRead + 1
    /\ toZed' = Append(toZed, [type |-> "response", id |-> NextFromZed.id,
                               re |-> 0, result |-> EmptyInlay])
    /\ UNCHANGED <<zedVars, toServer, srvVars, toBridge, mainRead, stdinThread, bridgeUp,
                   nextId, pending, realDapPort, callVars>>

StdinForward ==
    /\ StdinHasNext /\ ~Intercepted(NextFromZed)
    /\ srvUp /\ PipeHasRoom
    /\ stdinRead' = stdinRead + 1
    /\ toServer' = Append(toServer, NextFromZed)
    /\ UNCHANGED <<zedVars, srvVars, toBridge, mainRead, toZed, stdinThread,
                   bridgeUp, nextId, pending, realDapPort, callVars>>

(* A failed write ends the thread.                                         *)
StdinBroken ==
    /\ StdinHasNext /\ ~Intercepted(NextFromZed)
    /\ ~srvUp
    /\ stdinThread' = "gone"
    /\ UNCHANGED <<zedVars, stdinRead, toServer, srvVars, toBridge, mainRead,
                   toZed, bridgeUp, nextId, pending, realDapPort, callVars>>

(* EOF from Zed: kill the server.                                          *)
StdinEof ==
    /\ bridgeUp /\ stdinThread = "running"
    /\ zedClosed /\ stdinRead = Len(fromZed)
    /\ srvUp' = FALSE
    /\ stdinThread' = "gone"
    /\ UNCHANGED <<zedVars, stdinRead, toServer, srvRead, srvSent, toBridge,
                   mainRead, toZed, bridgeUp, nextId, pending, realDapPort,
                   callVars>>

-----------------------------------------------------------------------------
(* HTTP connections: handle_connection and send_lsp_request.               *)

(* The body is not JSON: answered without reaching the server.             *)
HttpReject(c) ==
    /\ bridgeUp /\ pc[c] = "idle" /\ Quiet
    /\ pc' = [pc EXCEPT ![c] = "done"]
    /\ outcome' = [outcome EXCEPT ![c] = Reply("rejected", NoResult)]
    /\ UNCHANGED <<zedVars, stdinRead, toServer, srvVars, toBridge, mainRead,
                   toZed, stdinThread, bridgeUp, nextId, pending, realDapPort,
                   kind, callId, mailbox>>

(* next_id.fetch_add(1): the caller takes nextId. Mutant: a load.           *)
IdLoaded(n) == n
IdAfter(n) == n + 1

HttpAccept(c, k) ==
    /\ bridgeUp /\ pc[c] = "idle" /\ Quiet
    /\ pc' = [pc EXCEPT ![c] = "register"]
    /\ kind' = [kind EXCEPT ![c] = k]
    /\ callId' = [callId EXCEPT ![c] = nextId]
    /\ nextId' = IdAfter(nextId)
    /\ UNCHANGED <<zedVars, stdinRead, toServer, srvVars, toBridge, mainRead,
                   toZed, stdinThread, bridgeUp, pending, realDapPort, mailbox,
                   outcome>>

InsertPending(c) ==
    /\ bridgeUp /\ pc[c] = "register"
    /\ pc' = [pc EXCEPT ![c] = "write"]
    /\ pending' = Insert(pending, callId[c], c)
    /\ UNCHANGED <<zedVars, stdinRead, toServer, srvVars, toBridge, mainRead,
                   toZed, stdinThread, bridgeUp, nextId, realDapPort, kind,
                   callId, mailbox, outcome>>

WriteRequest(c) ==
    /\ bridgeUp /\ pc[c] = "write"
    /\ srvUp /\ PipeHasRoom
    /\ pc' = [pc EXCEPT ![c] = "wait"]
    /\ toServer' = Append(toServer, [from |-> c, type |-> "request",
                                     id |-> callId[c]])
    /\ UNCHANGED <<zedVars, stdinRead, srvVars, toBridge, mainRead, toZed,
                   stdinThread, bridgeUp, nextId, pending, realDapPort, kind,
                   callId, mailbox, outcome>>

(* The pipe is broken: the entry is removed again.                         *)
WriteFails(c) ==
    /\ bridgeUp /\ pc[c] = "write"
    /\ ~srvUp
    /\ pc' = [pc EXCEPT ![c] = "done"]
    /\ outcome' = [outcome EXCEPT ![c] = Reply("writeError", NoResult)]
    /\ pending' = Remove(pending, callId[c])
    /\ UNCHANGED <<zedVars, stdinRead, toServer, srvVars, toBridge, mainRead,
                   toZed, stdinThread, bridgeUp, nextId, realDapPort, kind,
                   callId, mailbox>>

Receive(c) ==
    /\ bridgeUp /\ pc[c] = "wait"
    /\ mailbox[c] # NoMessage
    /\ pc' = [pc EXCEPT ![c] = "done"]
    /\ outcome' = [outcome EXCEPT ![c] = Reply("answered", mailbox[c].result)]
    /\ UNCHANGED <<zedVars, stdinRead, toServer, srvVars, toBridge, mainRead,
                   toZed, stdinThread, bridgeUp, nextId, pending, realDapPort,
                   kind, callId, mailbox>>

(* recv_timeout gives up while the channel is empty; the entry is still    *)
(* there until the caller gets hold of the table.                          *)
Timeout(c) ==
    /\ bridgeUp /\ pc[c] = "wait"
    /\ mailbox[c] = NoMessage
    /\ pc' = [pc EXCEPT ![c] = "expired"]
    /\ UNCHANGED <<zedVars, stdinRead, toServer, srvVars, toBridge, mainRead,
                   toZed, stdinThread, bridgeUp, nextId, pending, realDapPort,
                   kind, callId, mailbox, outcome>>

(* Mutant: the entry of a call that timed out stays in the table.          *)
RemoveExpiredKeeps(c) ==
    /\ bridgeUp /\ pc[c] = "expired"
    /\ pc' = [pc EXCEPT ![c] = "done"]
    /\ outcome' = [outcome EXCEPT ![c] = Reply("timeout", NoResult)]
    /\ UNCHANGED <<zedVars, stdinRead, toServer, srvVars, toBridge, mainRead,
                   toZed, stdinThread, bridgeUp, nextId, pending, realDapPort,
                   kind, callId, mailbox>>

RemoveExpired(c) ==
    /\ bridgeUp /\ pc[c] = "expired"
    /\ pc' = [pc EXCEPT ![c] = "done"]
    /\ outcome' = [outcome EXCEPT ![c] = Reply("timeout", NoResult)]
    /\ pending' = Remove(pending, callId[c])
    /\ UNCHANGED <<zedVars, stdinRead, toServer, srvVars, toBridge, mainRead,
                   toZed, stdinThread, bridgeUp, nextId, realDapPort, kind,
                   callId, mailbox>>

-----------------------------------------------------------------------------
(* The main thread: handle_server_message on the next frame.               *)

MainHasNext == bridgeUp /\ mainRead < Len(toBridge)
NextFromServer == toBridge[mainRead + 1]

RouteMalformed ==
    /\ MainHasNext /\ NextFromServer.type = "malformed"
    /\ mainRead' = mainRead + 1
    /\ UNCHANGED <<zedVars, stdinRead, toServer, srvVars, toBridge, toZed,
                   stdinThread, bridgeUp, nextId, pending, realDapPort,
                   callVars>>

(* The id is pending: whatever the message is, it goes to the caller.      *)
RouteResolve ==
    /\ MainHasNext
    /\ \E e \in Hits(NextFromServer) :
          /\ mainRead' = mainRead + 1
          /\ pending' = Remove(pending, e.id)
          /\ realDapPort' = Remembered(kind[e.caller], NextFromServer.result)
          /\ mailbox' = [mailbox EXCEPT ![e.caller] =
                            Delivered(kind[e.caller], NextFromServer)]
    /\ UNCHANGED <<zedVars, stdinRead, toServer, srvVars, toBridge, toZed,
                   stdinThread, bridgeUp, nextId, pc, kind, callId, outcome>>

(* A server request other than a prompt is acknowledged with null; a write *)
(* to a dead server is ignored. Mutant: prompts are acknowledged as well.   *)
AcknowledgedAll(m) == m.type \in {"ask", "prompt"}
Acknowledged(m) == m.type = "ask"

RouteAck ==
    /\ MainHasNext
    /\ Hits(NextFromServer) = {} /\ Acknowledged(NextFromServer)
    /\ mainRead' = mainRead + 1
    /\ \/ /\ srvUp /\ PipeHasRoom
          /\ toServer' = Append(toServer, [from |-> "bridge", type |-> "reply",
                                           id |-> NextFromServer.id])
       \/ ~srvUp /\ toServer' = toServer
    /\ UNCHANGED <<zedVars, stdinRead, srvVars, toBridge, toZed, stdinThread,
                   bridgeUp, nextId, pending, realDapPort, callVars>>

RouteForward ==
    /\ MainHasNext
    /\ Hits(NextFromServer) = {} /\ ~Acknowledged(NextFromServer)
    /\ NextFromServer.type # "malformed"
    /\ mainRead' = mainRead + 1
    /\ toZed' = Append(toZed, NextFromServer)
    /\ UNCHANGED <<zedVars, stdinRead, toServer, srvVars, toBridge, stdinThread,
                   bridgeUp, nextId, pending, realDapPort, callVars>>

(* The server's stdout is at its end: exit(0) takes every thread with it,  *)
(* and an HTTP caller still waiting sees its connection close.             *)
MainExit ==
    /\ bridgeUp /\ ~srvUp /\ mainRead = Len(toBridge)
    /\ bridgeUp' = FALSE
    /\ stdinThread' = "gone"
    /\ pc' = [c \in Callers |-> IF pc[c] = "idle" THEN "idle" ELSE "done"]
    /\ outcome' = [c \in Callers |-> IF pc[c] \in {"idle", "done"} THEN outcome[c]
                                     ELSE Reply("aborted", NoResult)]
    /\ UNCHANGED <<zedVars, stdinRead, toServer, srvVars, toBridge, mainRead,
                   toZed, nextId, pending, realDapPort, kind, callId, mailbox>>

-----------------------------------------------------------------------------
(* The language server (environment).                                      *)

SrvRead ==
    /\ srvUp /\ srvRead < Len(toServer)
    /\ srvRead' = srvRead + 1
    /\ UNCHANGED <<zedVars, stdinRead, toServer, srvSent, srvUp, toBridge,
                   mainRead, toZed, stdinThread, bridgeUp, nextId, pending,
                   realDapPort, callVars>>

Answered(i) == \E j \in 1..Len(toBridge) :
                  toBridge[j].type = "response" /\ toBridge[j].re = i

(* The server answers a request it has read, in any order, at most once.   *)
SrvAnswer(i, r) ==
    /\ srvUp /\ i <= srvRead
    /\ toServer[i].type \in {"request", "inlay"}
    /\ ~Answered(i)
    /\ toServer[i].from = "zed" => r = Other
    /\ toBridge' = Append(toBridge, [type |-> "response", id |-> toServer[i].id,
                                     re |-> i, result |-> r])
    /\ UNCHANGED <<zedVars, stdinRead, toServer, srvVars, mainRead, toZed,
                   stdinThread, bridgeUp, nextId, pending, realDapPort,
                   callVars>>

SrvSend(t) ==
    /\ srvUp /\ srvSent < MaxSrv /\ Quiet
    /\ srvSent' = srvSent + 1
    /\ toBridge' = Append(toBridge, [type |-> t, id |-> srvSent + 1,
                                     re |-> 0, result |-> NoResult])
    /\ UNCHANGED <<zedVars, stdinRead, toServer, srvRead, srvUp, mainRead, toZed,
                   stdinThread, bridgeUp, nextId, pending, realDapPort,
                   callVars>>

(* The server exits or crashes.                                            *)
SrvStop ==
    /\ srvUp
    /\ srvUp' = FALSE
    /\ UNCHANGED <<zedVars, stdinRead, toServer, srvRead, srvSent, toBridge,
                   mainRead, toZed, stdinThread, bridgeUp, nextId, pending,
                   realDapPort, callVars>>

-----------------------------------------------------------------------------
Zed == \/ \E t \in {"request", "inlay", "notification"} : ZedSend(t)
       \/ \E i \in 1..Len(toZed) : ZedReply(i)
       \/ ZedClose

Stdin == StdinIntercept \/ StdinForward \/ StdinBroken \/ StdinEof

Http(c) == \/ HttpReject(c)
           \/ \E k \in Kinds : HttpAccept(c, k)
           \/ InsertPending(c) \/ WriteRequest(c) \/ WriteFails(c)
           \/ Receive(c) \/ Timeout(c) \/ RemoveExpired(c)

Main == RouteMalformed \/ RouteResolve \/ RouteAck \/ RouteForward \/ MainExit

Server == \/ SrvRead
          \/ \E i \in 1..Len(toServer), r \in Results : SrvAnswer(i, r)
          \/ \E t \in ServerOwn : SrvSend(t)
          \/ SrvStop

Next == Zed \/ Stdin \/ (\E c \in Callers : Http(c)) \/ Main \/ Server

Spec == Init /\ [][Next]_vars

-----------------------------------------------------------------------------
(* Type invariant: every variable has its type; in particular the          *)
(* remembered port fits the u16 it is stored in.                           *)
TypeOK ==
    /\ fromZed \in Seq(Inbound) /\ toServer \in Seq(Inbound)
    /\ toBridge \in Seq(Outbound) /\ toZed \in Seq(Outbound)
    /\ stdinRead \in 0..Len(fromZed)
    /\ srvRead \in 0..Len(toServer)
    /\ mainRead \in 0..Len(toBridge)
    /\ zedSent \in 0..MaxZed /\ srvSent \in 0..MaxSrv
    /\ zedClosed \in BOOLEAN /\ srvUp \in BOOLEAN /\ bridgeUp \in BOOLEAN
    /\ stdinThread \in {"running", "gone"}
    /\ nextId \in Nat
    /\ pending \subseteq PendingRequest
    /\ realDapPort = NoResult \/ U16(realDapPort)
    /\ pc \in [Callers -> {"idle", "register", "write", "wait", "expired", "done"}]
    /\ kind \in [Callers -> Kinds]
    /\ callId \in [Callers -> Nat]
    /\ mailbox \in [Callers -> Mailbox]
    /\ outcome \in [Callers -> Outcome]

-----------------------------------------------------------------------------
(* Safety.                                                                 *)

RequesterOf(m) == toServer[m.re].from

(* An HTTP caller that is answered gets the server's response to its own   *)
(* request, whatever else was in flight, and only the numeric result of    *)
(* start_debug_server is replaced by the proxy's port (lsp.rs:58-79).      *)
Correlation ==
    \A c \in Callers : outcome[c].tag = "answered" =>
        \E j \in 1..mainRead :
            /\ toBridge[j].type = "response" /\ RequesterOf(toBridge[j]) = c
            /\ outcome[c].result =
                  IF kind[c] = "startDebug" /\ toBridge[j].result \in Nat
                  THEN ProxyPort ELSE toBridge[j].result

(* A blocked caller can still be woken: either its entry is in the table   *)
(* or its message is in its channel, never neither and never both          *)
(* (lsp.rs:20-28 registers before it writes; 60-79 removes and sends).     *)
WaiterIsReachable ==
    \A c \in Callers : bridgeUp /\ pc[c] = "wait" =>
        ((mailbox[c] = NoMessage) <=> ([id |-> callId[c], caller |-> c] \in pending))

(* The table holds only calls in flight, under the id each was given: every *)
(* way out of send_lsp_request leaves it clean.                            *)
NoPendingLeak ==
    bridgeUp => \A e \in pending : /\ e.id = callId[e.caller]
                                   /\ pc[e.caller] \in {"write", "wait", "expired"}

(* The table is exactly the calls that wait or are about to: nobody it     *)
(* should hold is missing from it, and nobody stays in it (lsp.rs:20-47).  *)
PendingIsExact == WaiterIsReachable /\ NoPendingLeak

(* The response to a call of the bridge's own shows up at Zed only when    *)
(* that call has timed out: nothing else loses a caller (lsp.rs:58-101).   *)
StrayOnlyAfterTimeout ==
    \A i \in 1..Len(toZed) :
        LET m == toZed[i] IN
        m.type = "response" /\ m.re # 0 /\ RequesterOf(m) \in Callers
            => outcome[RequesterOf(m)].tag = "timeout"

(* Zed never gets two responses to one of its requests, whether main and   *)
(* the stdin thread both had a hand in it, nor one it did not ask for under *)
(* an id it uses (main.rs:39-41, 170-176).                                 *)
ZedAnsweredOnce ==
    \A n \in 1..MaxZed :
        LET Answers == {i \in 1..Len(toZed) :
                           toZed[i].type = "response" /\ toZed[i].id = n}
        IN  /\ \A i, j \in Answers : i = j
            /\ Answers # {} => \E k \in 1..stdinRead :
                   /\ fromZed[k].id = n
                   /\ fromZed[k].type \in {"request", "inlay"}

(* Each request of the server that main has handled is settled by exactly  *)
(* one side: an ordinary one by the bridge's null, unless the server died, *)
(* and never by Zed; a prompt by Zed alone, which is shown it once          *)
(* (lsp.rs:78-95).                                                         *)
AskSettledOnce ==
    \A j \in 1..mainRead :
        LET m == toBridge[j]
            Shown   == {i \in 1..Len(toZed) : toZed[i] = m}
            Replies == {i \in 1..Len(toServer) : /\ toServer[i].type = "reply"
                                                 /\ toServer[i].id = m.id}
        IN  /\ m.type = "ask" =>
                  /\ Shown = {}
                  /\ \A i \in Replies : toServer[i].from = "bridge"
                  /\ Cardinality(Replies) = 1 \/ (Replies = {} /\ ~srvUp)
            /\ m.type \in {"prompt", "stringAsk"} =>
                  /\ Cardinality(Shown) = 1
                  /\ \A i \in Replies : toServer[i].from = "zed"
                  /\ Cardinality(Replies) <= 1

(* Every request that crosses the bridge, in either direction, is settled  *)
(* once and by the right party, whichever threads had a hand in it.        *)
SettledOnce == ZedAnsweredOnce /\ AskSettledOnce

(* The remembered port comes from an answer to start_debug_server and from *)
(* nothing else, and it is there before any caller is told to connect to   *)
(* the proxy (lsp.rs:64-74).                                               *)
PortBeforeAnswer ==
    /\ realDapPort # NoResult =>
          \E j \in 1..mainRead :
              /\ toBridge[j].type = "response"
              /\ RequesterOf(toBridge[j]) \in Callers
              /\ kind[RequesterOf(toBridge[j])] = "startDebug"
              /\ toBridge[j].result \in Nat
              /\ realDapPort = toBridge[j].result % 65536
    /\ \A c \in Callers :
          /\ outcome[c].tag = "answered" /\ kind[c] = "startDebug"
          /\ outcome[c].result = ProxyPort
          => realDapPort # NoResult

-----------------------------------------------------------------------------
(* The abstract specification the router implements.                       *)

ResponsesTo(c) == {j \in 1..Len(toBridge) : /\ toBridge[j].type = "response"
                                            /\ RequesterOf(toBridge[j]) = c}

callOf  == [c \in Callers |-> CASE pc[c] = "idle" -> "new"
                               [] pc[c] = "done" -> "closed"
                               [] OTHER          -> "open"]
givenTo == [c \in Callers |-> IF ResponsesTo(c) = {} THEN NoResult
                              ELSE toBridge[CHOOSE j \in ResponsesTo(c) : TRUE].result]

Contract == INSTANCE ControlContract
                WITH call <- callOf, sort <- kind, given <- givenTo, reply <- outcome

(* The router, seen by its HTTP callers, is the contract: ids, the pending *)
(* table, channels and the order of events make no difference to what a    *)
(* caller can be told (lsp.rs:12-102, http.rs:71-90).                      *)
ContractHolds == Contract!Spec

=============================================================================
