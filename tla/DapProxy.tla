------------------------------ MODULE DapProxy ------------------------------
(***************************************************************************)
(* The debug adapter proxy of the bridge (bridge/src/dap.rs), with the     *)
(* part of the router that tells it where to connect (lsp.rs:65-76).       *)
(*                                                                         *)
(* A debug session is a start_debug_server request of the extension, which *)
(* makes the server open a debug adapter on a port of its own, then a      *)
(* connection of Zed to the proxy. Every session is answered with the same *)
(* port, the proxy's: which adapter a connection is for is not in the      *)
(* connection, but in real_dap_port, one cell for the whole bridge.        *)
(*                                                                         *)
(* One handler and one forwarder thread serve a connection: the handler    *)
(* polls for the port, connects, copies frames from the adapter to Zed,    *)
(* and at the end joins the forwarder, which copies bytes from Zed to the  *)
(* adapter.                                                                *)
(*                                                                         *)
(* A chunk read from the adapter is the frames it completes. An adapter    *)
(* and its port carry the name of the session they were started for.       *)
(***************************************************************************)
EXTENDS Integers, Sequences, FiniteSetsExt

CONSTANTS
    Sessions,   \* debug sessions, and the adapters started for them
    None,       \* no port remembered, no connection made
    Talkers,    \* bound: sessions whose ends exchange anything
    MaxTraffic  \* bound: messages they have sent, in all

ASSUME DapAssumption ==
    /\ None \notin Sessions
    /\ Talkers \subseteq Sessions /\ MaxTraffic \in Nat

VARIABLES
    realPort,    \* Shared.real_dap_port: None or the adapter of a session
    routing,     \* the session whose response the main thread is routing
    answered,    \* sessions whose start_debug_server has been answered
    up,          \* adapters that run and accept connections
    pc, target,  \* per connection: step of the handler, adapter connected to
    late,        \* per connection: the deadline has passed, while it polls
    forwarder,   \* per connection: "none", "running" or "gone"
    clientOpen,  \* per connection: Zed's end of it
    sent, taken, \* per connection: frames the adapter sent, and how many are read
    held,        \* per connection: frames in the FrameReader
    toClient,    \* per connection: frames Zed has been sent
    asked, fwd,  \* per connection: messages Zed sent, and how many are read
    toAdapter,   \* per connection: messages the adapter has been sent
    crossed      \* history: sessions whose client connected before the answer,
                 \* or that another one overtook before their port was read

routeVars == <<realPort, routing, answered, crossed>>
downVars  == <<sent, taken, held, toClient>>
upVars    == <<forwarder, asked, fwd, toAdapter>>
vars == <<routeVars, up, pc, target, late, clientOpen, downVars, upVars>>

(* A stackTrace response carries file:// URIs, other frames no path.       *)
Paths  == {"uri", "abs", "none"}
Frames == [n: Nat, path: Paths]

Piping(s) == pc[s] \in {"piping", "forwarding", "joining"}

Init ==
    /\ realPort = None /\ routing = None /\ answered = {} /\ up = {}
    /\ crossed = {}
    /\ pc = [s \in Sessions |-> "none"]
    /\ target = [s \in Sessions |-> None]
    /\ late = [s \in Sessions |-> FALSE]
    /\ forwarder = [s \in Sessions |-> "none"]
    /\ clientOpen = [s \in Sessions |-> FALSE]
    /\ sent = [s \in Sessions |-> <<>>]
    /\ taken = [s \in Sessions |-> 0]
    /\ held = [s \in Sessions |-> <<>>]
    /\ toClient = [s \in Sessions |-> <<>>]
    /\ asked = [s \in Sessions |-> <<>>]
    /\ fwd = [s \in Sessions |-> 0]
    /\ toAdapter = [s \in Sessions |-> <<>>]

-----------------------------------------------------------------------------
(* The router: the response of start_debug_server.                         *)

Started(s) == s = routing \/ s \in answered
PortUnread == {s \in Sessions : Started(s) /\ pc[s] \in {"none", "polling", "missed"}}

(* `*real_dap_port = Some(real)`. Mutant: the first port is kept.          *)
FirstKept(s)  == IF realPort = None THEN s ELSE realPort
Remembered(s) == s

(* The main thread reads a response with a port and remembers it ...       *)
RouteRemember(s) ==
    /\ routing = None /\ ~Started(s)
    /\ routing' = s
    /\ up' = up \cup {s}
    /\ realPort' = Remembered(s)
    /\ crossed' = crossed \cup PortUnread
    /\ UNCHANGED <<answered, pc, target, late, clientOpen, downVars, upVars>>

(* ... before it sends the proxy's port to the caller.                     *)
RouteAnswer(s) ==
    /\ routing = s
    /\ routing' = None
    /\ answered' = answered \cup {s}
    /\ UNCHANGED <<realPort, crossed, up, pc, target, late, clientOpen, downVars, upVars>>

-----------------------------------------------------------------------------
(* The handler: poll for the port, at most 60 s.                           *)

Goto(s, label) == pc' = [pc EXCEPT ![s] = label]

(* The handler returns: both sockets close and nothing of the connection   *)
(* is left.                                                                *)
Return(s) ==
    /\ Goto(s, "gone")
    /\ clientOpen' = [clientOpen EXCEPT ![s] = FALSE]
    /\ forwarder' = [forwarder EXCEPT ![s] = "gone"]
    /\ sent' = [sent EXCEPT ![s] = <<>>] /\ taken' = [taken EXCEPT ![s] = 0]
    /\ held' = [held EXCEPT ![s] = <<>>] /\ toClient' = [toClient EXCEPT ![s] = <<>>]
    /\ asked' = [asked EXCEPT ![s] = <<>>] /\ fwd' = [fwd EXCEPT ![s] = 0]
    /\ toAdapter' = [toAdapter EXCEPT ![s] = <<>>]

(* listener.incoming(): a client connects, its handler starts. The proxy's *)
(* port is the same for every session, so a client may know it too early.  *)
Accept(s) ==
    /\ pc[s] = "none"
    /\ Goto(s, "polling")
    /\ clientOpen' = [clientOpen EXCEPT ![s] = TRUE]
    /\ crossed' = crossed \cup ({s} \ answered)
    /\ UNCHANGED <<realPort, routing, answered, up, target, late, downVars, upVars>>

PollSees(s) ==
    /\ pc[s] = "polling" /\ realPort # None
    /\ Goto(s, "connecting")
    /\ target' = [target EXCEPT ![s] = realPort]
    /\ late' = [late EXCEPT ![s] = FALSE]
    /\ UNCHANGED <<routeVars, up, clientOpen, downVars, upVars>>

PollMisses(s) ==
    /\ pc[s] = "polling" /\ realPort = None
    /\ Goto(s, "missed")
    /\ UNCHANGED <<routeVars, up, target, late, clientOpen, downVars, upVars>>

(* The deadline is tested after the miss, whatever was stored meanwhile.   *)
Expired(s) == late[s]

GiveUpOrSleep(s) ==
    /\ pc[s] = "missed"
    /\ IF Expired(s) THEN Return(s)
       ELSE Goto(s, "polling") /\ UNCHANGED <<clientOpen, downVars, upVars>>
    /\ late' = [late EXCEPT ![s] = @ /\ ~Expired(s)]
    /\ UNCHANGED <<routeVars, up, target>>

Deadline(s) ==
    /\ pc[s] \in {"polling", "missed"} /\ ~late[s]
    /\ late' = [late EXCEPT ![s] = TRUE]
    /\ UNCHANGED <<routeVars, up, pc, target, clientOpen, downVars, upVars>>

Connect(s) ==
    /\ pc[s] = "connecting"
    /\ IF target[s] \in up
       THEN /\ Goto(s, "piping")
            /\ forwarder' = [forwarder EXCEPT ![s] = "running"]
            /\ UNCHANGED <<clientOpen, downVars, asked, fwd, toAdapter>>
       ELSE Return(s)
    /\ UNCHANGED <<routeVars, up, target, late>>

-----------------------------------------------------------------------------
(* The handler: adapter to Zed.                                            *)

(* rewrite_stack_trace. Mutant: the paths of a stackTrace only lose their  *)
(* file:/// prefix.                                                        *)
PathsRelative(f) == IF f.path = "uri" THEN [f EXCEPT !.path = "rel"] ELSE f
RewriteStackTrace(f) == IF f.path = "uri" THEN [f EXCEPT !.path = "abs"] ELSE f

(* A read returns what completes k frames.                                 *)
ReadFrames(s, k) ==
    /\ pc[s] = "piping"
    /\ taken[s] + k <= Len(sent[s])
    /\ taken' = [taken EXCEPT ![s] = @ + k]
    /\ held' = [held EXCEPT ![s] = @ \o SubSeq(sent[s], taken[s] + 1, taken[s] + k)]
    /\ Goto(s, "forwarding")
    /\ UNCHANGED <<routeVars, up, target, late, clientOpen, sent, toClient, upVars>>

(* `while let Some(body)`: mutant, `if let`.                               *)
OneFrameForwarded(s) == "piping"
AfterFrame(s) == IF Len(held[s]) = 1 THEN "piping" ELSE "forwarding"

(* next_frame, rewrite and write. A write to a client that has gone may    *)
(* still succeed; when it fails only the inner loop is left.               *)
ForwardFrame(s) ==
    /\ pc[s] = "forwarding"
    /\ held' = [held EXCEPT ![s] = Tail(@)]
    /\ IF clientOpen[s]
       THEN /\ toClient' = [toClient EXCEPT ![s] = Append(@, RewriteStackTrace(Head(held[s])))]
            /\ Goto(s, AfterFrame(s))
       ELSE /\ UNCHANGED toClient
            /\ \/ Goto(s, "piping")
               \/ Goto(s, AfterFrame(s))
    /\ UNCHANGED <<routeVars, up, target, late, clientOpen, sent, taken, upVars>>

(* The adapter has closed; a reset may cost what was not read.             *)
ReadEof(s) ==
    /\ pc[s] = "piping" /\ target[s] \notin up
    /\ Goto(s, "joining")
    /\ UNCHANGED <<routeVars, up, target, late, clientOpen, downVars, upVars>>

(* forwarder.join().                                                       *)
Join(s) ==
    /\ pc[s] = "joining" /\ forwarder[s] = "gone"
    /\ Return(s)
    /\ UNCHANGED <<routeVars, up, target, late>>

-----------------------------------------------------------------------------
(* The forwarder: Zed to adapter.                                          *)

(* `&buf[..n]`. Mutant: the whole buffer, with what was read before.       *)
WholeBuffer(q, n) == SubSeq(q, 1, n)
Chunk(q, n) == <<q[n]>>

(* A write to an adapter that has closed fails, or is lost.                *)
Forward(s) ==
    /\ forwarder[s] = "running" /\ fwd[s] < Len(asked[s])
    /\ fwd' = [fwd EXCEPT ![s] = @ + 1]
    /\ IF target[s] \in up
       THEN /\ toAdapter' = [toAdapter EXCEPT ![s] = @ \o Chunk(asked[s], fwd'[s])]
            /\ UNCHANGED forwarder
       ELSE /\ \/ forwarder' = [forwarder EXCEPT ![s] = "gone"]
               \/ UNCHANGED forwarder
            /\ UNCHANGED toAdapter
    /\ UNCHANGED <<routeVars, up, pc, target, late, clientOpen, downVars, asked>>

(* Mutant: read returning 0 does not end the thread.                       *)
NeverEof(s) == FALSE
SeesEof(s) == ~clientOpen[s]

(* Zed has closed; a reset may cost what was not read.                     *)
ForwardEof(s) ==
    /\ forwarder[s] = "running" /\ SeesEof(s)
    /\ forwarder' = [forwarder EXCEPT ![s] = "gone"]
    /\ UNCHANGED <<routeVars, up, pc, target, late, clientOpen, downVars, asked, fwd, toAdapter>>

-----------------------------------------------------------------------------
(* Zed and the adapters (environment).                                     *)

MayTalk(s) ==
    /\ s \in Talkers
    /\ MapThenSumSet(LAMBDA t : Len(sent[t]) + Len(asked[t]), Talkers) < MaxTraffic

ZedSends(s) ==
    /\ clientOpen[s] /\ MayTalk(s)
    /\ asked' = [asked EXCEPT ![s] = Append(@, Len(@) + 1)]
    /\ UNCHANGED <<routeVars, up, pc, target, late, clientOpen, downVars,
                   forwarder, fwd, toAdapter>>

ZedDisconnects(s) ==
    /\ clientOpen[s]
    /\ clientOpen' = [clientOpen EXCEPT ![s] = FALSE]
    /\ UNCHANGED <<routeVars, up, pc, target, late, downVars, upVars>>

(* Bound: every other frame of an adapter is a stackTrace response.        *)
FrameAfter(q) == [n |-> Len(q) + 1, path |-> IF Len(q) % 2 = 0 THEN "uri" ELSE "none"]

AdapterSends(s) ==
    /\ Piping(s) /\ target[s] \in up /\ MayTalk(s)
    /\ sent' = [sent EXCEPT ![s] = Append(@, FrameAfter(@))]
    /\ UNCHANGED <<routeVars, up, pc, target, late, clientOpen, taken, held, toClient, upVars>>

(* The debugged program has ended, or the adapter failed.                  *)
AdapterEnds(a) ==
    /\ a \in up
    /\ up' = up \ {a}
    /\ UNCHANGED <<routeVars, pc, target, late, clientOpen, downVars, upVars>>

-----------------------------------------------------------------------------
Handler(s) == \/ PollSees(s) \/ PollMisses(s) \/ GiveUpOrSleep(s) \/ Connect(s)
              \/ \E k \in 1..MaxTraffic : ReadFrames(s, k)
              \/ ForwardFrame(s) \/ ReadEof(s) \/ Join(s)

Forwarder(s) == Forward(s) \/ ForwardEof(s)

Next == \E s \in Sessions :
            \/ RouteRemember(s) \/ RouteAnswer(s) \/ Accept(s)
            \/ Handler(s) \/ Forwarder(s) \/ Deadline(s)
            \/ ZedSends(s) \/ ZedDisconnects(s)
            \/ AdapterSends(s) \/ AdapterEnds(s)

Spec == Init /\ [][Next]_vars

(* The threads of the proxy run and time passes. Nothing is asked of Zed   *)
(* or of the adapters.                                                     *)
FairSpec == Spec /\ \A s \in Sessions : /\ WF_vars(Handler(s)) /\ WF_vars(Forwarder(s))
                                        /\ WF_vars(Deadline(s))

-----------------------------------------------------------------------------
(* Type invariant.                                                         *)
TypeOK ==
    /\ realPort \in Sessions \cup {None} /\ routing \in Sessions \cup {None}
    /\ answered \subseteq Sessions /\ up \subseteq Sessions /\ crossed \subseteq Sessions
    /\ pc \in [Sessions -> {"none", "polling", "missed", "connecting", "piping",
                            "forwarding", "joining", "gone"}]
    /\ target \in [Sessions -> Sessions \cup {None}]
    /\ late \in [Sessions -> BOOLEAN]
    /\ forwarder \in [Sessions -> {"none", "running", "gone"}]
    /\ clientOpen \in [Sessions -> BOOLEAN]
    /\ sent \in [Sessions -> Seq(Frames)] /\ taken \in [Sessions -> Nat]
    /\ held \in [Sessions -> Seq(Frames)] /\ toClient \in [Sessions -> Seq(Frames)]
    /\ fwd \in [Sessions -> Nat]
    /\ asked \in [Sessions -> Seq(Nat)] /\ toAdapter \in [Sessions -> Seq(Nat)]

-----------------------------------------------------------------------------
(* Safety.                                                                 *)

(* A connection is piped to the adapter that was started for it, although  *)
(* all are given the same port and one cell remembers one adapter          *)
(* (lsp.rs:61-76, dap.rs:28-43), unless its client came before its answer  *)
(* or another session was started before its handler read the cell.        *)
OwnAdapter == \A s \in Sessions : target[s] # None /\ s \notin crossed => target[s] = s

(* Each end receives what the other sent, in order, none lost before a     *)
(* later one and none twice, over any chunks; towards Zed every path is    *)
(* made absolute (dap.rs:45-80).                                           *)
StreamsInOrder ==
    \A s \in Sessions :
        /\ \A i \in 1..Len(toClient[s]) :
              /\ toClient[s][i].n = i
              /\ sent[s][i].path = "none" <=> toClient[s][i].path = "none"
              /\ toClient[s][i].path # "uri"
        /\ Len(toAdapter[s]) <= Len(asked[s])
        /\ \A i \in 1..Len(toAdapter[s]) : toAdapter[s][i] = asked[s][i]

-----------------------------------------------------------------------------
(* Liveness.                                                               *)

(* A frame is not kept back until the adapter sends another one.           *)
FramesDelivered ==
    \A s \in Talkers : \A n \in 1..MaxTraffic :
        Len(sent[s]) >= n ~> (Len(toClient[s]) >= n \/ ~clientOpen[s] \/ target[s] \notin up)

(* When Zed and the adapter have both gone, so do the threads and sockets, *)
(* also those of a client that left while its handler polled for a port    *)
(* that never came (dap.rs:34-36, 52, 68, 81).                             *)
BothClosedReleases ==
    \A s \in Sessions :
        (pc[s] # "none" /\ ~clientOpen[s] /\ target[s] \notin up)
            ~> (pc[s] = "gone" \/ target[s] \in up)
=============================================================================
