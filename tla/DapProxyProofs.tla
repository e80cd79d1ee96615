---------------------------- MODULE DapProxyProofs ----------------------------
(***************************************************************************)
(* Theorems about DapProxy for any number of sessions and any traffic. One *)
(* part of the inductive invariant is about the cell all sessions share,   *)
(* the other two about the streams of one connection: what is on its way   *)
(* is the piece of what was sent that has not arrived.                     *)
(*                                                                         *)
(* Then theorems about FrameReader, which each connection reads its        *)
(* adapter through (dap.rs:64-80), and both stdio pipes: for any bodies,   *)
(* any number of messages and any way the stream is cut into reads.        *)
(***************************************************************************)
EXTENDS DapProxy, FrameReader, SequenceTheorems, TLAPS

-----------------------------------------------------------------------------
(* The inductive invariant.                                                *)

Waiting == {"none", "polling", "missed"}

(* A port is that of an adapter that was started, and an adapter that has  *)
(* ended is not started again.                                             *)
PortsOfStarted ==
    /\ \A a \in up : Started(a)
    /\ realPort # None => Started(realPort)
    /\ \A s \in Sessions : target[s] # None => Started(target[s])

(* While a session that nothing crossed waits for its port, the cell is    *)
(* its own, and it does not wait before it was answered.                   *)
CellIsOwn ==
    \A s \in Sessions :
        /\ pc[s] \in Waiting => target[s] = None
        /\ pc[s] \in Waiting /\ Started(s) /\ s \notin crossed => realPort = s
        /\ pc[s] # "none" /\ s \notin crossed => s \in answered

(* The frames of an adapter are numbered. Zed has been sent the first of   *)
(* them, and as long as it listens, those that are held come next.         *)
Down(s) ==
    /\ \A i \in 1..Len(sent[s]) : sent[s][i].n = i /\ sent[s][i].path \in {"uri", "none"}
    /\ Len(toClient[s]) <= Len(sent[s])
    /\ \A i \in 1..Len(toClient[s]) : toClient[s][i] = RewriteStackTrace(sent[s][i])
    /\ taken[s] <= Len(sent[s])
    /\ clientOpen[s] =>
          /\ Len(toClient[s]) + Len(held[s]) = taken[s]
          /\ \A i \in 1..Len(held[s]) : held[s][i] = sent[s][Len(toClient[s]) + i]
    /\ pc[s] = "forwarding" => Len(held[s]) > 0
    /\ pc[s] \in Waiting \cup {"connecting"} =>
          sent[s] = <<>> /\ taken[s] = 0 /\ held[s] = <<>> /\ toClient[s] = <<>>

(* The adapter has been sent all that was read, as long as it runs.        *)
Up(s) ==
    /\ fwd[s] <= Len(asked[s]) /\ Len(toAdapter[s]) <= fwd[s]
    /\ \A i \in 1..Len(toAdapter[s]) : toAdapter[s][i] = asked[s][i]
    /\ Len(toAdapter[s]) = fwd[s] \/ (target[s] # None /\ target[s] \notin up)
    /\ forwarder[s] = "running" => target[s] # None

Piped == \A s \in Sessions : Down(s) /\ Up(s)

IInv == /\ TypeOK /\ PortsOfStarted /\ CellIsOwn /\ OwnAdapter /\ Piped

-----------------------------------------------------------------------------

(* Sequences that grow at the end, or lose their head.                     *)

LEMMA AppendIs ==
    ASSUME NEW S, NEW q \in Seq(S), NEW x \in S
    PROVE  /\ Append(q, x) \in Seq(S) /\ Len(Append(q, x)) = Len(q) + 1
           /\ Append(q, x)[Len(q) + 1] = x
           /\ \A i \in 1..Len(q) : Append(q, x)[i] = q[i]
  OBVIOUS

LEMMA TailIs ==
    ASSUME NEW S, NEW q \in Seq(S), Len(q) > 0
    PROVE  /\ Head(q) \in S /\ Head(q) = q[1] /\ Tail(q) \in Seq(S)
           /\ Len(Tail(q)) = Len(q) - 1
           /\ \A i \in 1..Len(Tail(q)) : Tail(q)[i] = q[i + 1]
<1>1. q # <<>> OBVIOUS
<1>2. q[1] \in S OBVIOUS
<1> QED BY <1>1, <1>2

LEMMA PieceIs ==
    ASSUME NEW S, NEW q \in Seq(S), NEW t \in Nat, NEW k \in Nat, t + k <= Len(q)
    PROVE  /\ SubSeq(q, t + 1, t + k) \in Seq(S)
           /\ Len(SubSeq(q, t + 1, t + k)) = k
           /\ \A i \in 1..k : SubSeq(q, t + 1, t + k)[i] = q[t + i]
<1>1. \A i \in (t + 1)..(t + k) : q[i] \in S
  <2>1. \A i \in (t + 1)..(t + k) : i \in 1..Len(q) OBVIOUS
  <2> QED BY <2>1
<1>2. PICK a \in Int : a = t + 1 OBVIOUS
<1>3. PICK b \in Int : b = t + k OBVIOUS
<1>4. \A i \in a..b : q[i] \in S BY <1>1, <1>2, <1>3
<1>5. /\ SubSeq(q, a, b) \in Seq(S)
      /\ Len(SubSeq(q, a, b)) = IF a <= b THEN b - a + 1 ELSE 0
      /\ \A i \in 1..(b - a + 1) : SubSeq(q, a, b)[i] = q[a + i - 1]
  BY <1>4, SubSeqProperties
<1>6. b - a + 1 = k /\ (a <= b \/ k = 0) BY <1>2, <1>3
<1>7. ASSUME NEW i \in 1..k PROVE SubSeq(q, a, b)[i] = q[t + i]
  <2>1. a + i - 1 = t + i BY <1>2
  <2> QED BY <1>5, <1>6, <2>1
<1>8. Len(SubSeq(q, a, b)) = k BY <1>5, <1>6
<1> QED BY <1>2, <1>3, <1>5, <1>7, <1>8

(* What is held, and what is read behind it.                               *)
LEMMA ReadBehind ==
    ASSUME NEW S, NEW q \in Seq(S), NEW h \in Seq(S), NEW t \in Nat, NEW k \in Nat,
           t + k <= Len(q)
    PROVE  LET p == SubSeq(q, t + 1, t + k) IN
           /\ h \o p \in Seq(S) /\ Len(h \o p) = Len(h) + k
           /\ \A i \in 1..(Len(h) + k) :
                 (h \o p)[i] = IF i <= Len(h) THEN h[i] ELSE q[t + (i - Len(h))]
<1> DEFINE p == SubSeq(q, t + 1, t + k)
<1>1. /\ p \in Seq(S) /\ Len(p) = k /\ \A i \in 1..k : p[i] = q[t + i]
  BY PieceIs
<1> HIDE DEF p
<1>2. /\ h \o p \in Seq(S) /\ Len(h \o p) = Len(h) + k
      /\ \A i \in 1..(Len(h) + k) :
            (h \o p)[i] = IF i <= Len(h) THEN h[i] ELSE p[i - Len(h)]
  BY <1>1, ConcatProperties
<1>3. PICK l \in Nat : l = Len(h) OBVIOUS
<1>4. ASSUME NEW i \in 1..(l + k), ~(i <= l) PROVE p[i - l] = q[t + (i - l)]
  <2>1. i - l \in 1..k BY <1>4
  <2> QED BY <1>1, <2>1
<1> QED BY <1>2, <1>3, <1>4 DEF p

LEMMA JoinIs ==
    ASSUME NEW S, NEW q \in Seq(S), NEW r \in Seq(S)
    PROVE  /\ q \o r \in Seq(S) /\ Len(q \o r) = Len(q) + Len(r)
           /\ \A i \in 1..Len(q) : (q \o r)[i] = q[i]
           /\ \A i \in 1..Len(r) : (q \o r)[Len(q) + i] = r[i]
<1>1. PICK k \in Nat : k = Len(q) OBVIOUS
<1>2. PICK n \in Nat : n = Len(r) OBVIOUS
<1>3. /\ q \o r \in Seq(S) /\ Len(q \o r) = k + n
      /\ \A i \in 1..(k + n) : (q \o r)[i] = IF i <= k THEN q[i] ELSE r[i - k]
  BY <1>1, <1>2, ConcatProperties
<1>4. ASSUME NEW i \in 1..k PROVE (q \o r)[i] = q[i]
  <2>1. i \in 1..(k + n) /\ i <= k OBVIOUS
  <2> QED BY <1>3, <2>1
<1>5. ASSUME NEW i \in 1..n PROVE (q \o r)[k + i] = r[i]
  <2>1. k + i \in 1..(k + n) /\ ~(k + i <= k) /\ (k + i) - k = i OBVIOUS
  <2> QED BY <1>3, <2>1
<1> QED BY <1>1, <1>2, <1>3, <1>4, <1>5

LEMMA TuplesAre ==
    ASSUME NEW S, NEW x \in S, NEW y \in S, NEW z \in S
    PROVE  /\ <<x, y, z>> \in Seq(S) /\ Len(<<x, y, z>>) = 3
           /\ <<x, y, z>>[1] = x /\ <<x, y, z>>[2] = y /\ <<x, y, z>>[3] = z
  OBVIOUS

-----------------------------------------------------------------------------
(* Type correctness. A frame is only taken from those that are held.       *)

Steps == {"none", "polling", "missed", "connecting", "piping", "forwarding", "joining",
          "gone"}

RouteOK == /\ realPort \in Sessions \cup {None} /\ routing \in Sessions \cup {None}
           /\ answered \subseteq Sessions /\ up \subseteq Sessions
           /\ crossed \subseteq Sessions
HandlerOK == /\ pc \in [Sessions -> Steps] /\ target \in [Sessions -> Sessions \cup {None}]
             /\ late \in [Sessions -> BOOLEAN] /\ clientOpen \in [Sessions -> BOOLEAN]
DownOK == /\ sent \in [Sessions -> Seq(Frames)] /\ taken \in [Sessions -> Nat]
          /\ held \in [Sessions -> Seq(Frames)] /\ toClient \in [Sessions -> Seq(Frames)]
UpOK == /\ forwarder \in [Sessions -> {"none", "running", "gone"}]
        /\ asked \in [Sessions -> Seq(Nat)] /\ fwd \in [Sessions -> Nat]
        /\ toAdapter \in [Sessions -> Seq(Nat)]

LEMMA TypeParts == TypeOK <=> RouteOK /\ HandlerOK /\ DownOK /\ UpOK
  BY DEF TypeOK, RouteOK, HandlerOK, DownOK, UpOK, Steps

LEMMA ReturnType ==
    ASSUME HandlerOK, DownOK, UpOK, NEW s \in Sessions, Return(s)
    PROVE  /\ pc' = [pc EXCEPT ![s] = "gone"] /\ pc' \in [Sessions -> Steps]
           /\ clientOpen' \in [Sessions -> BOOLEAN] /\ DownOK' /\ UpOK'
<1>1. <<>> \in Seq(Frames) /\ <<>> \in Seq(Nat) OBVIOUS
<1>2. pc' = [pc EXCEPT ![s] = "gone"] BY DEF Return, Goto
<1>3. DownOK' BY <1>1 DEF Return, DownOK
<1>4. UpOK' BY <1>1 DEF Return, UpOK
<1>5. pc' \in [Sessions -> Steps] /\ clientOpen' \in [Sessions -> BOOLEAN]
  BY <1>2 DEF Return, HandlerOK, Steps
<1> QED BY <1>2, <1>3, <1>4, <1>5

LEMMA FrameTypes ==
    /\ \A q \in Seq(Frames) : FrameAfter(q) \in Frames /\ FrameAfter(q).n = Len(q) + 1
                              /\ FrameAfter(q).path \in {"uri", "none"}
    /\ \A f \in Frames : /\ RewriteStackTrace(f) \in Frames
                         /\ RewriteStackTrace(f).n = f.n
                         /\ RewriteStackTrace(f).path # "uri"
                         /\ RewriteStackTrace(f).path = "none" <=> f.path = "none"
<1>1. ASSUME NEW q \in Seq(Frames)
      PROVE  FrameAfter(q) \in Frames /\ FrameAfter(q).n = Len(q) + 1
             /\ FrameAfter(q).path \in {"uri", "none"}
  <2>1. Len(q) + 1 \in Nat OBVIOUS
  <2> QED BY <2>1 DEF FrameAfter, Frames, Paths
<1>2. ASSUME NEW f \in Frames
      PROVE  /\ RewriteStackTrace(f) \in Frames /\ RewriteStackTrace(f).n = f.n
             /\ RewriteStackTrace(f).path # "uri"
             /\ RewriteStackTrace(f).path = "none" <=> f.path = "none"
  BY DEF RewriteStackTrace, Frames, Paths
<1> QED BY <1>1, <1>2

LEMMA StepType == TypeOK /\ Piped /\ [Next]_vars => TypeOK'
<1> SUFFICES ASSUME RouteOK, HandlerOK, DownOK, UpOK, Piped, [Next]_vars
             PROVE  RouteOK' /\ HandlerOK' /\ DownOK' /\ UpOK'
  <2>1. TypeOK' <=> RouteOK' /\ HandlerOK' /\ DownOK' /\ UpOK'
    BY DEF TypeOK, RouteOK, HandlerOK, DownOK, UpOK, Steps
  <2> QED BY <2>1, TypeParts
<1>r. UNCHANGED routeVars /\ UNCHANGED up => RouteOK' BY DEF routeVars, RouteOK
<1>d. UNCHANGED downVars => DownOK' BY DEF downVars, DownOK
<1>u. UNCHANGED upVars => UpOK' BY DEF upVars, UpOK
<1>h. UNCHANGED <<pc, target, late, clientOpen>> => HandlerOK' BY DEF HandlerOK
<1>1. CASE UNCHANGED vars BY <1>1, <1>r, <1>d, <1>u, <1>h DEF vars
<1>2. ASSUME NEW s \in Sessions, RouteRemember(s) \/ RouteAnswer(s)
      PROVE  RouteOK' /\ HandlerOK' /\ DownOK' /\ UpOK'
  <2>1. RouteOK'
    BY <1>2 DEF RouteOK, RouteRemember, RouteAnswer, PortUnread, Remembered
  <2> QED BY <1>2, <1>d, <1>u, <1>h, <2>1 DEF RouteRemember, RouteAnswer
<1>3. ASSUME NEW s \in Sessions, Accept(s)
      PROVE  RouteOK' /\ HandlerOK' /\ DownOK' /\ UpOK'
  <2>1. RouteOK' /\ HandlerOK' BY <1>3 DEF RouteOK, HandlerOK, Accept, Goto, Steps
  <2> QED BY <1>3, <1>d, <1>u, <2>1 DEF Accept
<1>4. ASSUME NEW s \in Sessions, PollSees(s)
      PROVE  RouteOK' /\ HandlerOK' /\ DownOK' /\ UpOK'
  <2>1. HandlerOK' BY <1>4 DEF RouteOK, HandlerOK, PollSees, Goto, Steps
  <2> QED BY <1>4, <1>r, <1>d, <1>u, <2>1 DEF PollSees
<1>5. ASSUME NEW s \in Sessions, PollMisses(s)
      PROVE  RouteOK' /\ HandlerOK' /\ DownOK' /\ UpOK'
  <2>1. HandlerOK' BY <1>5 DEF HandlerOK, PollMisses, Goto, Steps
  <2> QED BY <1>5, <1>r, <1>d, <1>u, <2>1 DEF PollMisses
<1>6. ASSUME NEW s \in Sessions, GiveUpOrSleep(s)
      PROVE  RouteOK' /\ HandlerOK' /\ DownOK' /\ UpOK'
  <2>1. late' \in [Sessions -> BOOLEAN]
    <3>1. (late[s] /\ ~late[s]) \in BOOLEAN BY DEF HandlerOK
    <3> QED BY <1>6, <3>1 DEF GiveUpOrSleep, HandlerOK, Expired
  <2>2. target' = target /\ UNCHANGED routeVars /\ UNCHANGED up
    BY <1>6 DEF GiveUpOrSleep
  <2>3. CASE Return(s) BY <1>r, <2>1, <2>2, <2>3, ReturnType DEF HandlerOK
  <2>4. CASE Goto(s, "polling") /\ UNCHANGED clientOpen /\ UNCHANGED downVars
             /\ UNCHANGED upVars
    <3>1. HandlerOK' BY <2>1, <2>2, <2>4 DEF HandlerOK, Goto, Steps
    <3> QED BY <1>r, <1>d, <1>u, <2>2, <2>4, <3>1
  <2> QED BY <1>6, <2>3, <2>4 DEF GiveUpOrSleep
<1>7. ASSUME NEW s \in Sessions, Deadline(s)
      PROVE  RouteOK' /\ HandlerOK' /\ DownOK' /\ UpOK'
  <2>1. HandlerOK' BY <1>7 DEF HandlerOK, Deadline
  <2> QED BY <1>7, <1>r, <1>d, <1>u, <2>1 DEF Deadline
<1>8. ASSUME NEW s \in Sessions, Connect(s)
      PROVE  RouteOK' /\ HandlerOK' /\ DownOK' /\ UpOK'
  <2>2. target' = target /\ late' = late /\ UNCHANGED routeVars /\ UNCHANGED up
    BY <1>8 DEF Connect
  <2>3. CASE Return(s) BY <1>r, <2>2, <2>3, ReturnType DEF HandlerOK
  <2>4. CASE /\ Goto(s, "piping") /\ forwarder' = [forwarder EXCEPT ![s] = "running"]
             /\ UNCHANGED clientOpen /\ UNCHANGED downVars
             /\ asked' = asked /\ fwd' = fwd /\ toAdapter' = toAdapter
    <3>1. HandlerOK' BY <2>2, <2>4 DEF HandlerOK, Goto, Steps
    <3>2. UpOK' BY <2>4 DEF UpOK
    <3> QED BY <1>r, <1>d, <2>2, <2>4, <3>1, <3>2
  <2> QED BY <1>8, <2>3, <2>4 DEF Connect
<1>9. ASSUME NEW s \in Sessions, NEW k \in 1..MaxTraffic, ReadFrames(s, k)
      PROVE  RouteOK' /\ HandlerOK' /\ DownOK' /\ UpOK'
  <2>1. /\ taken[s] \in Nat /\ sent[s] \in Seq(Frames) /\ held[s] \in Seq(Frames)
        /\ k \in Nat /\ taken[s] + k <= Len(sent[s])
    BY <1>9, DapAssumption DEF DownOK, ReadFrames
  <2>2. held[s] \o SubSeq(sent[s], taken[s] + 1, taken[s] + k) \in Seq(Frames)
    BY <2>1, ReadBehind
  <2>3. taken[s] + k \in Nat BY <2>1
  <2>4. DownOK' BY <1>9, <2>2, <2>3 DEF DownOK, ReadFrames
  <2>5. HandlerOK' BY <1>9 DEF HandlerOK, ReadFrames, Goto, Steps
  <2> QED BY <1>9, <1>r, <1>u, <2>4, <2>5 DEF ReadFrames
<1>10. ASSUME NEW s \in Sessions, ForwardFrame(s)
       PROVE  RouteOK' /\ HandlerOK' /\ DownOK' /\ UpOK'
  <2>1. held[s] \in Seq(Frames) /\ Len(held[s]) > 0 /\ toClient[s] \in Seq(Frames)
    BY <1>10 DEF DownOK, ForwardFrame, Piped, Down
  <2>2. Tail(held[s]) \in Seq(Frames) /\ Head(held[s]) \in Frames BY <2>1, TailIs
  <2>3. Append(toClient[s], RewriteStackTrace(Head(held[s]))) \in Seq(Frames)
    BY <2>1, <2>2, FrameTypes, AppendIs
  <2>4. DownOK' BY <1>10, <2>2, <2>3 DEF DownOK, ForwardFrame
  <2>5. HandlerOK' BY <1>10 DEF HandlerOK, ForwardFrame, Goto, Steps, AfterFrame
  <2> QED BY <1>10, <1>r, <1>u, <2>4, <2>5 DEF ForwardFrame
<1>11. ASSUME NEW s \in Sessions, ReadEof(s)
       PROVE  RouteOK' /\ HandlerOK' /\ DownOK' /\ UpOK'
  <2>1. HandlerOK' BY <1>11 DEF HandlerOK, ReadEof, Goto, Steps
  <2> QED BY <1>11, <1>r, <1>d, <1>u, <2>1 DEF ReadEof
<1>12. ASSUME NEW s \in Sessions, Join(s)
       PROVE  RouteOK' /\ HandlerOK' /\ DownOK' /\ UpOK'
  <2>1. target' = target /\ late' = late /\ UNCHANGED routeVars /\ UNCHANGED up
        /\ Return(s)
    BY <1>12 DEF Join
  <2> QED BY <1>r, <2>1, ReturnType DEF HandlerOK
<1>13. ASSUME NEW s \in Sessions, Forward(s)
       PROVE  RouteOK' /\ HandlerOK' /\ DownOK' /\ UpOK'
  <2>1. fwd[s] \in Nat /\ asked[s] \in Seq(Nat) /\ toAdapter[s] \in Seq(Nat)
        /\ fwd[s] < Len(asked[s])
    BY <1>13 DEF UpOK, Forward
  <2>2. fwd[s] + 1 \in Nat /\ fwd[s] + 1 \in 1..Len(asked[s]) BY <2>1
  <2>3. fwd' = [fwd EXCEPT ![s] = fwd[s] + 1] /\ fwd'[s] = fwd[s] + 1
    BY <1>13 DEF Forward, UpOK
  <2>4. asked[s][fwd[s] + 1] \in Nat BY <2>1, <2>2
  <2>5. toAdapter[s] \o <<asked[s][fwd[s] + 1]>> \in Seq(Nat) BY <2>1, <2>4
  <2>6. \/ toAdapter' = toAdapter
        \/ toAdapter' = [toAdapter EXCEPT ![s] = toAdapter[s] \o <<asked[s][fwd[s] + 1]>>]
    BY <1>13, <2>3 DEF Forward, Chunk
  <2>7. toAdapter' \in [Sessions -> Seq(Nat)] BY <2>5, <2>6 DEF UpOK
  <2>8. fwd' \in [Sessions -> Nat] BY <2>2, <2>3 DEF UpOK
  <2>9. forwarder' \in [Sessions -> {"none", "running", "gone"}]
    BY <1>13 DEF Forward, UpOK
  <2>10. UpOK' BY <1>13, <2>7, <2>8, <2>9 DEF Forward, UpOK
  <2> QED BY <1>13, <1>r, <1>d, <1>h, <2>10 DEF Forward
<1>14. ASSUME NEW s \in Sessions, ForwardEof(s)
       PROVE  RouteOK' /\ HandlerOK' /\ DownOK' /\ UpOK'
  <2>1. UpOK' BY <1>14 DEF UpOK, ForwardEof
  <2> QED BY <1>14, <1>r, <1>d, <1>h, <2>1 DEF ForwardEof
<1>15. ASSUME NEW s \in Sessions, ZedSends(s)
       PROVE  RouteOK' /\ HandlerOK' /\ DownOK' /\ UpOK'
  <2>1. Append(asked[s], Len(asked[s]) + 1) \in Seq(Nat) BY AppendIs DEF UpOK
  <2>2. UpOK' BY <1>15, <2>1 DEF UpOK, ZedSends
  <2> QED BY <1>15, <1>r, <1>d, <1>h, <2>2 DEF ZedSends
<1>16. ASSUME NEW s \in Sessions, ZedDisconnects(s)
       PROVE  RouteOK' /\ HandlerOK' /\ DownOK' /\ UpOK'
  <2>1. HandlerOK' BY <1>16 DEF HandlerOK, ZedDisconnects
  <2> QED BY <1>16, <1>r, <1>d, <1>u, <2>1 DEF ZedDisconnects
<1>17. ASSUME NEW s \in Sessions, AdapterSends(s)
       PROVE  RouteOK' /\ HandlerOK' /\ DownOK' /\ UpOK'
  <2>1. Append(sent[s], FrameAfter(sent[s])) \in Seq(Frames)
    BY AppendIs, FrameTypes DEF DownOK
  <2>2. DownOK' BY <1>17, <2>1 DEF DownOK, AdapterSends
  <2> QED BY <1>17, <1>r, <1>u, <1>h, <2>2 DEF AdapterSends
<1>18. ASSUME NEW s \in Sessions, AdapterEnds(s)
       PROVE  RouteOK' /\ HandlerOK' /\ DownOK' /\ UpOK'
  <2>1. RouteOK' BY <1>18 DEF RouteOK, AdapterEnds, routeVars
  <2> QED BY <1>18, <1>d, <1>u, <1>h, <2>1 DEF AdapterEnds
<1> QED
  BY <1>1, <1>2, <1>3, <1>4, <1>5, <1>6, <1>7, <1>8, <1>9, <1>10, <1>11, <1>12, <1>13,
     <1>14, <1>15, <1>16, <1>17, <1>18
  DEF Next, Handler, Forwarder

-----------------------------------------------------------------------------
(* The cell. Beside the router, a new client and a poll that finds a port, *)
(* no step touches it or the choice of an adapter.                         *)

Quiet ==
    /\ UNCHANGED routeVars /\ UNCHANGED target /\ up' \subseteq up
    /\ \A t \in Sessions : /\ pc'[t] \in Waiting => pc[t] \in Waiting
                           /\ pc'[t] # "none" => pc[t] # "none"

LEMMA QuietSteps ==
    TypeOK /\ [Next]_vars =>
        \/ \E s \in Sessions : RouteRemember(s) \/ RouteAnswer(s) \/ Accept(s) \/ PollSees(s)
        \/ Quiet
<1> SUFFICES ASSUME RouteOK, HandlerOK, [Next]_vars,
                    ~ \E s \in Sessions : \/ RouteRemember(s) \/ RouteAnswer(s)
                                          \/ Accept(s) \/ PollSees(s)
             PROVE  Quiet
  BY TypeParts
<1>p. UNCHANGED routeVars /\ UNCHANGED target /\ UNCHANGED up /\ UNCHANGED pc => Quiet
  BY DEF Quiet
<1>q. ASSUME NEW s \in Sessions, NEW l \in Steps \ {"none"}, pc[s] # "none",
             l \in Waiting => pc[s] \in Waiting, Goto(s, l),
             UNCHANGED routeVars, UNCHANGED target, UNCHANGED up
      PROVE  Quiet
  <2>1. ASSUME NEW t \in Sessions
        PROVE  /\ pc'[t] \in Waiting => pc[t] \in Waiting
               /\ pc'[t] # "none" => pc[t] # "none"
    BY <1>q, <2>1 DEF HandlerOK, Goto
  <2> QED BY <1>q, <2>1 DEF Quiet
<1>1. CASE UNCHANGED vars BY <1>1, <1>p DEF vars
<1>2. ASSUME NEW s \in Sessions, PollMisses(s) PROVE Quiet
  BY <1>2, <1>q DEF PollMisses, Waiting, Steps
<1>3. ASSUME NEW s \in Sessions, GiveUpOrSleep(s) PROVE Quiet
  <2>1. Goto(s, "gone") \/ Goto(s, "polling") BY <1>3 DEF GiveUpOrSleep, Return
  <2> QED BY <1>3, <1>q, <2>1 DEF GiveUpOrSleep, Waiting, Steps
<1>4. ASSUME NEW s \in Sessions, Connect(s) PROVE Quiet
  <2>1. Goto(s, "gone") \/ Goto(s, "piping") BY <1>4 DEF Connect, Return
  <2> QED BY <1>4, <1>q, <2>1 DEF Connect, Waiting, Steps
<1>5. ASSUME NEW s \in Sessions, NEW k \in 1..MaxTraffic, ReadFrames(s, k) PROVE Quiet
  BY <1>5, <1>q DEF ReadFrames, Waiting, Steps
<1>6. ASSUME NEW s \in Sessions, ForwardFrame(s) PROVE Quiet
  <2>1. Goto(s, "piping") \/ Goto(s, "forwarding") BY <1>6 DEF ForwardFrame, AfterFrame
  <2> QED BY <1>6, <1>q, <2>1 DEF ForwardFrame, Waiting, Steps
<1>7. ASSUME NEW s \in Sessions, ReadEof(s) PROVE Quiet
  BY <1>7, <1>q DEF ReadEof, Waiting, Steps
<1>8. ASSUME NEW s \in Sessions, Join(s) PROVE Quiet
  BY <1>8, <1>q DEF Join, Return, Waiting, Steps
<1>9. ASSUME NEW s \in Sessions, Forward(s) \/ ForwardEof(s) PROVE Quiet
  BY <1>9, <1>p DEF Forward, ForwardEof
<1>10. ASSUME NEW s \in Sessions, Deadline(s) PROVE Quiet BY <1>10, <1>p DEF Deadline
<1>11. ASSUME NEW s \in Sessions, ZedSends(s) \/ ZedDisconnects(s) \/ AdapterSends(s)
       PROVE  Quiet
  BY <1>11, <1>p DEF ZedSends, ZedDisconnects, AdapterSends
<1>12. ASSUME NEW s \in Sessions, AdapterEnds(s) PROVE Quiet
  BY <1>12 DEF AdapterEnds, Quiet
<1> QED
  BY <1>1, <1>2, <1>3, <1>4, <1>5, <1>6, <1>7, <1>8, <1>9, <1>10, <1>11, <1>12
  DEF Next, Handler, Forwarder

(* A session that was started stays started.                               *)
LEMMA StartedStays ==
    ASSUME TypeOK, [Next]_vars, NEW a \in Sessions, Started(a)
    PROVE  Started(a)'
<1>1. a # None BY DapAssumption
<1>2. ASSUME NEW s \in Sessions, RouteRemember(s) PROVE Started(a)'
  BY <1>1, <1>2 DEF RouteRemember, Started
<1>3. ASSUME NEW s \in Sessions, RouteAnswer(s) PROVE Started(a)'
  BY <1>3 DEF RouteAnswer, Started
<1>4. ASSUME NEW s \in Sessions, Accept(s) \/ PollSees(s) PROVE Started(a)'
  BY <1>4 DEF Accept, PollSees, Started, routeVars
<1>5. CASE Quiet BY <1>5 DEF Quiet, Started, routeVars
<1> QED BY <1>2, <1>3, <1>4, <1>5, QuietSteps

LEMMA StepPorts == TypeOK /\ PortsOfStarted /\ [Next]_vars => PortsOfStarted'
<1> SUFFICES ASSUME TypeOK, RouteOK, HandlerOK, PortsOfStarted, [Next]_vars
             PROVE  PortsOfStarted'
  BY TypeParts
<1>1. \A a \in Sessions : Started(a) => Started(a)' BY StartedStays
<1>2. ASSUME UNCHANGED realPort, UNCHANGED target, up' \subseteq up PROVE PortsOfStarted'
  BY <1>1, <1>2 DEF PortsOfStarted, RouteOK, HandlerOK
<1>3. ASSUME NEW s \in Sessions, RouteRemember(s) PROVE PortsOfStarted'
  <2>1. Started(s)' BY <1>3 DEF RouteRemember, Started
  <2>2. up' = up \cup {s} /\ realPort' = s /\ target' = target
    BY <1>3 DEF RouteRemember, Remembered
  <2> QED BY <1>1, <2>1, <2>2 DEF PortsOfStarted, RouteOK, HandlerOK
<1>4. ASSUME NEW s \in Sessions, RouteAnswer(s) \/ Accept(s) PROVE PortsOfStarted'
  BY <1>2, <1>4 DEF RouteAnswer, Accept
<1>5. ASSUME NEW s \in Sessions, PollSees(s) PROVE PortsOfStarted'
  <2>1. /\ target' = [target EXCEPT ![s] = realPort] /\ realPort' = realPort /\ up' = up
        /\ routing' = routing /\ answered' = answered
    BY <1>5 DEF PollSees, routeVars
  <2>2. ASSUME NEW t \in Sessions, target'[t] # None
        PROVE  target'[t] = routing' \/ target'[t] \in answered'
    <3>1. target'[t] = target[t] \/ target'[t] = realPort BY <2>1 DEF HandlerOK
    <3> QED BY <2>1, <2>2, <3>1 DEF PortsOfStarted, Started
  <2> QED BY <2>1, <2>2 DEF PortsOfStarted, Started
<1>6. CASE Quiet BY <1>2, <1>6 DEF Quiet, routeVars
<1> QED BY <1>3, <1>4, <1>5, <1>6, QuietSteps

LEMMA StepCell ==
    TypeOK /\ CellIsOwn /\ OwnAdapter /\ [Next]_vars => CellIsOwn' /\ OwnAdapter'
<1> SUFFICES ASSUME TypeOK, RouteOK, HandlerOK, CellIsOwn, OwnAdapter, [Next]_vars
             PROVE  CellIsOwn' /\ OwnAdapter'
  BY TypeParts
<1>1. ASSUME NEW s \in Sessions, RouteRemember(s) PROVE CellIsOwn' /\ OwnAdapter'
  <2>1. /\ crossed' = crossed \cup PortUnread /\ realPort' = s /\ routing' = s
        /\ answered' = answered /\ pc' = pc /\ target' = target
    BY <1>1 DEF RouteRemember, Remembered
  <2>2. ASSUME NEW t \in Sessions, pc[t] \in Waiting, Started(t)', t \notin crossed'
        PROVE  t = s
    BY <2>1, <2>2 DEF Started, PortUnread, Waiting
  <2>3. CellIsOwn' BY <2>1, <2>2 DEF CellIsOwn
  <2> QED BY <2>1, <2>3 DEF OwnAdapter
<1>2. ASSUME NEW s \in Sessions, RouteAnswer(s) PROVE CellIsOwn' /\ OwnAdapter'
  <2>1. /\ routing = s /\ answered' = answered \cup {s} /\ routing' = None
        /\ crossed' = crossed /\ realPort' = realPort /\ pc' = pc /\ target' = target
    BY <1>2 DEF RouteAnswer
  <2>2. \A t \in Sessions : Started(t)' <=> Started(t)
    BY <2>1, DapAssumption DEF Started
  <2>3. CellIsOwn' BY <2>1, <2>2 DEF CellIsOwn
  <2> QED BY <2>1, <2>3 DEF OwnAdapter
<1>3. ASSUME NEW s \in Sessions, Accept(s) PROVE CellIsOwn' /\ OwnAdapter'
  <2>1. /\ pc[s] = "none" /\ pc' = [pc EXCEPT ![s] = "polling"] /\ target' = target
        /\ crossed' = crossed \cup ({s} \ answered)
        /\ realPort' = realPort /\ routing' = routing /\ answered' = answered
    BY <1>3 DEF Accept, Goto
  <2>2. \A t \in Sessions : /\ Started(t)' <=> Started(t)
                            /\ pc'[t] \in Waiting <=> pc[t] \in Waiting
    BY <2>1 DEF Started, HandlerOK, Waiting
  <2>3. \A t \in Sessions : pc'[t] # "none" /\ t \notin crossed' => t \in answered'
    BY <2>1 DEF CellIsOwn, HandlerOK
  <2>4. CellIsOwn' BY <2>1, <2>2, <2>3 DEF CellIsOwn
  <2> QED BY <2>1, <2>4 DEF OwnAdapter
<1>4. ASSUME NEW s \in Sessions, PollSees(s) PROVE CellIsOwn' /\ OwnAdapter'
  <2>1. /\ pc[s] = "polling" /\ pc' = [pc EXCEPT ![s] = "connecting"]
        /\ target' = [target EXCEPT ![s] = realPort]
        /\ realPort' = realPort /\ routing' = routing /\ answered' = answered
        /\ crossed' = crossed
    BY <1>4 DEF PollSees, Goto, routeVars
  <2>2. \A t \in Sessions : /\ Started(t)' <=> Started(t)
                            /\ pc'[t] \in Waiting => pc[t] \in Waiting /\ t # s
                            /\ pc'[t] # "none" => pc[t] # "none"
    BY <2>1 DEF Started, HandlerOK, Waiting
  <2>3. s \notin crossed => realPort = s
    BY <2>1 DEF CellIsOwn, Waiting, Started
  <2>4. OwnAdapter' BY <2>1, <2>3 DEF OwnAdapter, HandlerOK
  <2>5. \A t \in Sessions : t # s => target'[t] = target[t] BY <2>1 DEF HandlerOK
  <2>6. CellIsOwn' BY <2>1, <2>2, <2>5 DEF CellIsOwn
  <2> QED BY <2>4, <2>6
<1>5. CASE Quiet
  <2>1. /\ target' = target /\ realPort' = realPort /\ routing' = routing
        /\ answered' = answered /\ crossed' = crossed
    BY <1>5 DEF Quiet, routeVars
  <2>2. \A t \in Sessions : /\ Started(t)' <=> Started(t)
                            /\ pc'[t] \in Waiting => pc[t] \in Waiting
                            /\ pc'[t] # "none" => pc[t] # "none"
    BY <1>5, <2>1 DEF Quiet, Started
  <2>3. CellIsOwn' BY <2>1, <2>2 DEF CellIsOwn
  <2> QED BY <2>1, <2>3 DEF OwnAdapter
<1> QED BY <1>1, <1>2, <1>3, <1>4, <1>5, QuietSteps

-----------------------------------------------------------------------------
(* The streams. A connection whose part of the state is left alone keeps   *)
(* its invariant, whatever the others do.                                  *)

Empty == Waiting \cup {"connecting"}

LEMMA DownKept ==
    ASSUME NEW t \in Sessions, Down(t),
           sent'[t] = sent[t], taken'[t] = taken[t], held'[t] = held[t],
           toClient'[t] = toClient[t], clientOpen'[t] => clientOpen[t] \/ pc[t] \in Empty,
           pc'[t] = "forwarding" => pc[t] = "forwarding",
           pc'[t] \in Empty => pc[t] \in Empty
    PROVE  Down(t)'
<1>1. \A i \in 1..Len(sent'[t]) : sent'[t][i].n = i /\ sent'[t][i].path \in {"uri", "none"}
  BY DEF Down
<1>2. Len(toClient'[t]) <= Len(sent'[t]) /\ taken'[t] <= Len(sent'[t])
  BY DEF Down
<1>3. \A i \in 1..Len(toClient'[t]) : toClient'[t][i] = RewriteStackTrace(sent'[t][i])
  BY DEF Down
<1>4. /\ pc'[t] = "forwarding" => Len(held'[t]) > 0
      /\ pc'[t] \in Empty => /\ sent'[t] = <<>> /\ taken'[t] = 0
                             /\ held'[t] = <<>> /\ toClient'[t] = <<>>
  BY DEF Down, Empty
<1>5. ASSUME clientOpen'[t]
      PROVE  /\ Len(toClient'[t]) + Len(held'[t]) = taken'[t]
             /\ \A i \in 1..Len(held'[t]) : held'[t][i] = sent'[t][Len(toClient'[t]) + i]
  <2>1. CASE clientOpen[t]
    <3>1. Len(toClient[t]) + Len(held[t]) = taken[t] BY <2>1 DEF Down
    <3>2. \A i \in 1..Len(held[t]) : held[t][i] = sent[t][Len(toClient[t]) + i]
      BY <2>1 DEF Down
    <3> QED BY <3>1, <3>2
  <2>2. CASE pc[t] \in Empty
    <3>1. taken[t] = 0 /\ held[t] = <<>> /\ toClient[t] = <<>> BY <2>2 DEF Down, Empty
    <3>2. Len(toClient[t]) = 0 /\ Len(held[t]) = 0 BY <3>1
    <3>3. \A i \in 1..Len(held[t]) : held[t][i] = sent[t][Len(toClient[t]) + i]
      BY <3>2
    <3> QED BY <3>1, <3>2, <3>3
  <2> QED BY <1>5, <2>1, <2>2
<1> QED BY <1>1, <1>2, <1>3, <1>4, <1>5, Zenon DEF Down, Empty

LEMMA UpKept ==
    ASSUME NEW t \in Sessions, Up(t),
           asked'[t] = asked[t], fwd'[t] = fwd[t], toAdapter'[t] = toAdapter[t],
           target[t] # None => target'[t] = target[t],
           target[t] # None /\ target[t] \notin up => target[t] \notin up',
           forwarder'[t] = "running" => forwarder[t] = "running" \/ target'[t] # None
    PROVE  Up(t)'
  BY DEF Up

(* A handler that returns leaves nothing of its connection.                *)
LEMMA ReturnPiped ==
    ASSUME HandlerOK, DownOK, UpOK, Piped, NEW s \in Sessions, Return(s),
           UNCHANGED target, UNCHANGED up
    PROVE  Piped'
<1>1. ASSUME NEW t \in Sessions, t # s PROVE Down(t)' /\ Up(t)'
  <2>1. /\ pc'[t] = pc[t] /\ clientOpen'[t] = clientOpen[t]
        /\ sent'[t] = sent[t] /\ taken'[t] = taken[t] /\ held'[t] = held[t]
        /\ toClient'[t] = toClient[t]
    BY <1>1 DEF Return, Goto, HandlerOK, DownOK
  <2>2. /\ forwarder'[t] = forwarder[t] /\ asked'[t] = asked[t] /\ fwd'[t] = fwd[t]
        /\ toAdapter'[t] = toAdapter[t]
    BY <1>1 DEF Return, UpOK
  <2>3. Down(t) /\ Up(t) BY DEF Piped
  <2>4. Down(t)' BY <2>1, <2>3, DownKept
  <2>5. Up(t)' BY <2>2, <2>3, UpKept
  <2> QED BY <2>4, <2>5
<1>2. Down(s)'
  <2>1. /\ pc'[s] = "gone" /\ clientOpen'[s] = FALSE /\ sent'[s] = <<>>
        /\ taken'[s] = 0 /\ held'[s] = <<>> /\ toClient'[s] = <<>>
    BY DEF Return, Goto, HandlerOK, DownOK
  <2> QED BY <2>1 DEF Down, Waiting
<1>3. Up(s)'
  <2>1. /\ forwarder'[s] = "gone" /\ asked'[s] = <<>> /\ fwd'[s] = 0
        /\ toAdapter'[s] = <<>>
    BY DEF Return, UpOK
  <2> QED BY <2>1 DEF Up
<1> QED BY <1>1, <1>2, <1>3 DEF Piped

(* Of a step of one connection, only that connection need be looked at.    *)
LEMMA OnlyOne ==
    ASSUME HandlerOK, DownOK, UpOK, Piped, NEW s \in Sessions,
           \A t \in Sessions \ {s} :
              /\ pc'[t] = pc[t] /\ clientOpen'[t] = clientOpen[t]
              /\ target'[t] = target[t]
              /\ sent'[t] = sent[t] /\ taken'[t] = taken[t] /\ held'[t] = held[t]
              /\ toClient'[t] = toClient[t] /\ forwarder'[t] = forwarder[t]
              /\ asked'[t] = asked[t] /\ fwd'[t] = fwd[t]
              /\ toAdapter'[t] = toAdapter[t],
           up' \subseteq up, Down(s)', Up(s)'
    PROVE  Piped'
<1>1. ASSUME NEW t \in Sessions, t # s PROVE Down(t)' /\ Up(t)'
  <2>1. Down(t) /\ Up(t) BY DEF Piped
  <2>2. Down(t)' BY <1>1, <2>1, DownKept
  <2>3. Up(t)' BY <1>1, <2>1, UpKept
  <2> QED BY <2>2, <2>3
<1> QED BY <1>1 DEF Piped

LEMMA FramesRead ==
    ASSUME DownOK, HandlerOK, NEW s \in Sessions, NEW k \in 1..MaxTraffic, Down(s),
           ReadFrames(s, k)
    PROVE  Down(s)'
<1>1. /\ sent[s] \in Seq(Frames) /\ held[s] \in Seq(Frames)
      /\ toClient[s] \in Seq(Frames) /\ taken[s] \in Nat /\ k \in Nat /\ k >= 1
      /\ taken[s] + k <= Len(sent[s])
  BY DapAssumption DEF DownOK, ReadFrames
<1> DEFINE g == held[s] \o SubSeq(sent[s], taken[s] + 1, taken[s] + k)
<1>2. /\ held'[s] = g /\ taken'[s] = taken[s] + k /\ sent' = sent
      /\ toClient' = toClient /\ clientOpen' = clientOpen /\ pc'[s] = "forwarding"
  BY DEF ReadFrames, Goto, DownOK, HandlerOK
<1>l. PICK l \in Nat : l = Len(held[s]) BY <1>1
<1>3. /\ Len(g) = l + k
      /\ \A i \in 1..(l + k) :
            g[i] = IF i <= l THEN held[s][i] ELSE sent[s][taken[s] + (i - l)]
  <2>1. PICK q \in Seq(Frames) : q = sent[s] BY <1>1
  <2>2. PICK h \in Seq(Frames) : h = held[s] BY <1>1
  <2>3. PICK r \in Nat : r = taken[s] BY <1>1
  <2>4. k \in Nat /\ r + k <= Len(q) BY <1>1, <2>1, <2>3
  <2> DEFINE p == h \o SubSeq(q, r + 1, r + k)
  <2>5. /\ Len(p) = Len(h) + k
        /\ \A i \in 1..(Len(h) + k) :
              p[i] = IF i <= Len(h) THEN h[i] ELSE q[r + (i - Len(h))]
    BY <2>4, ReadBehind
  <2>6. g = p BY <2>1, <2>2, <2>3
  <2> HIDE DEF g, p
  <2> QED BY <1>l, <2>1, <2>2, <2>3, <2>5, <2>6
<1> HIDE DEF g
<1>4. ASSUME clientOpen[s]
      PROVE  /\ Len(toClient[s]) + Len(g) = taken[s] + k
             /\ \A i \in 1..Len(g) : g[i] = sent[s][Len(toClient[s]) + i]
  <2>1. PICK n \in Nat : n = Len(toClient[s]) BY <1>1
  <2>2. n + l = taken[s] /\ \A i \in 1..l : held[s][i] = sent[s][n + i]
    BY <1>4, <1>l, <2>1 DEF Down
  <2>3. ASSUME NEW i \in 1..(l + k) PROVE g[i] = sent[s][n + i]
    <3>1. CASE i <= l
      <4>1. i \in 1..l BY <3>1
      <4> QED BY <1>3, <2>2, <3>1, <4>1
    <3>2. CASE ~(i <= l)
      <4>1. taken[s] + (i - l) = n + i BY <2>2
      <4> QED BY <1>3, <3>2, <4>1
    <3> QED BY <3>1, <3>2
  <2>4. n + (l + k) = taken[s] + k BY <1>1, <2>2
  <2> QED BY <1>3, <2>1, <2>3, <2>4
<1>5. Len(g) > 0
  <2>1. l + k > 0 BY <1>1
  <2> QED BY <1>3, <2>1
<1> QED BY <1>1, <1>2, <1>4, <1>5 DEF Down, Waiting

(* The frame that is forwarded is the next that Zed waits for.             *)
LEMMA FrameForwarded ==
    ASSUME DownOK, HandlerOK, NEW s \in Sessions, Down(s), ForwardFrame(s)
    PROVE  Down(s)'
<1>1. /\ sent[s] \in Seq(Frames) /\ held[s] \in Seq(Frames)
      /\ toClient[s] \in Seq(Frames) /\ taken[s] \in Nat /\ Len(held[s]) > 0
  BY DEF DownOK, ForwardFrame, Down
<1> DEFINE f == RewriteStackTrace(Head(held[s]))
           g == Tail(held[s])
<1>2. /\ held'[s] = g /\ sent' = sent /\ taken' = taken /\ clientOpen' = clientOpen
      /\ pc'[s] \in {"piping", AfterFrame(s)}
  BY DEF ForwardFrame, Goto, DownOK, HandlerOK
<1>3. /\ Len(g) = Len(held[s]) - 1 /\ Head(held[s]) = held[s][1]
      /\ Head(held[s]) \in Frames
      /\ \A i \in 1..Len(g) : g[i] = held[s][i + 1]
  BY <1>1, TailIs
<1>4. PICK l \in Nat : l = Len(held[s]) BY <1>1
<1>5. PICK m \in Nat : m = Len(toClient[s]) BY <1>1
<1>6. /\ pc'[s] = "forwarding" => Len(g) > 0
      /\ pc'[s] \notin Empty
  <2>1. pc'[s] = "piping" \/ (pc'[s] = "forwarding" /\ Len(held[s]) # 1)
    BY <1>2 DEF AfterFrame
  <2>2. Len(held[s]) # 1 => Len(g) > 0
    <3> HIDE DEF g
    <3>1. Len(g) = l - 1 BY <1>3, <1>4
    <3>2. l > 0 BY <1>1, <1>4
    <3>3. l # 1 => l - 1 > 0 BY <3>2
    <3> QED BY <1>4, <3>1, <3>3
  <2> QED BY <2>1, <2>2 DEF Empty, Waiting
<1>7. CASE clientOpen[s]
  <2>1. toClient'[s] = Append(toClient[s], f) BY <1>7 DEF ForwardFrame, DownOK
  <2>2. f \in Frames BY <1>3, FrameTypes
  <2>3. /\ Len(toClient'[s]) = m + 1 /\ toClient'[s][m + 1] = f
        /\ \A i \in 1..m : toClient'[s][i] = toClient[s][i]
    BY <1>1, <1>5, <2>1, <2>2, AppendIs
  <2>4. m + l = taken[s] /\ \A i \in 1..l : held[s][i] = sent[s][m + i]
    BY <1>4, <1>5, <1>7 DEF Down
  <2>5. f = RewriteStackTrace(sent[s][m + 1])
    <3>1. 1 \in 1..l BY <1>1, <1>4
    <3> QED BY <1>3, <2>4, <3>1
  <2>6. m + 1 <= taken[s] /\ m + 1 <= Len(sent[s])
    <3>1. taken[s] <= Len(sent[s]) BY DEF Down
    <3> QED BY <1>1, <1>4, <2>4, <3>1
  <2>7. ASSUME NEW i \in 1..(m + 1)
        PROVE  toClient'[s][i] = RewriteStackTrace(sent[s][i])
    <3>1. CASE i = m + 1 BY <2>3, <2>5, <3>1
    <3>2. CASE i \in 1..m BY <1>5, <2>3, <3>2 DEF Down
    <3>3. i = m + 1 \/ i \in 1..m OBVIOUS
    <3> QED BY <3>1, <3>2, <3>3
  <2>8. Len(toClient'[s]) + Len(g) = taken[s]
    <3>1. Len(g) = l - 1 /\ Len(toClient'[s]) = m + 1 BY <1>3, <1>4, <2>3
    <3> HIDE DEF g
    <3> QED BY <2>4, <3>1
  <2>9. ASSUME NEW i \in 1..Len(g) PROVE g[i] = sent[s][Len(toClient'[s]) + i]
    <3>1. i \in Nat /\ i + 1 \in 1..l BY <1>3, <1>4
    <3>2. held[s][i + 1] = sent[s][m + (i + 1)] BY <2>4, <3>1
    <3>3. m + (i + 1) = (m + 1) + i BY <3>1
    <3> QED BY <1>3, <2>3, <3>2, <3>3
  <2> HIDE DEF f, g
  <2>10. \A i \in 1..Len(sent[s]) : sent[s][i].n = i /\ sent[s][i].path \in {"uri", "none"}
    BY DEF Down
  <2>11. taken[s] <= Len(sent[s]) BY DEF Down
  <2> QED BY <1>2, <1>6, <2>3, <2>6, <2>7, <2>8, <2>9, <2>10, <2>11 DEF Down, Empty
<1>8. CASE ~clientOpen[s]
  <2>1. toClient' = toClient BY <1>8 DEF ForwardFrame
  <2> QED BY <1>2, <1>6, <1>8, <2>1 DEF Down, Empty
<1> QED BY <1>7, <1>8

LEMMA FrameSent ==
    ASSUME DownOK, HandlerOK, NEW s \in Sessions, Down(s), AdapterSends(s)
    PROVE  Down(s)'
<1>1. /\ sent[s] \in Seq(Frames) /\ held[s] \in Seq(Frames)
      /\ toClient[s] \in Seq(Frames) /\ taken[s] \in Nat
  BY DEF DownOK
<1>2. /\ sent'[s] = Append(sent[s], FrameAfter(sent[s])) /\ held' = held
      /\ toClient' = toClient /\ taken' = taken /\ clientOpen' = clientOpen /\ pc' = pc
      /\ pc[s] \notin Empty
  BY DEF AdapterSends, Piping, DownOK, Empty, Waiting
<1>3. PICK n \in Nat : n = Len(sent[s]) BY <1>1
<1>4. FrameAfter(sent[s]) \in Frames /\ FrameAfter(sent[s]).n = n + 1
      /\ FrameAfter(sent[s]).path \in {"uri", "none"}
  BY <1>1, <1>3, FrameTypes
<1>5. /\ Len(sent'[s]) = n + 1 /\ sent'[s][n + 1] = FrameAfter(sent[s])
      /\ \A i \in 1..n : sent'[s][i] = sent[s][i]
  BY <1>1, <1>2, <1>3, <1>4, AppendIs
<1>6. ASSUME NEW i \in 1..Len(sent'[s])
      PROVE  sent'[s][i].n = i /\ sent'[s][i].path \in {"uri", "none"}
  <2>1. CASE i = n + 1 BY <1>4, <1>5, <2>1
  <2>2. CASE i \in 1..n BY <1>3, <1>5, <2>2 DEF Down
  <2>3. i = n + 1 \/ i \in 1..n BY <1>5
  <2> QED BY <2>1, <2>2, <2>3
<1>7. PICK m \in Nat : m = Len(toClient[s]) BY <1>1
<1>8. PICK l \in Nat : l = Len(held[s]) BY <1>1
<1>9. m <= n /\ taken[s] <= n BY <1>3, <1>7 DEF Down
<1>10. Len(toClient'[s]) <= Len(sent'[s]) /\ taken'[s] <= Len(sent'[s])
  BY <1>1, <1>2, <1>5, <1>7, <1>9
<1>11. ASSUME NEW i \in 1..Len(toClient'[s])
       PROVE  toClient'[s][i] = RewriteStackTrace(sent'[s][i])
  <2>1. i \in 1..m /\ i \in 1..n BY <1>2, <1>7, <1>9
  <2>2. toClient[s][i] = RewriteStackTrace(sent[s][i]) BY <1>7, <2>1 DEF Down
  <2> QED BY <1>2, <1>5, <2>1, <2>2
<1>12. ASSUME clientOpen'[s]
       PROVE  /\ Len(toClient'[s]) + Len(held'[s]) = taken'[s]
              /\ \A i \in 1..Len(held'[s]) :
                    held'[s][i] = sent'[s][Len(toClient'[s]) + i]
  <2>1. m + l = taken[s] /\ \A i \in 1..l : held[s][i] = sent[s][m + i]
    BY <1>2, <1>7, <1>8, <1>12 DEF Down
  <2>2. ASSUME NEW i \in 1..l PROVE held[s][i] = sent'[s][m + i]
    <3>1. m + i \in 1..n BY <1>1, <1>9, <2>1
    <3> QED BY <1>5, <2>1, <3>1
  <2> QED BY <1>2, <1>7, <1>8, <2>1, <2>2
<1>13. pc'[s] = "forwarding" => Len(held'[s]) > 0 BY <1>2 DEF Down
<1> QED BY <1>2, <1>6, <1>10, <1>11, <1>12, <1>13 DEF Down, Empty

(* What is read from Zed is the next that the adapter waits for, if it     *)
(* runs.                                                                   *)
LEMMA ChunkForwarded ==
    ASSUME HandlerOK, UpOK, NEW s \in Sessions, Up(s), Forward(s)
    PROVE  Up(s)'
<1>1. /\ asked[s] \in Seq(Nat) /\ toAdapter[s] \in Seq(Nat) /\ fwd[s] < Len(asked[s])
  BY DEF UpOK, Forward
<1>2. PICK n \in Nat : n = fwd[s] BY DEF UpOK
<1>3. /\ asked' = asked /\ target' = target /\ up' = up /\ fwd'[s] = n + 1
      /\ forwarder[s] = "running"
  BY <1>2 DEF Forward, UpOK
<1>4. target[s] # None BY <1>3 DEF Up
<1>5. n + 1 \in 1..Len(asked[s]) BY <1>1, <1>2
<1>6. PICK m \in Nat : m = Len(toAdapter[s]) BY <1>1
<1>7. m <= n /\ \A i \in 1..m : toAdapter[s][i] = asked[s][i] BY <1>2, <1>6 DEF Up
<1>8. CASE target[s] \in up
  <2>1. toAdapter'[s] = toAdapter[s] \o <<asked[s][n + 1]>>
    BY <1>3, <1>8 DEF Forward, Chunk, UpOK
  <2>2. asked[s][n + 1] \in Nat BY <1>1, <1>5
  <2>3. toAdapter'[s] = Append(toAdapter[s], asked[s][n + 1])
    BY <1>1, <2>1, <2>2, AppendProperties
  <2>4. m = n BY <1>2, <1>6, <1>8 DEF Up
  <2>5. /\ Len(toAdapter'[s]) = n + 1 /\ toAdapter'[s][n + 1] = asked[s][n + 1]
        /\ \A i \in 1..n : toAdapter'[s][i] = toAdapter[s][i]
    <3>1. PICK q \in Seq(Nat) : q = toAdapter[s] BY <1>1
    <3>2. PICK x \in Nat : x = asked[s][n + 1] BY <2>2
    <3>3. /\ Len(Append(q, x)) = Len(q) + 1 /\ Append(q, x)[Len(q) + 1] = x
          /\ \A i \in 1..Len(q) : Append(q, x)[i] = q[i]
      BY AppendIs
    <3>4. Len(q) = n BY <1>6, <2>4, <3>1
    <3> QED BY <2>3, <3>1, <3>2, <3>3, <3>4
  <2>6. ASSUME NEW i \in 1..(n + 1) PROVE toAdapter'[s][i] = asked[s][i]
    <3>1. CASE i = n + 1 BY <2>5, <3>1
    <3>2. CASE i \in 1..n BY <1>7, <2>4, <2>5, <3>2
    <3>3. i = n + 1 \/ i \in 1..n OBVIOUS
    <3> QED BY <3>1, <3>2, <3>3
  <2>7. n + 1 <= Len(asked[s]) BY <1>1, <1>2
  <2> QED BY <1>3, <1>4, <2>5, <2>6, <2>7 DEF Up
<1>9. CASE target[s] \notin up
  <2>1. toAdapter' = toAdapter BY <1>9 DEF Forward
  <2>2. n + 1 <= Len(asked[s]) /\ m <= n + 1 BY <1>1, <1>2, <1>7
  <2> QED BY <1>3, <1>4, <1>6, <1>7, <1>9, <2>1, <2>2 DEF Up
<1> QED BY <1>8, <1>9

LEMMA ChunkSent ==
    ASSUME UpOK, NEW s \in Sessions, Up(s), ZedSends(s)
    PROVE  Up(s)'
<1>1. asked[s] \in Seq(Nat) /\ toAdapter[s] \in Seq(Nat) BY DEF UpOK
<1>2. PICK n \in Nat : n = fwd[s] BY DEF UpOK
<1>3. PICK m \in Nat : m = Len(toAdapter[s]) BY <1>1
<1>4. PICK l \in Nat : l = Len(asked[s]) BY <1>1
<1>5. /\ asked'[s] = Append(asked[s], l + 1) /\ target' = target /\ up' = up
      /\ fwd' = fwd /\ toAdapter' = toAdapter /\ forwarder' = forwarder
  BY <1>4 DEF ZedSends, UpOK
<1>6. Len(asked'[s]) = l + 1 /\ \A i \in 1..l : asked'[s][i] = asked[s][i]
  BY <1>1, <1>4, <1>5, AppendIs
<1>7. n <= l /\ m <= n /\ \A i \in 1..m : toAdapter[s][i] = asked[s][i]
  BY <1>2, <1>3, <1>4 DEF Up
<1>8. \A i \in 1..m : toAdapter[s][i] = asked'[s][i] BY <1>6, <1>7
<1>9. n <= l + 1 BY <1>7
<1>10. m = n \/ (target[s] # None /\ target[s] \notin up) BY <1>2, <1>3 DEF Up
<1>11. forwarder[s] = "running" => target[s] # None BY DEF Up
<1> QED BY <1>2, <1>3, <1>5, <1>6, <1>7, <1>8, <1>9, <1>10, <1>11 DEF Up

LEMMA StepPiped == TypeOK /\ PortsOfStarted /\ CellIsOwn /\ Piped /\ [Next]_vars => Piped'
<1> SUFFICES ASSUME RouteOK, HandlerOK, DownOK, UpOK, PortsOfStarted, CellIsOwn, Piped,
                    [Next]_vars
             PROVE  Piped'
  BY TypeParts
<1>p. \A t \in Sessions : Down(t) /\ Up(t) BY DEF Piped
(* Steps that touch no stream.                                             *)
<1>q. ASSUME UNCHANGED downVars, UNCHANGED upVars,
             \A t \in Sessions :
                /\ clientOpen'[t] => clientOpen[t] \/ pc[t] \in Empty
                /\ pc'[t] = "forwarding" => pc[t] = "forwarding"
                /\ pc'[t] \in Empty => pc[t] \in Empty
                /\ target[t] # None => target'[t] = target[t]
                /\ target[t] # None /\ target[t] \notin up => target[t] \notin up'
      PROVE  Piped'
  <2>1. ASSUME NEW t \in Sessions PROVE Down(t)' /\ Up(t)'
    <3>1. Down(t)' BY <1>p, <1>q, DownKept DEF downVars
    <3>2. Up(t)' BY <1>p, <1>q, UpKept DEF upVars
    <3> QED BY <3>1, <3>2
  <2> QED BY <2>1 DEF Piped
<1>1. CASE UNCHANGED vars BY <1>1, <1>q DEF vars
<1>2. ASSUME NEW s \in Sessions, RouteRemember(s) PROVE Piped'
  <2>1. /\ UNCHANGED downVars /\ UNCHANGED upVars /\ pc' = pc /\ clientOpen' = clientOpen
        /\ target' = target /\ up' = up \cup {s} /\ ~Started(s)
    BY <1>2 DEF RouteRemember
  <2>2. \A t \in Sessions : target[t] # None => target[t] # s
    BY <2>1 DEF PortsOfStarted
  <2> QED BY <1>q, <2>1, <2>2
<1>3. ASSUME NEW s \in Sessions, RouteAnswer(s) \/ PollMisses(s) \/ Deadline(s)
                                 \/ ReadEof(s) \/ AdapterEnds(s) \/ ZedDisconnects(s)
      PROVE  Piped'
  <2>1. UNCHANGED downVars /\ UNCHANGED upVars /\ target' = target /\ up' \subseteq up
    BY <1>3 DEF RouteAnswer, PollMisses, Deadline, ReadEof, AdapterEnds, ZedDisconnects
  <2>2. \A t \in Sessions : clientOpen'[t] => clientOpen[t]
    BY <1>3 DEF RouteAnswer, PollMisses, Deadline, ReadEof, AdapterEnds, ZedDisconnects,
                HandlerOK
  <2>3. \/ pc' = pc
        \/ pc[s] = "polling" /\ pc' = [pc EXCEPT ![s] = "missed"]
        \/ pc' = [pc EXCEPT ![s] = "joining"]
    BY <1>3 DEF RouteAnswer, PollMisses, Deadline, ReadEof, AdapterEnds, ZedDisconnects,
                Goto
  <2>4. \A t \in Sessions : /\ pc'[t] = "forwarding" => pc[t] = "forwarding"
                            /\ pc'[t] \in Empty => pc[t] \in Empty
    BY <2>3 DEF HandlerOK, Empty, Waiting
  <2> QED BY <1>q, <2>1, <2>2, <2>4
<1>4. ASSUME NEW s \in Sessions, Accept(s) PROVE Piped'
  <2>1. /\ UNCHANGED downVars /\ UNCHANGED upVars /\ target' = target /\ up' = up
        /\ pc[s] = "none" /\ pc' = [pc EXCEPT ![s] = "polling"]
        /\ clientOpen' = [clientOpen EXCEPT ![s] = TRUE]
    BY <1>4 DEF Accept, Goto
  <2>2. \A t \in Sessions : /\ clientOpen'[t] => clientOpen[t] \/ pc[t] \in Empty
                            /\ pc'[t] = "forwarding" => pc[t] = "forwarding"
                            /\ pc'[t] \in Empty => pc[t] \in Empty
    BY <2>1 DEF HandlerOK, Empty, Waiting
  <2> QED BY <1>q, <2>1, <2>2
<1>5. ASSUME NEW s \in Sessions, PollSees(s) PROVE Piped'
  <2>1. /\ UNCHANGED downVars /\ UNCHANGED upVars /\ up' = up /\ clientOpen' = clientOpen
        /\ pc[s] = "polling" /\ pc' = [pc EXCEPT ![s] = "connecting"]
        /\ target' = [target EXCEPT ![s] = realPort]
    BY <1>5 DEF PollSees, Goto
  <2>2. \A t \in Sessions : /\ pc'[t] = "forwarding" => pc[t] = "forwarding"
                            /\ pc'[t] \in Empty => pc[t] \in Empty
    BY <2>1 DEF HandlerOK, Empty, Waiting
  <2>3. target[s] = None BY <2>1 DEF CellIsOwn, Waiting
  <2>4. \A t \in Sessions : target[t] # None => target'[t] = target[t]
    BY <2>1, <2>3 DEF HandlerOK
  <2> QED BY <1>q, <2>1, <2>2, <2>4
<1>6. ASSUME NEW s \in Sessions, GiveUpOrSleep(s) PROVE Piped'
  <2>1. target' = target /\ up' = up /\ pc[s] = "missed" BY <1>6 DEF GiveUpOrSleep
  <2>2. CASE Return(s) BY <2>1, <2>2, ReturnPiped
  <2>3. CASE Goto(s, "polling") /\ UNCHANGED clientOpen /\ UNCHANGED downVars
             /\ UNCHANGED upVars
    <3>1. \A t \in Sessions : /\ pc'[t] = "forwarding" => pc[t] = "forwarding"
                              /\ pc'[t] \in Empty => pc[t] \in Empty
      BY <2>1, <2>3 DEF HandlerOK, Goto, Empty, Waiting
    <3> QED BY <1>q, <2>1, <2>3, <3>1
  <2> QED BY <1>6, <2>2, <2>3 DEF GiveUpOrSleep
<1>7. ASSUME NEW s \in Sessions, Connect(s) PROVE Piped'
  <2>1. target' = target /\ up' = up /\ pc[s] = "connecting" BY <1>7 DEF Connect
  <2>2. CASE Return(s) BY <2>1, <2>2, ReturnPiped
  <2>3. CASE /\ target[s] \in up /\ Goto(s, "piping")
             /\ forwarder' = [forwarder EXCEPT ![s] = "running"]
             /\ UNCHANGED clientOpen /\ UNCHANGED downVars
             /\ asked' = asked /\ fwd' = fwd /\ toAdapter' = toAdapter
    <3>1. \A t \in Sessions : /\ pc'[t] = "forwarding" => pc[t] = "forwarding"
                              /\ pc'[t] \in Empty => pc[t] \in Empty
      BY <2>3 DEF HandlerOK, Goto, Empty, Waiting
    <3>2. target[s] # None BY <2>3, DapAssumption DEF RouteOK
    <3>3. ASSUME NEW t \in Sessions PROVE Down(t)' /\ Up(t)'
      <4>1. Down(t)' BY <1>p, <2>3, <3>1, DownKept DEF downVars
      <4>2. forwarder'[t] = "running" => forwarder[t] = "running" \/ target'[t] # None
        BY <2>1, <2>3, <3>2 DEF UpOK
      <4>3. Up(t)' BY <1>p, <2>1, <2>3, <4>2, UpKept
      <4> QED BY <4>1, <4>3
    <3> QED BY <3>3 DEF Piped
  <2> QED BY <1>7, <2>2, <2>3 DEF Connect
<1>8. ASSUME NEW s \in Sessions, NEW k \in 1..MaxTraffic, ReadFrames(s, k) PROVE Piped'
  <2>1. Down(s)' BY <1>8, <1>p, FramesRead
  <2>2. Up(s)' BY <1>8, <1>p, UpKept DEF ReadFrames, upVars
  <2>3. /\ sent' = sent /\ toClient' = toClient /\ clientOpen' = clientOpen
        /\ target' = target /\ up' = up /\ UNCHANGED upVars
    BY <1>8 DEF ReadFrames
  <2>4. \A t \in Sessions \ {s} :
           pc'[t] = pc[t] /\ taken'[t] = taken[t] /\ held'[t] = held[t]
    BY <1>8 DEF ReadFrames, Goto, HandlerOK, DownOK
  <2> QED BY <2>1, <2>2, <2>3, <2>4, OnlyOne DEF upVars
<1>9. ASSUME NEW s \in Sessions, ForwardFrame(s) PROVE Piped'
  <2>1. Down(s)' BY <1>9, <1>p, FrameForwarded
  <2>2. Up(s)' BY <1>9, <1>p, UpKept DEF ForwardFrame, upVars
  <2>3. /\ sent' = sent /\ taken' = taken /\ clientOpen' = clientOpen
        /\ target' = target /\ up' = up /\ UNCHANGED upVars
    BY <1>9 DEF ForwardFrame
  <2>4. \A t \in Sessions \ {s} :
           pc'[t] = pc[t] /\ toClient'[t] = toClient[t] /\ held'[t] = held[t]
    BY <1>9 DEF ForwardFrame, Goto, HandlerOK, DownOK
  <2> QED BY <2>1, <2>2, <2>3, <2>4, OnlyOne DEF upVars
<1>10. ASSUME NEW s \in Sessions, Join(s) PROVE Piped'
  BY <1>10, ReturnPiped DEF Join
<1>11. ASSUME NEW s \in Sessions, Forward(s) PROVE Piped'
  <2>1. Up(s)' BY <1>11, <1>p, ChunkForwarded
  <2>2. /\ pc' = pc /\ clientOpen' = clientOpen /\ target' = target /\ up' = up
        /\ asked' = asked /\ UNCHANGED downVars
    BY <1>11 DEF Forward
  <2>3. Down(s)' BY <1>p, <2>2, DownKept DEF downVars
  <2>4. \A t \in Sessions \ {s} : /\ forwarder'[t] = forwarder[t] /\ fwd'[t] = fwd[t]
                                  /\ toAdapter'[t] = toAdapter[t]
    BY <1>11 DEF Forward, UpOK
  <2> QED BY <2>1, <2>2, <2>3, <2>4, OnlyOne DEF downVars
<1>12. ASSUME NEW s \in Sessions, ForwardEof(s) PROVE Piped'
  <2>1. /\ pc' = pc /\ clientOpen' = clientOpen /\ target' = target /\ up' = up
        /\ asked' = asked /\ fwd' = fwd /\ toAdapter' = toAdapter /\ UNCHANGED downVars
    BY <1>12 DEF ForwardEof
  <2>2. \A t \in Sessions : forwarder'[t] = "running" => forwarder[t] = "running"
    BY <1>12 DEF ForwardEof, UpOK
  <2>3. ASSUME NEW t \in Sessions PROVE Down(t)' /\ Up(t)'
    <3>1. Down(t)' BY <1>p, <2>1, DownKept DEF downVars
    <3>2. Up(t)' BY <1>p, <2>1, <2>2, UpKept
    <3> QED BY <3>1, <3>2
  <2> QED BY <2>3 DEF Piped
<1>13. ASSUME NEW s \in Sessions, ZedSends(s) PROVE Piped'
  <2>1. Up(s)' BY <1>13, <1>p, ChunkSent
  <2>2. /\ pc' = pc /\ clientOpen' = clientOpen /\ target' = target /\ up' = up
        /\ forwarder' = forwarder /\ fwd' = fwd /\ toAdapter' = toAdapter
        /\ UNCHANGED downVars
    BY <1>13 DEF ZedSends
  <2>3. Down(s)' BY <1>p, <2>2, DownKept DEF downVars
  <2>4. \A t \in Sessions \ {s} : asked'[t] = asked[t] BY <1>13 DEF ZedSends, UpOK
  <2> QED BY <2>1, <2>2, <2>3, <2>4, OnlyOne DEF downVars
<1>14. ASSUME NEW s \in Sessions, AdapterSends(s) PROVE Piped'
  <2>1. Down(s)' BY <1>14, <1>p, FrameSent
  <2>2. /\ pc' = pc /\ clientOpen' = clientOpen /\ target' = target /\ up' = up
        /\ taken' = taken /\ held' = held /\ toClient' = toClient /\ UNCHANGED upVars
    BY <1>14 DEF AdapterSends
  <2>3. Up(s)' BY <1>p, <2>2, UpKept DEF upVars
  <2>4. \A t \in Sessions \ {s} : sent'[t] = sent[t] BY <1>14 DEF AdapterSends, DownOK
  <2> QED BY <2>1, <2>2, <2>3, <2>4, OnlyOne DEF upVars
<1> QED
  BY <1>1, <1>2, <1>3, <1>4, <1>5, <1>6, <1>7, <1>8, <1>9, <1>10, <1>11, <1>12, <1>13,
     <1>14
  DEF Next, Handler, Forwarder

-----------------------------------------------------------------------------
(* The theorems.                                                           *)

LEMMA InitInv == Init => IInv
<1> SUFFICES ASSUME Init PROVE IInv OBVIOUS
<1>1. <<>> \in Seq(Frames) /\ <<>> \in Seq(Nat) /\ Len(<<>>) = 0 OBVIOUS
<1>2. TypeOK
  <2>1. RouteOK BY DEF Init, RouteOK
  <2>2. HandlerOK BY DEF Init, HandlerOK, Steps
  <2>3. DownOK BY <1>1 DEF Init, DownOK
  <2>4. UpOK BY <1>1 DEF Init, UpOK
  <2> QED BY <2>1, <2>2, <2>3, <2>4, TypeParts
<1>3. PortsOfStarted BY DEF Init, PortsOfStarted
<1>4. CellIsOwn BY DapAssumption DEF Init, CellIsOwn, Started
<1>5. OwnAdapter BY DEF Init, OwnAdapter
<1>6. ASSUME NEW s \in Sessions PROVE Down(s) /\ Up(s)
  <2>1. /\ sent[s] = <<>> /\ taken[s] = 0 /\ held[s] = <<>> /\ toClient[s] = <<>>
        /\ clientOpen[s] = FALSE /\ pc[s] = "none"
    BY DEF Init
  <2>2. asked[s] = <<>> /\ fwd[s] = 0 /\ toAdapter[s] = <<>> /\ forwarder[s] = "none"
    BY DEF Init
  <2>3. Down(s) BY <2>1 DEF Down
  <2>4. Up(s) BY <2>2 DEF Up
  <2> QED BY <2>3, <2>4
<1> QED BY <1>2, <1>3, <1>4, <1>5, <1>6 DEF IInv, Piped

LEMMA Invariance == Spec => []IInv
<1>1. IInv /\ [Next]_vars => IInv'
  BY StepType, StepPorts, StepCell, StepPiped DEF IInv
<1> QED BY InitInv, <1>1, PTL DEF Spec

(* What the threads of the proxy share and pass on has its type: what is   *)
(* read, held and written of any stream are whole frames (dap.rs:45-80).   *)
THEOREM TypeCorrect == Spec => []TypeOK
<1>1. IInv => TypeOK BY DEF IInv
<1> QED BY Invariance, <1>1, PTL

(* A session that was answered before its client came and read its port    *)
(* before the next one was started talks to its own adapter, however many  *)
(* sessions share the proxy's port and its one cell (lsp.rs:61-76,         *)
(* dap.rs:28-43).                                                          *)
THEOREM SessionsReachTheirAdapter == Spec => []OwnAdapter
<1>1. IInv => OwnAdapter BY DEF IInv
<1> QED BY Invariance, <1>1, PTL

(* Over any chunks and at any step at which an end leaves, Zed has been    *)
(* sent the first frames of its adapter in order, with absolute paths, and *)
(* the adapter the first messages of Zed (dap.rs:45-80).                   *)
THEOREM StreamsKeepTheirOrder == Spec => []StreamsInOrder
<1>1. ASSUME IInv, NEW s \in Sessions
      PROVE  /\ \A i \in 1..Len(toClient[s]) :
                   /\ toClient[s][i].n = i
                   /\ sent[s][i].path = "none" <=> toClient[s][i].path = "none"
                   /\ toClient[s][i].path # "uri"
             /\ Len(toAdapter[s]) <= Len(asked[s])
             /\ \A i \in 1..Len(toAdapter[s]) : toAdapter[s][i] = asked[s][i]
  <2>1. DownOK /\ UpOK /\ Down(s) /\ Up(s) BY <1>1, TypeParts DEF IInv, Piped
  <2>2. sent[s] \in Seq(Frames) /\ toClient[s] \in Seq(Frames) /\ asked[s] \in Seq(Nat)
        /\ toAdapter[s] \in Seq(Nat) /\ fwd[s] \in Nat
    BY <2>1 DEF DownOK, UpOK
  <2>3. ASSUME NEW i \in 1..Len(toClient[s])
        PROVE  /\ toClient[s][i].n = i
               /\ sent[s][i].path = "none" <=> toClient[s][i].path = "none"
               /\ toClient[s][i].path # "uri"
    <3>1. i \in 1..Len(sent[s]) BY <2>1, <2>2 DEF Down
    <3>2. sent[s][i] \in Frames /\ sent[s][i].n = i BY <2>1, <2>2, <3>1 DEF Down
    <3>3. toClient[s][i] = RewriteStackTrace(sent[s][i]) BY <2>1 DEF Down
    <3> QED BY <3>2, <3>3, FrameTypes
  <2>4. Len(toAdapter[s]) <= Len(asked[s])
    <3>1. Len(toAdapter[s]) \in Nat /\ Len(asked[s]) \in Nat BY <2>2
    <3> QED BY <2>1, <2>2, <3>1 DEF Up
  <2> QED BY <2>1, <2>3, <2>4 DEF Up
<1>2. IInv => StreamsInOrder BY <1>1 DEF StreamsInOrder
<1> QED BY Invariance, <1>2, PTL

-----------------------------------------------------------------------------
(* The framing its connections are read through: the inductive invariant.  *)

(* The end of the first k messages, and a message in its place.            *)
End(e, k) == IF k = 0 THEN 0 ELSE e[k]
LiesAt(q, m, at) ==
    /\ at + Len(EncodeFrame(m)) <= Len(q)
    /\ \A j \in 1..Len(EncodeFrame(m)) : q[at + j] = EncodeFrame(m)[j]

(* The readable messages lie one behind the other; behind them is either   *)
(* nothing or a message whose header cannot be read.                       *)
Laid ==
    /\ Len(ends) <= Len(written)
    /\ \A k \in 1..Len(ends) :
          /\ written[k].header # "bad" /\ LiesAt(stream, written[k], End(ends, k - 1))
          /\ ends[k] = End(ends, k - 1) + Len(EncodeFrame(written[k]))
    /\ Len(ends) = Len(written) => End(ends, Len(ends)) = Len(stream)
    /\ Len(ends) < Len(written) =>
          /\ written[Len(ends) + 1].header = "bad"
          /\ LiesAt(stream, written[Len(ends) + 1], End(ends, Len(ends)))

(* Any place of the stream is behind a certain number of messages.         *)
Counted ==
    /\ \A i, k \in 1..Len(ends) : i < k => ends[i] < ends[k]
    /\ \A n \in Nat : \E k \in 0..Len(ends) : Arrived(k, n)

(* The reader has delivered the first messages and holds what it has read  *)
(* behind them; when it reads, no other one has arrived.                   *)
InStep ==
    /\ Len(out) <= Len(ends)
    /\ \A k \in 1..Len(out) : out[k] = written[k].body
    /\ fed = End(ends, Len(out)) + Len(buf)
    /\ \A j \in 1..Len(buf) : buf[j] = stream[End(ends, Len(out)) + j]
    /\ loop = "reading" => Arrived(Len(out), fed)

FrameInv == FrameTypeOK /\ Laid /\ Counted /\ InStep

-----------------------------------------------------------------------------
(* A header: its lines, and the line ends between them.                    *)
Height(header) == IF header \in {"plain", "bad"} THEN 1 ELSE 3

LEMMA SymbolsDiffer ==
    ASSUME NEW n \in Nat
    PROVE  /\ LengthLine(n) \in Symbols /\ OtherLine \in Symbols /\ LineEnd \in Symbols
           /\ LengthLine(n) # LineEnd /\ OtherLine # LineEnd
           /\ LengthLine(n)[1] = "length" /\ OtherLine[1] # "length" /\ LineEnd[1] # "length"
           /\ \A i \in Nat : LengthLine(n) = LengthLine(i) => n = i
  BY DEF LengthLine, OtherLine, LineEnd, Symbols

LEMMA HeightIs ==
    ASSUME NEW header \in Headers
    PROVE  Height(header) \in Nat /\ (Height(header) = 1 \/ Height(header) = 3)
  BY DEF Height

(* What next_frame depends on: no terminator inside, and which line gives  *)
(* the length.                                                             *)
HeaderShape(lines, h, header, n) ==
    /\ lines \in Seq(Symbols) /\ Len(lines) = h
    /\ \A i \in 1..h : i # 2 => lines[i] # LineEnd
    /\ header = "bad" => \A i \in 1..h : lines[i][1] # "length"
    /\ header # "bad" => \E i \in 1..h :
          lines[i] = LengthLine(n) /\ \A j \in 1..h : j # i => lines[j][1] # "length"

LEMMA HeaderIs ==
    ASSUME NEW header \in Headers, NEW n \in Nat
    PROVE  HeaderShape(HeaderLines(header, n), Height(header), header, n)
<1>1. PICK l \in Symbols : l = LengthLine(n) /\ l # LineEnd /\ l[1] = "length"
  BY SymbolsDiffer
<1>2. PICK o \in Symbols : o = OtherLine /\ o # LineEnd /\ o[1] # "length"
  BY SymbolsDiffer
<1>3. PICK e \in Symbols : e = LineEnd /\ e[1] # "length"
  BY SymbolsDiffer
<1>4. CASE header = "plain" \/ header = "bad"
  <2>1. PICK x \in Symbols : /\ HeaderLines(header, n) = <<x>> /\ x # LineEnd
                             /\ header = "bad" => x[1] # "length"
                             /\ header # "bad" => x = LengthLine(n)
    BY <1>1, <1>2, <1>4 DEF HeaderLines
  <2>2. PICK q : q = <<x>> /\ q \in Seq(Symbols) /\ Len(q) = 1 /\ q[1] = x
    <3>1. <<x>> \in Seq(Symbols) /\ Len(<<x>>) = 1 /\ <<x>>[1] = x OBVIOUS
    <3> QED BY <3>1
  <2>3. Height(header) = 1 /\ \A i \in 1..1 : i = 1 BY <1>4 DEF Height
  <2>4. HeaderShape(q, 1, header, n)
    <3>1. 1 \in 1..1 OBVIOUS
    <3>2. \A i \in 1..1 : q[i] = x BY <2>2, <2>3
    <3>3. header # "bad" => q[1] = LengthLine(n) /\ \A j \in 1..1 : j # 1 => q[j][1] # "length"
      <4>1. \A j \in 1..1 : ~(j # 1) BY <2>3
      <4>2. header # "bad" => q[1] = LengthLine(n) BY <2>1, <2>2
      <4> QED BY <4>1, <4>2
    <3>4. \A i \in 1..1 : i # 2 => q[i] # LineEnd BY <2>1, <3>2
    <3>5. header = "bad" => \A i \in 1..1 : q[i][1] # "length" BY <2>1, <3>2
    <3> QED BY <2>2, <3>1, <3>3, <3>4, <3>5 DEF HeaderShape
  <2> QED BY <2>1, <2>2, <2>3, <2>4, Zenon
<1>5. CASE header = "typeFirst" \/ header = "typeLast"
  <2>1. \/ HeaderLines(header, n) = <<o, e, l>>
        \/ HeaderLines(header, n) = <<l, e, o>>
    BY <1>1, <1>2, <1>3, <1>5 DEF HeaderLines
  <2>2. Height(header) = 3 /\ header # "bad" BY <1>5 DEF Height
  <2>3. \A i \in 1..3 : i = 1 \/ i = 2 \/ i = 3 OBVIOUS
  <2>4. 1 \in 1..3 /\ 3 \in 1..3 OBVIOUS
  <2>5. HeaderShape(<<o, e, l>>, 3, header, n)
    <3>1. PICK q : /\ q = <<o, e, l>> /\ q \in Seq(Symbols) /\ Len(q) = 3
                   /\ q[1] = o /\ q[2] = e /\ q[3] = l
      <4>1. /\ <<o, e, l>> \in Seq(Symbols) /\ Len(<<o, e, l>>) = 3
            /\ <<o, e, l>>[1] = o /\ <<o, e, l>>[2] = e /\ <<o, e, l>>[3] = l
        BY TuplesAre
      <4> QED BY <4>1
    <3>2. \A j \in 1..3 : j # 3 => q[j][1] # "length" BY <1>2, <1>3, <2>3, <3>1
    <3>3. \A j \in 1..3 : j # 2 => q[j] # LineEnd BY <1>1, <1>2, <2>3, <3>1
    <3> QED BY <1>1, <2>2, <2>4, <3>1, <3>2, <3>3 DEF HeaderShape
  <2>6. HeaderShape(<<l, e, o>>, 3, header, n)
    <3>1. PICK q : /\ q = <<l, e, o>> /\ q \in Seq(Symbols) /\ Len(q) = 3
                   /\ q[1] = l /\ q[2] = e /\ q[3] = o
      <4>1. /\ <<l, e, o>> \in Seq(Symbols) /\ Len(<<l, e, o>>) = 3
            /\ <<l, e, o>>[1] = l /\ <<l, e, o>>[2] = e /\ <<l, e, o>>[3] = o
        BY TuplesAre
      <4> QED BY <4>1
    <3>2. \A j \in 1..3 : j # 1 => q[j][1] # "length" BY <1>2, <1>3, <2>3, <3>1
    <3>3. \A j \in 1..3 : j # 2 => q[j] # LineEnd BY <1>1, <1>2, <2>3, <3>1
    <3> QED BY <1>1, <2>2, <2>4, <3>1, <3>2, <3>3 DEF HeaderShape
  <2> QED BY <2>1, <2>2, <2>5, <2>6
<1> QED BY <1>4, <1>5 DEF Headers

(* A message: its header, the terminator, its body.                        *)
EncodedShape(e, h, n, m) ==
    /\ m.header \in Headers /\ m.body \in Seq(Symbols) /\ Len(m.body) = n
    /\ e \in Seq(Symbols) /\ Len(e) = h + 2 + n
    /\ \A i \in 1..h : e[i] = HeaderLines(m.header, n)[i]
    /\ e[h + 1] = LineEnd /\ e[h + 2] = LineEnd
    /\ \A i \in 1..n : e[h + 2 + i] = m.body[i]

LEMMA EncodedIs ==
    ASSUME NEW m \in Written
    PROVE  EncodedShape(EncodeFrame(m), Height(m.header), Len(m.body), m)
<1>1. m.header \in Headers /\ m.body \in Seq(Symbols)
  BY FramingAssumption DEF Written
<1>2. PICK b \in Seq(Symbols) : b = m.body BY <1>1
<1>3. PICK n \in Nat : n = Len(b) OBVIOUS
<1>4. PICK h \in Nat : h = Height(m.header) BY <1>1, HeightIs
<1>5. PICK q \in Seq(Symbols) : q = HeaderLines(m.header, n) /\ Len(q) = h
  BY <1>1, <1>4, HeaderIs DEF HeaderShape
<1>6. PICK t : /\ t = <<LineEnd, LineEnd>> /\ t \in Seq(Symbols) /\ Len(t) = 2
               /\ t[1] = LineEnd /\ t[2] = LineEnd
  <2>1. LineEnd \in Symbols BY SymbolsDiffer
  <2>2. PICK x \in Symbols : x = LineEnd BY <2>1
  <2>3. <<x, x>> \in Seq(Symbols) /\ Len(<<x, x>>) = 2 /\ <<x, x>>[1] = x /\ <<x, x>>[2] = x
    OBVIOUS
  <2> QED BY <2>2, <2>3
<1>7. PICK p :
        /\ p = q \o t /\ p \in Seq(Symbols) /\ Len(p) = h + 2
        /\ \A i \in 1..h : p[i] = q[i]
        /\ \A i \in 1..2 : p[h + i] = t[i]
  <2>1. /\ q \o t \in Seq(Symbols) /\ Len(q \o t) = h + 2
        /\ \A i \in 1..h : (q \o t)[i] = q[i]
        /\ \A i \in 1..2 : (q \o t)[h + i] = t[i]
    <3>1. /\ q \o t \in Seq(Symbols) /\ Len(q \o t) = Len(q) + Len(t)
          /\ \A i \in 1..Len(q) : (q \o t)[i] = q[i]
          /\ \A i \in 1..Len(t) : (q \o t)[Len(q) + i] = t[i]
      BY <1>6, JoinIs
    <3> QED BY <1>5, <1>6, <3>1
  <2> QED BY <2>1
<1>8. PICK e :
        /\ e = p \o b /\ e \in Seq(Symbols) /\ Len(e) = h + 2 + n
        /\ \A i \in 1..(h + 2) : e[i] = p[i]
        /\ \A i \in 1..n : e[h + 2 + i] = b[i]
  <2>1. PICK l \in Nat : l = h + 2 OBVIOUS
  <2>2. /\ p \o b \in Seq(Symbols) /\ Len(p \o b) = l + n
        /\ \A i \in 1..l : (p \o b)[i] = p[i]
        /\ \A i \in 1..n : (p \o b)[l + i] = b[i]
    <3>1. /\ p \o b \in Seq(Symbols) /\ Len(p \o b) = Len(p) + Len(b)
          /\ \A i \in 1..Len(p) : (p \o b)[i] = p[i]
          /\ \A i \in 1..Len(b) : (p \o b)[Len(p) + i] = b[i]
      <4>1. p \in Seq(Symbols) /\ b \in Seq(Symbols) BY <1>2, <1>7
      <4> QED BY <4>1, JoinIs
    <3> QED BY <1>3, <1>7, <2>1, <3>1
  <2> QED BY <2>1, <2>2
<1>9. EncodeFrame(m) = e
  <2>1. EncodeFrame(m) = (q \o t) \o b BY <1>2, <1>3, <1>5, <1>6 DEF EncodeFrame
  <2> QED BY <1>7, <1>8, <2>1
<1>10. ASSUME NEW i \in 1..h PROVE e[i] = q[i]
  <2>1. i \in 1..(h + 2) OBVIOUS
  <2> QED BY <1>7, <1>8, <2>1
<1>11. e[h + 1] = LineEnd /\ e[h + 2] = LineEnd
  <2>1. 1 \in 1..2 /\ 2 \in 1..2 /\ h + 1 \in 1..(h + 2) /\ h + 2 \in 1..(h + 2) OBVIOUS
  <2>2. p[h + 1] = t[1] /\ p[h + 2] = t[2] BY <1>7, <2>1
  <2> QED BY <1>6, <1>8, <2>1, <2>2
<1>12. EncodedShape(e, h, n, m)
  BY <1>1, <1>2, <1>3, <1>5, <1>8, <1>10, <1>11 DEF EncodedShape
<1> QED BY <1>2, <1>3, <1>4, <1>9, <1>12


(* What next_frame finds in a buffer that begins like a message: that      *)
(* message, if its header can be read and all of it is there; or nothing.  *)
BeginsLike(b, m) ==
    \A j \in 1..Len(b) : j <= Len(EncodeFrame(m)) => b[j] = EncodeFrame(m)[j]

LEMMA TerminatorIs ==
    ASSUME NEW m \in Written, NEW b \in Seq(Symbols), BeginsLike(b, m), NEW end \in Nat,
           end > 0
    PROVE  FirstTerminator(b, end) <=>
               end = Height(m.header) + 1 /\ Len(b) >= Height(m.header) + 2
<1>1. PICK h \in Nat : h = Height(m.header) /\ (h = 1 \/ h = 3)
  BY EncodedIs, HeightIs DEF EncodedShape
<1>2. PICK n \in Nat : n = Len(m.body)
  BY EncodedIs DEF EncodedShape
<1>3. PICK e \in Seq(Symbols) : e = EncodeFrame(m) /\ EncodedShape(e, h, n, m)
  <2>1. EncodedShape(EncodeFrame(m), h, n, m) BY <1>1, <1>2, EncodedIs
  <2>2. EncodeFrame(m) \in Seq(Symbols) BY <2>1 DEF EncodedShape
  <2> QED BY <2>1, <2>2
<1>4. PICK l \in Nat : l = Len(b) OBVIOUS
<1>5. \A j \in 1..l : j <= h + 2 + n => b[j] = e[j]
  BY <1>3, <1>4 DEF BeginsLike, EncodedShape
<1>6. \A j \in 1..h : j # 2 => e[j] # LineEnd
  <2>1. HeaderShape(HeaderLines(m.header, n), h, m.header, n)
    BY <1>1, <1>3, HeaderIs DEF EncodedShape
  <2> QED BY <1>3, <2>1 DEF EncodedShape, HeaderShape
<1>7. \A j \in 1..h : ~IsTerminator(b, j)
  <2>1. SUFFICES ASSUME NEW j \in 1..h, j + 1 <= l, b[j] = LineEnd, b[j + 1] = LineEnd
                 PROVE  FALSE
    BY <1>4 DEF IsTerminator
  <2>2. j \in 1..l /\ j <= h + 2 + n /\ j + 1 \in 1..l /\ j + 1 <= h + 2 + n BY <2>1
  <2>3. e[j] = LineEnd /\ e[j + 1] = LineEnd BY <1>5, <2>1, <2>2
  <2>4. j = 2 BY <1>6, <2>3
  <2>5. j + 1 = 3 /\ j + 1 \in 1..h BY <1>1, <2>4
  <2> QED BY <1>6, <2>3, <2>5
<1>8. ASSUME l >= h + 2 PROVE IsTerminator(b, h + 1)
  <2>1. /\ h + 1 \in 1..l /\ h + 1 <= h + 2 + n /\ h + 2 \in 1..l /\ h + 2 <= h + 2 + n
        /\ (h + 1) + 1 = h + 2
    BY <1>8
  <2>2. b[h + 1] = LineEnd /\ b[h + 2] = LineEnd BY <1>3, <1>5, <2>1 DEF EncodedShape
  <2> QED BY <1>4, <1>8, <2>1, <2>2 DEF IsTerminator
<1>9. ASSUME IsTerminator(b, h + 1) PROVE l >= h + 2 BY <1>4, <1>9 DEF IsTerminator
<1>10. \A j \in 1..((h + 1) - 1) : ~IsTerminator(b, j) BY <1>7
<1>11. ASSUME FirstTerminator(b, end) PROVE end = h + 1 /\ l >= h + 2
  <2>1. ~(end < h + 1) BY <1>7, <1>11 DEF FirstTerminator
  <2>2. ~(end > h + 1)
    <3>1. SUFFICES ASSUME end > h + 1 PROVE FALSE OBVIOUS
    <3>2. end + 1 <= l BY <1>4, <1>11 DEF FirstTerminator, IsTerminator
    <3>3. IsTerminator(b, h + 1) BY <1>8, <3>1, <3>2
    <3>4. h + 1 \in 1..(end - 1) BY <3>1
    <3> QED BY <1>11, <3>3, <3>4 DEF FirstTerminator
  <2>3. end = h + 1 BY <2>1, <2>2
  <2> QED BY <1>9, <1>11, <2>3 DEF FirstTerminator
<1>12. ASSUME end = h + 1, l >= h + 2 PROVE FirstTerminator(b, end)
  BY <1>8, <1>10, <1>12 DEF FirstTerminator
<1> QED BY <1>1, <1>4, <1>11, <1>12

LEMMA FrameIs ==
    ASSUME NEW m \in Written, NEW b \in Seq(Symbols), BeginsLike(b, m),
           NEW start \in Nat, NEW n \in Nat
    PROVE  IsFrame(b, start, n) <=>
               /\ m.header # "bad" /\ Len(b) >= Len(EncodeFrame(m))
               /\ start = Height(m.header) + 3 /\ n = Len(m.body)
<1>1. PICK h \in Nat : h = Height(m.header) /\ (h = 1 \/ h = 3)
  BY EncodedIs, HeightIs DEF EncodedShape
<1>2. PICK k \in Nat : k = Len(m.body)
  BY EncodedIs DEF EncodedShape
<1>3. PICK e \in Seq(Symbols) : e = EncodeFrame(m) /\ EncodedShape(e, h, k, m)
  <2>1. EncodedShape(EncodeFrame(m), h, k, m) BY <1>1, <1>2, EncodedIs
  <2>2. EncodeFrame(m) \in Seq(Symbols) BY <2>1 DEF EncodedShape
  <2> QED BY <2>1, <2>2
<1>4. PICK l \in Nat : l = Len(b) OBVIOUS
<1>5. PICK q : q = HeaderLines(m.header, k) /\ HeaderShape(q, h, m.header, k)
  BY <1>1, <1>3, HeaderIs DEF EncodedShape
<1>6. ASSUME l >= h + 2, NEW j \in 1..h PROVE b[j] = q[j]
  <2>1. j \in 1..l /\ j <= h + 2 + k BY <1>6
  <2>2. b[j] = e[j] BY <1>3, <1>4, <2>1 DEF BeginsLike, EncodedShape
  <2> QED BY <1>3, <1>5, <2>2 DEF EncodedShape
<1>7. Len(EncodeFrame(m)) = h + 2 + k BY <1>3 DEF EncodedShape
<1>8. ASSUME IsFrame(b, start, n)
      PROVE  m.header # "bad" /\ l >= h + 2 + k /\ start = h + 3 /\ n = k
  <2>1. PICK end \in 1..l : /\ FirstTerminator(b, end) /\ start = end + 2
                            /\ \E i \in 1..(end - 1) : GivesLength(b, i, n)
                            /\ l >= start + n - 1
    BY <1>4, <1>8 DEF IsFrame, BodyStart, FullyBuffered
  <2>2. end \in Nat /\ end > 0 OBVIOUS
  <2>3. end = h + 1 /\ l >= h + 2 BY <1>1, <1>4, <2>1, <2>2, TerminatorIs
  <2>4. PICK i \in 1..h : GivesLength(b, i, n)
    <3>1. end - 1 = h BY <2>3
    <3> QED BY <2>1, <3>1
  <2>5. q[i] = LengthLine(n) BY <1>6, <2>3, <2>4 DEF GivesLength
  <2>6. q[i][1] = "length" BY <2>5, SymbolsDiffer
  <2>7. m.header # "bad" BY <1>5, <2>6 DEF HeaderShape
  <2>8. PICK r \in 1..h : q[r] = LengthLine(k) /\ \A j \in 1..h : j # r => q[j][1] # "length"
    BY <1>5, <2>7 DEF HeaderShape
  <2>9. LengthLine(n) = LengthLine(k) BY <2>5, <2>6, <2>8
  <2>10. n = k BY <2>9, SymbolsDiffer
  <2> QED BY <2>1, <2>3, <2>7, <2>10
<1>9. ASSUME m.header # "bad", l >= h + 2 + k, start = h + 3, n = k
      PROVE  IsFrame(b, start, n)
  <2>1. h + 1 \in 1..l /\ h + 1 \in Nat /\ h + 1 > 0 /\ l >= h + 2 BY <1>9
  <2>2. FirstTerminator(b, h + 1) BY <1>1, <1>4, <2>1, TerminatorIs
  <2>3. start = BodyStart(h + 1) /\ FullyBuffered(b, start, n)
    BY <1>4, <1>9 DEF BodyStart, FullyBuffered
  <2>4. PICK r \in 1..h : q[r] = LengthLine(k) /\ \A j \in 1..h : j # r => q[j][1] # "length"
    BY <1>5, <1>9 DEF HeaderShape
  <2>5. b[r] = LengthLine(n) BY <1>6, <1>9, <2>1, <2>4
  <2>6. ASSUME NEW j \in 1..(r - 1) PROVE b[j][1] # "length"
    <3>1. j \in 1..h /\ j # r OBVIOUS
    <3> QED BY <1>6, <2>1, <2>4, <3>1
  <2>7. GivesLength(b, r, n) /\ r \in 1..((h + 1) - 1) BY <2>5, <2>6 DEF GivesLength
  <2> QED BY <1>4, <2>1, <2>2, <2>3, <2>7 DEF IsFrame
<1> QED BY <1>1, <1>2, <1>4, <1>7, <1>8, <1>9

LEMMA FoundIs ==
    ASSUME NEW m \in Written, NEW b \in Seq(Symbols), BeginsLike(b, m)
    PROVE  /\ FoundFrames(b) # {} <=> m.header # "bad" /\ Len(b) >= Len(EncodeFrame(m))
           /\ \A f \in FoundFrames(b) : f[1] = Height(m.header) + 3 /\ f[2] = Len(m.body)
<1>1. PICK h \in Nat : h = Height(m.header)
  BY EncodedIs, HeightIs DEF EncodedShape
<1>2. PICK k \in Nat : k = Len(m.body)
  BY EncodedIs DEF EncodedShape
<1>3. PICK l \in Nat : l = Len(b) OBVIOUS
<1>4. Len(EncodeFrame(m)) = h + 2 + k BY <1>1, <1>2, EncodedIs DEF EncodedShape
<1>5. ASSUME NEW f \in FoundFrames(b)
      PROVE  m.header # "bad" /\ l >= h + 2 + k /\ f[1] = h + 3 /\ f[2] = k
  <2>1. f \in (1..(l + 1)) \X (0..l) /\ IsFrame(b, f[1], f[2]) BY <1>3 DEF FoundFrames
  <2>2. f[1] \in Nat /\ f[2] \in Nat BY <2>1
  <2> QED BY <1>1, <1>2, <1>3, <1>4, <2>1, <2>2, FrameIs
<1>6. ASSUME m.header # "bad", l >= h + 2 + k PROVE FoundFrames(b) # {}
  <2>1. IsFrame(b, h + 3, k) BY <1>1, <1>2, <1>3, <1>4, <1>6, FrameIs
  <2>2. h + 3 \in 1..(l + 1) /\ k \in 0..l BY <1>6
  <2>3. <<h + 3, k>> \in (1..(l + 1)) \X (0..l) BY <2>2
  <2>4. <<h + 3, k>> \in FoundFrames(b) BY <1>3, <2>1, <2>3 DEF FoundFrames
  <2> QED BY <2>4
<1> QED BY <1>1, <1>2, <1>3, <1>4, <1>5, <1>6

LEMMA NothingInNothing == FoundFrames(<<>>) = {}
  BY DEF FoundFrames, IsFrame

-----------------------------------------------------------------------------
(* Type correctness and the place of the reader.                           *)

LEMMA SizeIs ==
    ASSUME NEW m \in Written
    PROVE  /\ EncodeFrame(m) \in Seq(Symbols) /\ Len(EncodeFrame(m)) \in Nat
           /\ Len(EncodeFrame(m)) > 2
<1>1. PICK h \in Nat : h = Height(m.header) /\ h > 0
  BY EncodedIs, HeightIs DEF EncodedShape
<1>2. PICK k \in Nat : k = Len(m.body)
  BY EncodedIs DEF EncodedShape
<1>3. EncodeFrame(m) \in Seq(Symbols) /\ Len(EncodeFrame(m)) = h + 2 + k
  BY <1>1, <1>2, EncodedIs DEF EncodedShape
<1> QED BY <1>1, <1>2, <1>3

LEMMA EndIs ==
    ASSUME FrameTypeOK, Laid, NEW k \in 0..Len(ends)
    PROVE  End(ends, k) \in Nat /\ End(ends, k) <= Len(stream)
<1>1. CASE k = 0
  <2>1. End(ends, k) = 0 BY <1>1 DEF End
  <2>2. Len(stream) \in Nat BY DEF FrameTypeOK
  <2> QED BY <2>1, <2>2
<1>2. CASE k # 0
  <2>1. k \in 1..Len(ends) BY <1>2
  <2>2. End(ends, k) = ends[k] /\ ends[k] \in Nat BY <1>2, <2>1 DEF End, FrameTypeOK
  <2>3. /\ End(ends, k - 1) + Len(EncodeFrame(written[k])) <= Len(stream)
        /\ ends[k] = End(ends, k - 1) + Len(EncodeFrame(written[k]))
    BY <2>1 DEF Laid, LiesAt
  <2> QED BY <2>2, <2>3
<1> QED BY <1>1, <1>2

(* What the reader holds is the beginning of the next message, if there is *)
(* one.                                                                    *)
LEMMA FrontIs ==
    ASSUME FrameTypeOK, Laid, InStep
    PROVE  /\ Len(out) = Len(written) => buf = <<>>
           /\ Len(out) < Len(written) =>
                 /\ written[Len(out) + 1] \in Written
                 /\ BeginsLike(buf, written[Len(out) + 1])
                 /\ LiesAt(stream, written[Len(out) + 1], End(ends, Len(out)))
           /\ written[Len(out) + 1].header # "bad" /\ Len(out) < Len(written) =>
                 /\ Len(out) < Len(ends)
                 /\ ends[Len(out) + 1] =
                       End(ends, Len(out)) + Len(EncodeFrame(written[Len(out) + 1]))
<1>1. PICK p \in Nat : p = Len(out) BY DEF FrameTypeOK
<1>2. PICK k \in Nat : k = Len(ends) BY DEF FrameTypeOK
<1>3. PICK w \in Nat : w = Len(written) BY DEF FrameTypeOK
<1>4. PICK s \in Nat : s = Len(stream) BY DEF FrameTypeOK
<1>5. PICK l \in Nat : l = Len(buf) BY DEF FrameTypeOK
<1>6. p <= k /\ k <= w BY <1>1, <1>2, <1>3 DEF InStep, Laid
<1>7. PICK at \in Nat : at = End(ends, p) BY <1>2, <1>6, EndIs
<1>8. fed = at + l /\ fed <= s /\ \A j \in 1..l : buf[j] = stream[at + j]
  BY <1>1, <1>4, <1>5, <1>7 DEF InStep, FrameTypeOK
<1>9. ASSUME p = w PROVE buf = <<>>
  <2>1. p = k BY <1>6, <1>9
  <2>2. at = s BY <1>2, <1>3, <1>4, <1>7, <1>9, <2>1 DEF Laid
  <2>3. l = 0 BY <1>8, <2>2
  <2>4. buf \in Seq(Symbols) /\ Len(buf) = 0 BY <1>5, <2>3 DEF FrameTypeOK
  <2> QED BY <2>4, EmptySeq
<1>10. ASSUME p < w
       PROVE  /\ written[p + 1] \in Written /\ LiesAt(stream, written[p + 1], at)
              /\ p < k => ends[p + 1] = at + Len(EncodeFrame(written[p + 1]))
              /\ ~(p < k) => written[p + 1].header = "bad"
  <2>1. written[p + 1] \in Written
    <3>1. p + 1 \in 1..w BY <1>10
    <3> QED BY <1>3, <3>1 DEF FrameTypeOK
  <2>2. CASE p < k
    <3>1. p + 1 \in 1..k /\ (p + 1) - 1 = p BY <2>2
    <3>2. LiesAt(stream, written[p + 1], End(ends, (p + 1) - 1)) /\
          ends[p + 1] = End(ends, (p + 1) - 1) + Len(EncodeFrame(written[p + 1]))
      BY <1>2, <3>1 DEF Laid
    <3> QED BY <1>7, <2>1, <2>2, <3>1, <3>2
  <2>3. CASE ~(p < k)
    <3>1. p = k BY <1>6, <2>3
    <3>2. written[p + 1].header = "bad" /\ LiesAt(stream, written[p + 1], End(ends, p))
      BY <1>2, <1>3, <1>10, <3>1 DEF Laid
    <3> QED BY <1>7, <2>1, <2>3, <3>2
  <2> QED BY <2>2, <2>3
<1>11. ASSUME p < w PROVE BeginsLike(buf, written[p + 1])
  <2>1. PICK e \in Seq(Symbols) : e = EncodeFrame(written[p + 1]) BY <1>10, <1>11, SizeIs
  <2>2. SUFFICES ASSUME NEW j \in 1..l, j <= Len(e) PROVE buf[j] = e[j]
    BY <1>5, <2>1 DEF BeginsLike
  <2>3. j \in 1..Len(e) BY <2>1, <2>2
  <2>4. stream[at + j] = e[j] BY <1>10, <1>11, <2>1, <2>3 DEF LiesAt
  <2> QED BY <1>8, <2>2, <2>4
<1> QED BY <1>1, <1>2, <1>3, <1>7, <1>9, <1>10, <1>11

(* A message is sent.                                                      *)
LEMMA WriteIs ==
    ASSUME FrameTypeOK, Laid, NEW m \in Written, Write(m)
    PROVE  /\ stream' \in Seq(Symbols) /\ Len(stream') = Len(stream) + Len(EncodeFrame(m))
           /\ \A j \in 1..Len(stream) : stream'[j] = stream[j]
           /\ \A j \in 1..Len(EncodeFrame(m)) : stream'[Len(stream) + j] = EncodeFrame(m)[j]
           /\ written' \in Seq(Written) /\ Len(written') = Len(written) + 1
           /\ written'[Len(written) + 1] = m
           /\ \A j \in 1..Len(written) : written'[j] = written[j]
<1>1. EncodeFrame(m) \in Seq(Symbols) BY SizeIs
<1>2. stream' = stream \o EncodeFrame(m) /\ written' = Append(written, m) BY DEF Write
<1>3. stream \in Seq(Symbols) /\ written \in Seq(Written) BY DEF FrameTypeOK
<1>4. /\ stream' \in Seq(Symbols) /\ Len(stream') = Len(stream) + Len(EncodeFrame(m))
      /\ \A j \in 1..Len(stream) : stream'[j] = stream[j]
      /\ \A j \in 1..Len(EncodeFrame(m)) : stream'[Len(stream) + j] = EncodeFrame(m)[j]
  BY <1>1, <1>2, <1>3, JoinIs
<1>5. /\ written' \in Seq(Written) /\ Len(written') = Len(written) + 1
      /\ written'[Len(written) + 1] = m
      /\ \A j \in 1..Len(written) : written'[j] = written[j]
  BY <1>2, <1>3, AppendIs
<1> QED BY <1>4, <1>5

(* It counts, when it can be read and every message before it could.       *)
Counts(m) == Len(ends) = Len(written) /\ m.header # "bad"

LEMMA EndsAre ==
    ASSUME FrameTypeOK, Laid, NEW m \in Written, Write(m)
    PROVE  /\ ends' \in Seq(Nat)
           /\ \A j \in 1..Len(ends) : ends'[j] = ends[j]
           /\ Counts(m) => /\ Len(ends') = Len(ends) + 1 /\ End(ends, Len(ends)) = Len(stream)
                           /\ ends'[Len(ends) + 1] = Len(stream) + Len(EncodeFrame(m))
           /\ ~Counts(m) => ends' = ends
<1>1. ends \in Seq(Nat) BY DEF FrameTypeOK
<1>2. PICK n \in Nat : n = Len(stream') /\ n = Len(stream) + Len(EncodeFrame(m))
  <2>1. stream' \in Seq(Symbols) BY WriteIs
  <2>2. Len(stream') \in Nat BY <2>1
  <2> QED BY <2>2, WriteIs
<1>3. CASE Counts(m)
  <2>1. ends' = Append(ends, n) BY <1>2, <1>3 DEF Counts, Write
  <2>2. /\ ends' \in Seq(Nat) /\ Len(ends') = Len(ends) + 1 /\ ends'[Len(ends) + 1] = n
        /\ \A j \in 1..Len(ends) : ends'[j] = ends[j]
    BY <1>1, <2>1, AppendIs
  <2>3. End(ends, Len(ends)) = Len(stream) BY <1>3 DEF Counts, Laid
  <2> QED BY <1>2, <1>3, <2>2, <2>3
<1>4. CASE ~Counts(m)
  <2>1. ends' = ends BY <1>4 DEF Counts, Write
  <2> QED BY <1>1, <1>4, <2>1
<1> QED BY <1>3, <1>4

LEMMA WriteType ==
    ASSUME FrameTypeOK, Laid, NEW m \in Written, Write(m)
    PROVE  FrameTypeOK'
<1>1. stream' \in Seq(Symbols) /\ written' \in Seq(Written) /\ ends' \in Seq(Nat)
  BY WriteIs, EndsAre
<1>2. fed' \in 0..Len(stream')
  <2>1. Len(stream') = Len(stream) + Len(EncodeFrame(m)) BY WriteIs
  <2>2. Len(EncodeFrame(m)) \in Nat BY SizeIs
  <2>3. fed \in 0..Len(stream) /\ Len(stream) \in Nat BY DEF FrameTypeOK
  <2>4. fed' = fed BY DEF Write
  <2> QED BY <2>1, <2>2, <2>3, <2>4
<1>3. UNCHANGED <<fed, buf, loop, out>> BY DEF Write
<1> QED BY <1>1, <1>2, <1>3 DEF FrameTypeOK

LEMMA WriteLaid ==
    ASSUME FrameTypeOK, Laid, NEW m \in Written, Write(m)
    PROVE  Laid'
<1>1. PICK k \in Nat : k = Len(ends) BY DEF FrameTypeOK
<1>2. PICK w \in Nat : w = Len(written) BY DEF FrameTypeOK
<1>3. PICK s \in Nat : s = Len(stream) BY DEF FrameTypeOK
<1>4. PICK n \in Nat : n = Len(EncodeFrame(m)) /\ n > 2 BY SizeIs
<1>5. k <= w BY <1>1, <1>2 DEF Laid
<1>6. Len(stream') = s + n /\ Len(written') = w + 1 BY <1>2, <1>3, <1>4, WriteIs
<1>7. ASSUME NEW x, NEW at \in Nat, LiesAt(stream, x, at), Len(EncodeFrame(x)) \in Nat
      PROVE  LiesAt(stream', x, at)
  <2>1. PICK e \in Nat : e = Len(EncodeFrame(x)) BY <1>7
  <2>2. at + e <= s BY <1>3, <1>7, <2>1 DEF LiesAt
  <2>3. ASSUME NEW j \in 1..e PROVE stream'[at + j] = EncodeFrame(x)[j]
    <3>1. at + j \in 1..s BY <2>2
    <3>2. stream'[at + j] = stream[at + j] BY <1>3, <3>1, WriteIs
    <3> QED BY <1>7, <2>1, <3>2 DEF LiesAt
  <2>4. at + e <= s + n BY <2>2
  <2> QED BY <1>6, <2>1, <2>3, <2>4 DEF LiesAt
<1>8. LiesAt(stream', m, s)
  <2>1. \A j \in 1..n : stream'[s + j] = EncodeFrame(m)[j] BY <1>3, <1>4, WriteIs
  <2> QED BY <1>4, <1>6, <2>1 DEF LiesAt
<1>9. /\ written'[w + 1] = m
      /\ \A j \in 1..w : /\ written'[j] = written[j] /\ written[j] \in Written
                        /\ Len(EncodeFrame(written[j])) \in Nat
  BY <1>2, WriteIs, SizeIs DEF FrameTypeOK
<1>10. \A j \in 0..k : End(ends', j) = End(ends, j) /\ End(ends, j) \in Nat
  <2>1. ASSUME NEW j \in 0..k PROVE End(ends', j) = End(ends, j)
    <3>1. j = 0 \/ j \in 1..k OBVIOUS
    <3> QED BY <1>1, <3>1, EndsAre DEF End
  <2> QED BY <1>1, <2>1, EndIs
<1>11. ASSUME NEW j \in 1..k
       PROVE  /\ written'[j].header # "bad" /\ LiesAt(stream', written'[j], End(ends', j - 1))
              /\ ends'[j] = End(ends', j - 1) + Len(EncodeFrame(written'[j]))
  <2>1. j \in 1..w /\ j - 1 \in 0..k BY <1>5
  <2>2. written'[j] = written[j] /\ Len(EncodeFrame(written[j])) \in Nat BY <1>9, <2>1
  <2>3. /\ written[j].header # "bad" /\ LiesAt(stream, written[j], End(ends, j - 1))
        /\ ends[j] = End(ends, j - 1) + Len(EncodeFrame(written[j]))
    BY <1>1 DEF Laid
  <2>4. End(ends', j - 1) = End(ends, j - 1) /\ End(ends, j - 1) \in Nat BY <1>10, <2>1
  <2>5. LiesAt(stream', written[j], End(ends, j - 1)) BY <1>7, <2>2, <2>3, <2>4
  <2>6. ends'[j] = ends[j] BY <1>1, EndsAre
  <2> QED BY <2>2, <2>3, <2>4, <2>5, <2>6
<1>12. CASE Counts(m)
  <2>1. /\ k = w /\ m.header # "bad" /\ Len(ends') = k + 1 /\ End(ends, k) = s
        /\ ends'[k + 1] = s + n
    BY <1>1, <1>2, <1>3, <1>4, <1>12, EndsAre DEF Counts
  <2>2. End(ends', k) = s /\ End(ends', k + 1) = s + n BY <1>10, <2>1 DEF End
  <2>3. ASSUME NEW j \in 1..(k + 1)
        PROVE  /\ written'[j].header # "bad" /\ LiesAt(stream', written'[j], End(ends', j - 1))
               /\ ends'[j] = End(ends', j - 1) + Len(EncodeFrame(written'[j]))
    <3>1. CASE j \in 1..k BY <1>11, <3>1
    <3>2. CASE j = k + 1
      <4>1. written'[j] = m /\ j - 1 = k BY <1>9, <2>1, <3>2
      <4> QED BY <1>4, <1>8, <2>1, <2>2, <3>2, <4>1
    <3>3. j \in 1..k \/ j = k + 1 OBVIOUS
    <3> QED BY <3>1, <3>2, <3>3
  <2>4. Len(ends') <= Len(written') /\ ~(Len(ends') < Len(written')) BY <1>6, <2>1
  <2>5. End(ends', Len(ends')) = Len(stream') BY <1>6, <2>1, <2>2
  <2> QED BY <2>1, <2>3, <2>4, <2>5 DEF Laid
<1>13. CASE ~Counts(m)
  <2>1. ends' = ends BY <1>13, EndsAre
  <2>2. k < w + 1 BY <1>5
  <2>3. written'[k + 1].header = "bad" /\ LiesAt(stream', written'[k + 1], End(ends, k))
    <3>1. CASE k = w
      <4>1. m.header = "bad" /\ End(ends, k) = s
        BY <1>1, <1>2, <1>3, <1>13, <3>1 DEF Counts, Laid
      <4> QED BY <1>8, <1>9, <3>1, <4>1
    <3>2. CASE k # w
      <4>1. k < w /\ k + 1 \in 1..w /\ k \in 0..k BY <1>5, <3>2
      <4>2. written[k + 1].header = "bad" /\ LiesAt(stream, written[k + 1], End(ends, k))
        BY <1>1, <1>2, <4>1 DEF Laid
      <4>3. written'[k + 1] = written[k + 1] /\ Len(EncodeFrame(written[k + 1])) \in Nat
        BY <1>9, <4>1
      <4>4. End(ends, k) \in Nat BY <1>10, <4>1
      <4> QED BY <1>7, <4>2, <4>3, <4>4
    <3> QED BY <3>1, <3>2
  <2>4. Len(ends') = k /\ Len(written') = w + 1 /\ Len(ends') <= Len(written')
        /\ Len(ends') # Len(written')
    BY <1>1, <1>6, <2>1, <2>2
  <2> QED BY <1>11, <2>1, <2>3, <2>4 DEF Laid
<1> QED BY <1>12, <1>13

LEMMA WriteCounted ==
    ASSUME FrameTypeOK, Laid, Counted, NEW m \in Written, Write(m)
    PROVE  Counted'
<1>1. PICK k \in Nat : k = Len(ends) BY DEF FrameTypeOK
<1>2. PICK s \in Nat : s = Len(stream) BY DEF FrameTypeOK
<1>3. PICK l \in Nat : l = Len(EncodeFrame(m)) /\ l > 2 BY SizeIs
<1>4. \A j \in 1..k : ends[j] \in Nat /\ ends[j] <= s
  <2>1. SUFFICES ASSUME NEW j \in 1..k PROVE ends[j] \in Nat /\ ends[j] <= s OBVIOUS
  <2>2. j \in 0..k /\ j # 0 OBVIOUS
  <2> QED BY <1>1, <1>2, <2>2, EndIs DEF End
<1>5. CASE Counts(m)
  <2>1. /\ Len(ends') = k + 1 /\ ends'[k + 1] = s + l
        /\ \A j \in 1..k : ends'[j] = ends[j]
    BY <1>1, <1>2, <1>3, <1>5, EndsAre
  <2>2. ASSUME NEW i \in 1..(k + 1), NEW j \in 1..(k + 1), i < j PROVE ends'[i] < ends'[j]
    <3>1. i \in 1..k BY <2>2
    <3>2. CASE j \in 1..k
      <4>1. ends[i] < ends[j] BY <1>1, <2>2, <3>1, <3>2 DEF Counted
      <4> QED BY <2>1, <3>1, <3>2, <4>1
    <3>3. CASE j = k + 1
      <4>1. ends[i] \in Nat /\ ends[i] <= s BY <1>4, <3>1
      <4>2. ends[i] < s + l BY <1>3, <4>1
      <4> QED BY <2>1, <3>1, <3>3, <4>2
    <3> QED BY <3>2, <3>3
  <2>3. ASSUME NEW n \in Nat PROVE \E i \in 0..(k + 1) : Arrived(i, n)'
    <3>1. PICK i \in 0..k : Arrived(i, n) BY <1>1 DEF Counted
    <3>2. i > 0 => ends'[i] <= n
      <4>1. i > 0 => i \in 1..k OBVIOUS
      <4> QED BY <2>1, <3>1, <4>1 DEF Arrived
    <3>3. CASE i < k
      <4>1. i + 1 \in 1..k /\ i \in 0..(k + 1) BY <3>3
      <4>2. ends'[i + 1] > n BY <1>1, <2>1, <3>1, <3>3, <4>1 DEF Arrived
      <4>3. Arrived(i, n)' BY <3>2, <4>2 DEF Arrived
      <4> QED BY <4>1, <4>3
    <3>4. CASE i = k /\ n < s + l
      <4>1. Arrived(i, n)' BY <2>1, <3>2, <3>4 DEF Arrived
      <4>2. i \in 0..(k + 1) OBVIOUS
      <4> QED BY <4>1, <4>2
    <3>5. CASE i = k /\ ~(n < s + l)
      <4>1. k + 1 \in 0..(k + 1) /\ ~(k + 1 < k + 1) OBVIOUS
      <4>2. ends'[k + 1] <= n BY <2>1, <3>5
      <4>3. Arrived(k + 1, n)' BY <2>1, <4>1, <4>2 DEF Arrived
      <4> QED BY <4>1, <4>3
    <3> QED BY <3>3, <3>4, <3>5
  <2> QED BY <2>1, <2>2, <2>3 DEF Counted
<1>6. CASE ~Counts(m)
  <2>1. ends' = ends BY <1>6, EndsAre
  <2> QED BY <2>1 DEF Counted, Arrived
<1> QED BY <1>5, <1>6

LEMMA WriteInStep ==
    ASSUME FrameTypeOK, Laid, InStep, NEW m \in Written, Write(m)
    PROVE  InStep'
<1>1. PICK k \in Nat : k = Len(ends) BY DEF FrameTypeOK
<1>2. PICK s \in Nat : s = Len(stream) BY DEF FrameTypeOK
<1>3. PICK n \in Nat : n = Len(EncodeFrame(m)) /\ n > 2 BY SizeIs
<1>4. PICK p \in Nat : p = Len(out) /\ p <= k
  <2>1. Len(out) \in Nat BY DEF FrameTypeOK
  <2> QED BY <1>1, <2>1 DEF InStep
<1>5. PICK l \in Nat : l = Len(buf) BY DEF FrameTypeOK
<1>6. PICK at \in Nat : at = End(ends, p) BY <1>1, <1>4, EndIs
<1>7. UNCHANGED <<fed, buf, loop, out>> BY DEF Write
<1>8. Len(ends') = k \/ Len(ends') = k + 1 BY <1>1, EndsAre
<1>9. \A j \in 1..k : ends'[j] = ends[j] BY <1>1, EndsAre
<1>10. End(ends', p) = at
  <2>1. p = 0 \/ p \in 1..k BY <1>4
  <2> QED BY <1>6, <1>9, <2>1 DEF End
<1>11. fed = at + l /\ fed <= s /\ \A j \in 1..l : buf[j] = stream[at + j]
  BY <1>2, <1>4, <1>5, <1>6 DEF InStep, FrameTypeOK
<1>12. ASSUME NEW j \in 1..l PROVE buf[j] = stream'[at + j]
  <2>1. at + j \in 1..s BY <1>11
  <2>2. stream'[at + j] = stream[at + j] BY <1>2, <2>1, WriteIs
  <2> QED BY <1>11, <2>2
<1>13. ASSUME NEW j \in 1..p PROVE out[j] = written'[j].body
  <2>1. Len(written) \in Nat /\ k <= Len(written) BY <1>1 DEF FrameTypeOK, Laid
  <2>2. j \in 1..Len(written) BY <1>4, <2>1
  <2>3. written'[j] = written[j] BY <2>2, WriteIs
  <2> QED BY <1>4, <2>3 DEF InStep
<1>14. ASSUME loop = "reading" PROVE Arrived(p, fed)'
  <2>1. Arrived(p, fed) BY <1>4, <1>14 DEF InStep
  <2>2. p > 0 => ends'[p] <= fed
    <3>1. p > 0 => p \in 1..k BY <1>4
    <3> QED BY <1>9, <2>1, <3>1 DEF Arrived
  <2>3. ASSUME p < Len(ends') PROVE ends'[p + 1] > fed
    <3>1. CASE p < k
      <4>1. p + 1 \in 1..k BY <3>1
      <4> QED BY <1>1, <1>9, <2>1, <3>1, <4>1 DEF Arrived
    <3>2. CASE p = k
      <4>1. Counts(m)
        <5>1. SUFFICES ASSUME ~Counts(m) PROVE FALSE OBVIOUS
        <5>2. ends' = ends BY <5>1, EndsAre
        <5> QED BY <1>1, <2>3, <3>2, <5>2
      <4>2. ends'[k + 1] = s + n BY <1>1, <1>2, <1>3, <4>1, EndsAre
      <4> QED BY <1>3, <1>11, <3>2, <4>2
    <3> QED BY <1>4, <3>1, <3>2
  <2> QED BY <1>7, <2>2, <2>3 DEF Arrived
<1> QED BY <1>4, <1>5, <1>7, <1>8, <1>10, <1>11, <1>12, <1>13, <1>14 DEF InStep

(* A read.                                                                 *)
LEMMA PushIs ==
    ASSUME FrameTypeOK, Laid, InStep, NEW k \in 1..Unread, Push(k)
    PROVE  FrameTypeOK' /\ InStep'
<1>1. PICK s \in Nat : s = Len(stream) BY DEF FrameTypeOK
<1>2. PICK t \in Nat : t = fed /\ t <= s BY <1>1 DEF FrameTypeOK
<1>3. k \in Nat /\ t + k <= s BY <1>1, <1>2 DEF Unread
<1>4. PICK p \in Nat : p = Len(out) /\ p <= Len(ends)
  <2>1. Len(out) \in Nat BY DEF FrameTypeOK
  <2> QED BY <2>1 DEF InStep
<1>5. PICK l \in Nat : l = Len(buf) BY DEF FrameTypeOK
<1>6. PICK at \in Nat : at = End(ends, p)
  <2>1. Len(ends) \in Nat BY DEF FrameTypeOK
  <2> QED BY <1>4, <2>1, EndIs
<1>7. t = at + l /\ \A j \in 1..l : buf[j] = stream[at + j]
  BY <1>2, <1>4, <1>5, <1>6 DEF InStep
<1>8. stream \in Seq(Symbols) /\ buf \in Seq(Symbols) BY DEF FrameTypeOK
<1>9. /\ buf' \in Seq(Symbols) /\ Len(buf') = l + k
      /\ \A i \in 1..(l + k) : buf'[i] = IF i <= l THEN buf[i] ELSE stream[t + (i - l)]
  <2>1. buf' = buf \o SubSeq(stream, t + 1, t + k) BY <1>2 DEF Push
  <2>2. t + k <= Len(stream) BY <1>1, <1>3
  <2>3. /\ buf' \in Seq(Symbols) /\ Len(buf') = Len(buf) + k
        /\ \A i \in 1..(Len(buf) + k) :
              buf'[i] = IF i <= Len(buf) THEN buf[i] ELSE stream[t + (i - Len(buf))]
    BY <1>3, <1>8, <2>1, <2>2, ReadBehind
  <2> QED BY <1>5, <2>3
<1>10. ASSUME NEW j \in 1..(l + k) PROVE buf'[j] = stream[at + j]
  <2>1. CASE j <= l
    <3>1. j \in 1..l BY <2>1
    <3> QED BY <1>7, <1>9, <2>1, <3>1
  <2>2. CASE ~(j <= l)
    <3>1. t + (j - l) = at + j BY <1>7
    <3> QED BY <1>9, <2>2, <3>1
  <2> QED BY <2>1, <2>2
<1>11. fed' = t + k /\ loop' = "draining" /\ UNCHANGED <<written, stream, ends, out>>
  BY <1>2 DEF Push, writerVars
<1>12. FrameTypeOK'
  <2>1. t + k \in 0..s BY <1>3
  <2> QED BY <1>1, <1>9, <1>11, <2>1 DEF FrameTypeOK
<1>13. t + k = at + (l + k) BY <1>7
<1> QED BY <1>4, <1>6, <1>9, <1>10, <1>11, <1>12, <1>13 DEF InStep

(* A frame is found: it is the next message, and it is delivered.          *)
LEMMA FrameFound ==
    ASSUME FrameTypeOK, Laid, InStep, FoundFrames(buf) # {}
    PROVE  /\ Len(out) < Len(ends) /\ Len(out) < Len(written)
           /\ written[Len(out) + 1] \in Written /\ BeginsLike(buf, written[Len(out) + 1])
           /\ Len(EncodeFrame(written[Len(out) + 1])) <= Len(buf)
           /\ ends[Len(out) + 1] =
                 End(ends, Len(out)) + Len(EncodeFrame(written[Len(out) + 1]))
<1>1. PICK p \in Nat : p = Len(out) BY DEF FrameTypeOK
<1>2. PICK w \in Nat : w = Len(written) BY DEF FrameTypeOK
<1>3. p <= w
  <2>1. Len(ends) \in Nat BY DEF FrameTypeOK
  <2> QED BY <1>1, <1>2, <2>1 DEF InStep, Laid
<1>4. p # w BY <1>1, <1>2, FrontIs, NothingInNothing
<1>5. p < w BY <1>3, <1>4
<1>6. written[p + 1] \in Written /\ BeginsLike(buf, written[p + 1])
  BY <1>1, <1>2, <1>5, FrontIs
<1>7. buf \in Seq(Symbols) BY DEF FrameTypeOK
<1>8. written[p + 1].header # "bad" /\ Len(buf) >= Len(EncodeFrame(written[p + 1]))
  BY <1>6, <1>7, FoundIs
<1>9. p < Len(ends) /\ ends[p + 1] = End(ends, p) + Len(EncodeFrame(written[p + 1]))
  BY <1>1, <1>2, <1>5, <1>8, FrontIs
<1>10. Len(EncodeFrame(written[p + 1])) <= Len(buf)
  <2>1. Len(EncodeFrame(written[p + 1])) \in Nat /\ Len(buf) \in Nat BY <1>6, <1>7, SizeIs
  <2> QED BY <1>8, <2>1
<1> QED BY <1>1, <1>2, <1>5, <1>6, <1>9, <1>10

LEMMA NextFrameDelivers ==
    ASSUME FrameTypeOK, Laid, InStep, NextFrame
    PROVE  /\ FoundFrames(buf) # {}
           /\ out' = Append(out, written[Len(out) + 1].body)
           /\ written[Len(out) + 1].body \in Bodies
           /\ buf' \in Seq(Symbols)
           /\ Len(buf') = Len(buf) - Len(EncodeFrame(written[Len(out) + 1]))
           /\ \A j \in 1..Len(buf') :
                 buf'[j] = buf[Len(EncodeFrame(written[Len(out) + 1])) + j]
<1>1. PICK f \in FoundFrames(buf) :
        /\ out' = Append(out, SubSeq(buf, f[1], f[1] + f[2] - 1))
        /\ buf' = SubSeq(buf, f[1] + f[2], Len(buf))
  BY DEF NextFrame, Drain
<1>2. FoundFrames(buf) # {} BY <1>1
<1>3. PICK m \in Written :
        /\ m = written[Len(out) + 1] /\ BeginsLike(buf, m)
        /\ Len(EncodeFrame(m)) <= Len(buf)
  BY <1>2, FrameFound
<1>4. PICK h \in Nat : h = Height(m.header) /\ EncodedShape(EncodeFrame(m), h, Len(m.body), m)
  BY EncodedIs, HeightIs DEF EncodedShape
<1>5. PICK b \in Seq(Symbols) : b = m.body BY <1>4 DEF EncodedShape
<1>6. PICK n \in Nat : n = Len(b) OBVIOUS
<1>7. PICK e \in Seq(Symbols) : /\ e = EncodeFrame(m) /\ Len(e) = h + 2 + n
                              /\ \A i \in 1..n : e[h + 2 + i] = b[i]
  BY <1>4, <1>5, <1>6 DEF EncodedShape
<1>8. PICK l \in Nat : l = Len(buf) /\ h + 2 + n <= l
  <2>1. Len(buf) \in Nat BY DEF FrameTypeOK
  <2> QED BY <1>3, <1>7, <2>1
<1>9. buf \in Seq(Symbols) BY DEF FrameTypeOK
<1>10. f[1] = h + 3 /\ f[2] = n
  <2>1. f[1] = Height(m.header) + 3 /\ f[2] = Len(m.body) BY <1>3, <1>9, FoundIs
  <2> QED BY <1>4, <1>5, <1>6, <2>1
<1>11. SubSeq(buf, f[1], f[1] + f[2] - 1) = b
  <2>1. PICK t \in Nat : t = h + 2 /\ t + n <= Len(buf) BY <1>8
  <2>2. /\ SubSeq(buf, t + 1, t + n) \in Seq(Symbols)
        /\ Len(SubSeq(buf, t + 1, t + n)) = n
        /\ \A i \in 1..n : SubSeq(buf, t + 1, t + n)[i] = buf[t + i]
    BY <1>9, <2>1, PieceIs
  <2>3. ASSUME NEW i \in 1..n PROVE SubSeq(buf, t + 1, t + n)[i] = b[i]
    <3>1. t + i \in 1..l /\ t + i <= h + 2 + n BY <1>8, <2>1
    <3>2. buf[t + i] = e[t + i] BY <1>3, <1>7, <1>8, <3>1 DEF BeginsLike
    <3> QED BY <1>7, <2>1, <2>2, <3>2
  <2>4. SubSeq(buf, t + 1, t + n) = b BY <1>6, <2>2, <2>3, SeqEqual
  <2>5. f[1] = t + 1 /\ f[1] + f[2] - 1 = t + n BY <1>10, <2>1
  <2> QED BY <2>4, <2>5
<1>12. /\ buf' \in Seq(Symbols) /\ Len(buf') = l - (h + 2 + n)
       /\ \A j \in 1..(l - (h + 2 + n)) : buf'[j] = buf[h + 2 + n + j]
  <2>1. PICK t \in Nat : t = h + 2 + n BY <1>8
  <2>2. PICK k \in Nat : k = l - t /\ t + k = l /\ t + k <= Len(buf)
    <3>1. l - t \in Nat /\ t + (l - t) = l /\ l <= Len(buf) BY <1>8, <2>1
    <3> QED BY <3>1
  <2>3. /\ SubSeq(buf, t + 1, t + k) \in Seq(Symbols)
        /\ Len(SubSeq(buf, t + 1, t + k)) = k
        /\ \A i \in 1..k : SubSeq(buf, t + 1, t + k)[i] = buf[t + i]
    BY <1>9, <2>2, PieceIs
  <2>4. f[1] + f[2] = t + 1 /\ Len(buf) = t + k BY <1>8, <1>10, <2>1, <2>2
  <2>5. buf' = SubSeq(buf, t + 1, t + k) BY <1>1, <2>4
  <2> QED BY <2>1, <2>2, <2>3, <2>5
<1>13. b \in Bodies BY <1>5 DEF Written
<1> QED BY <1>1, <1>2, <1>3, <1>5, <1>7, <1>8, <1>11, <1>12, <1>13

LEMMA NextFrameIs ==
    ASSUME FrameTypeOK, Laid, InStep, NextFrame
    PROVE  FrameTypeOK' /\ InStep'
<1>1. PICK p \in Nat : p = Len(out) BY DEF FrameTypeOK
<1>2. PICK k \in Nat : k = Len(ends) BY DEF FrameTypeOK
<1>3. FoundFrames(buf) # {} BY NextFrameDelivers
<1>4. p < k /\ written[p + 1] \in Written BY <1>1, <1>2, <1>3, FrameFound
<1>5. PICK n \in Nat : n = Len(EncodeFrame(written[p + 1])) BY <1>4, SizeIs
<1>6. PICK l \in Nat : l = Len(buf) /\ n <= l
  <2>1. Len(buf) \in Nat BY DEF FrameTypeOK
  <2> QED BY <1>1, <1>3, <1>5, <2>1, FrameFound
<1>7. PICK at \in Nat : at = End(ends, p) BY <1>2, <1>4, EndIs
<1>8. End(ends, p + 1) = at + n
  <2>1. ends[p + 1] = at + n BY <1>1, <1>3, <1>5, <1>7, FrameFound
  <2> QED BY <2>1 DEF End
<1>9. PICK r \in Nat : r = l - n
  <2>1. l - n \in Nat BY <1>6
  <2> QED BY <2>1
<1>10. buf' \in Seq(Symbols) /\ Len(buf') = r /\ \A j \in 1..r : buf'[j] = buf[n + j]
  BY <1>1, <1>5, <1>6, <1>9, NextFrameDelivers
<1>11. /\ out' \in Seq(Bodies) /\ Len(out') = p + 1 /\ out'[p + 1] = written[p + 1].body
       /\ \A j \in 1..p : out'[j] = out[j]
  <2>1. out \in Seq(Bodies) BY DEF FrameTypeOK
  <2>2. PICK x \in Bodies : x = written[p + 1].body BY <1>1, NextFrameDelivers
  <2>3. out' = Append(out, x) BY <1>1, <2>2, NextFrameDelivers
  <2>4. /\ out' \in Seq(Bodies) /\ Len(out') = Len(out) + 1 /\ out'[Len(out) + 1] = x
        /\ \A j \in 1..Len(out) : out'[j] = out[j]
    BY <2>1, <2>3, AppendIs
  <2> QED BY <1>1, <2>2, <2>4
<1>12. UNCHANGED <<written, stream, ends, fed, loop>> /\ loop = "draining"
  BY DEF NextFrame, writerVars
<1>13. FrameTypeOK' BY <1>10, <1>11, <1>12 DEF FrameTypeOK
<1>14. fed = at + l /\ \A j \in 1..l : buf[j] = stream[at + j]
  BY <1>1, <1>6, <1>7 DEF InStep
<1>15. ASSUME NEW j \in 1..r PROVE buf'[j] = stream[(at + n) + j]
  <2>1. n + j \in 1..l /\ at + (n + j) = (at + n) + j BY <1>9
  <2> QED BY <1>10, <1>14, <2>1
<1>16. ASSUME NEW j \in 1..(p + 1) PROVE out'[j] = written[j].body
  <2>1. CASE j \in 1..p BY <1>1, <1>11, <2>1 DEF InStep
  <2>2. CASE j = p + 1 BY <1>11, <2>2
  <2> QED BY <2>1, <2>2
<1>17. p + 1 <= k /\ fed = (at + n) + r BY <1>4, <1>9, <1>14
<1> QED BY <1>2, <1>8, <1>10, <1>11, <1>12, <1>13, <1>15, <1>16, <1>17 DEF InStep

(* None is found: no message that has arrived is held.                     *)
LEMMA NoFrameIs ==
    ASSUME FrameTypeOK, Laid, InStep, NoFrame
    PROVE  FrameTypeOK' /\ InStep'
<1>1. PICK p \in Nat : p = Len(out) BY DEF FrameTypeOK
<1>2. PICK k \in Nat : k = Len(ends) /\ p <= k BY <1>1 DEF FrameTypeOK, InStep
<1>3. PICK l \in Nat : l = Len(buf) BY DEF FrameTypeOK
<1>4. PICK at \in Nat : at = End(ends, p) BY <1>2, EndIs
<1>5. fed = at + l BY <1>1, <1>3, <1>4 DEF InStep
<1>6. p > 0 => ends[p] <= fed BY <1>4, <1>5 DEF End
<1>7. ASSUME p < k PROVE ends[p + 1] > fed
  <2>1. p < Len(written)
    <3>1. Len(written) \in Nat /\ k <= Len(written) BY <1>2 DEF FrameTypeOK, Laid
    <3> QED BY <1>7, <3>1
  <2>2. written[p + 1].header # "bad"
    <3>1. p + 1 \in 1..k BY <1>7
    <3> QED BY <1>2, <3>1 DEF Laid
  <2>3. written[p + 1] \in Written /\ BeginsLike(buf, written[p + 1])
    BY <1>1, <2>1, FrontIs
  <2>4. PICK n \in Nat : n = Len(EncodeFrame(written[p + 1])) BY <2>3, SizeIs
  <2>5. ends[p + 1] = at + n BY <1>1, <1>4, <2>1, <2>2, <2>4, FrontIs
  <2>6. ~(l >= n)
    <3>1. buf \in Seq(Symbols) BY DEF FrameTypeOK
    <3>2. FoundFrames(buf) = {} BY DEF NoFrame
    <3> QED BY <1>3, <2>2, <2>3, <2>4, <3>1, <3>2, FoundIs
  <2> QED BY <1>5, <2>5, <2>6
<1>8. Arrived(p, fed) BY <1>2, <1>6, <1>7 DEF Arrived
<1>9. UNCHANGED <<written, stream, ends, fed, buf, out>> /\ loop' = "reading"
  BY DEF NoFrame, writerVars
<1>10. Arrived(p, fed)' BY <1>8, <1>9 DEF Arrived
<1> QED BY <1>1, <1>9, <1>10 DEF FrameTypeOK, InStep

LEMMA FrameInvInit == FrameInit => FrameInv
<1> SUFFICES ASSUME FrameInit PROVE FrameInv
  OBVIOUS
<1>1. /\ written = <<>> /\ stream = <<>> /\ ends = <<>> /\ fed = 0 /\ buf = <<>>
      /\ loop = "reading" /\ out = <<>>
  BY DEF FrameInit
<1>2. FrameTypeOK BY <1>1 DEF FrameTypeOK
<1>3. Laid BY <1>1 DEF Laid, End
<1>4. Counted
  <2>1. \A n \in Nat : Arrived(0, n) BY <1>1 DEF Arrived
  <2>2. 0 \in 0..Len(ends) BY <1>1
  <2>3. \A n \in Nat : \E k \in 0..Len(ends) : Arrived(k, n) BY <2>1, <2>2
  <2>4. \A i, k \in 1..Len(ends) : i < k => ends[i] < ends[k] BY <1>1
  <2> QED BY <2>3, <2>4 DEF Counted
<1>5. InStep BY <1>1 DEF InStep, End, Arrived
<1> QED BY <1>2, <1>3, <1>4, <1>5 DEF FrameInv

LEMMA FrameInvStep == FrameInv /\ [FrameNext]_frameVars => FrameInv'
<1> SUFFICES ASSUME FrameInv, [FrameNext]_frameVars PROVE FrameInv'
  OBVIOUS
<1>1. FrameTypeOK /\ Laid /\ Counted /\ InStep BY DEF FrameInv
<1>2. ASSUME NEW m \in Written, Write(m) PROVE FrameInv'
  BY <1>1, <1>2, WriteType, WriteLaid, WriteCounted, WriteInStep DEF FrameInv
<1>3. ASSUME UNCHANGED writerVars PROVE Laid' /\ Counted'
  <2>1. written' = written /\ stream' = stream /\ ends' = ends BY <1>3 DEF writerVars
  <2>2. Laid' BY <1>1, <2>1 DEF Laid
  <2>3. Counted' BY <1>1, <2>1 DEF Counted, Arrived
  <2> QED BY <2>2, <2>3
<1>4. ASSUME NEW k \in 1..Unread, Push(k) PROVE FrameInv'
  <2>1. UNCHANGED writerVars BY <1>4 DEF Push
  <2> QED BY <1>1, <1>3, <1>4, <2>1, PushIs DEF FrameInv
<1>5. CASE NextFrame
  <2>1. UNCHANGED writerVars BY <1>5 DEF NextFrame
  <2> QED BY <1>1, <1>3, <1>5, <2>1, NextFrameIs DEF FrameInv
<1>6. CASE NoFrame
  <2>1. UNCHANGED writerVars BY <1>6 DEF NoFrame
  <2> QED BY <1>1, <1>3, <1>6, <2>1, NoFrameIs DEF FrameInv
<1>7. CASE UNCHANGED frameVars
  <2>1. UNCHANGED writerVars /\ UNCHANGED <<written, stream, ends, fed, buf, loop, out>>
    BY <1>7 DEF frameVars, writerVars
  <2>2. FrameTypeOK' BY <1>1, <2>1 DEF FrameTypeOK
  <2>3. InStep' BY <1>1, <2>1 DEF InStep, Arrived
  <2> QED BY <1>3, <2>1, <2>2, <2>3 DEF FrameInv
<1> QED BY <1>2, <1>4, <1>5, <1>6, <1>7 DEF FrameNext, Reader

LEMMA FrameInvariant == FrameSpec => []FrameInv
<1>1. FrameInv /\ [FrameNext]_frameVars => FrameInv' BY FrameInvStep
<1> QED BY <1>1, FrameInvInit, PTL DEF FrameSpec

(* FrameReader's state stays in its types: all it ever delivers are bodies *)
(* that a writer may send, and it does not read more than was sent.        *)
(* framing.rs:21-37, main.rs:202-211, dap.rs:64-80.                        *)
THEOREM FramesTypeCorrect == FrameSpec => []FrameTypeOK
<1>1. FrameInv => FrameTypeOK BY DEF FrameInv
<1> QED BY <1>1, FrameInvariant, PTL

-----------------------------------------------------------------------------
(* The reader implements the stream of messages.                           *)

(* The number of messages that have arrived.                               *)
Place(e, n) ==
    CHOOSE k \in 0..Len(e) : (k > 0 => e[k] <= n) /\ (k < Len(e) => e[k + 1] > n)

LEMMA PlaceIs ==
    ASSUME NEW e \in Seq(Nat), \A i, j \in 1..Len(e) : i < j => e[i] < e[j],
           NEW n \in Nat, NEW k \in 0..Len(e),
           k > 0 => e[k] <= n, k < Len(e) => e[k + 1] > n
    PROVE  Place(e, n) = k
<1>1. PICK l \in Nat : l = Len(e) OBVIOUS
<1>2. ASSUME NEW i \in 0..l, NEW j \in 0..l, i < j, j > 0 => e[j] <= n,
             i < l => e[i + 1] > n
      PROVE  FALSE
  <2>1. i + 1 \in 1..l /\ j \in 1..l /\ i < l /\ j > 0 BY <1>2
  <2>2. e[i + 1] \in Nat /\ e[j] \in Nat BY <1>1, <2>1
  <2>3. i + 1 = j \/ i + 1 < j BY <1>2
  <2>4. e[i + 1] <= e[j]
    <3>1. CASE i + 1 = j BY <2>2, <3>1
    <3>2. CASE i + 1 < j BY <1>1, <2>1, <2>2, <3>2
    <3> QED BY <2>3, <3>1, <3>2
  <2> QED BY <1>2, <2>1, <2>2, <2>4
<1> DEFINE P(i) == (i > 0 => e[i] <= n) /\ (i < l => e[i + 1] > n)
<1>3. P(k) /\ k \in 0..l BY <1>1
<1>4. \A i \in 0..l : P(i) => i = k
  <2>1. SUFFICES ASSUME NEW i \in 0..l, P(i), i # k PROVE FALSE OBVIOUS
  <2>2. i < k \/ k < i BY <1>3, <2>1
  <2> QED BY <1>2, <1>3, <2>1, <2>2
<1>5. Place(e, n) = CHOOSE i \in 0..l : P(i) BY <1>1 DEF Place
<1> HIDE DEF P
<1> QED BY <1>3, <1>4, <1>5

BodiesSent == [i \in 1..Len(ends) |-> written[i].body]
ArrivedNow == Place(ends, fed)

LEMMA SentAre ==
    ASSUME FrameTypeOK, Laid
    PROVE  /\ BodiesSent \in Seq(Bodies) /\ Len(BodiesSent) = Len(ends)
           /\ \A i \in 1..Len(ends) : BodiesSent[i] = written[i].body
<1>1. PICK k \in Nat : k = Len(ends) BY DEF FrameTypeOK
<1>2. ASSUME NEW i \in 1..k PROVE written[i].body \in Bodies
  <2>1. Len(written) \in Nat /\ k <= Len(written) BY <1>1 DEF FrameTypeOK, Laid
  <2>2. i \in 1..Len(written) BY <2>1
  <2>3. written[i] \in Written BY <2>2 DEF FrameTypeOK
  <2> QED BY <2>3 DEF Written
<1>3. BodiesSent = [i \in 1..k |-> written[i].body] BY <1>1 DEF BodiesSent
<1>4. BodiesSent \in [1..k -> Bodies] BY <1>2, <1>3
<1>5. BodiesSent \in Seq(Bodies) /\ Len(BodiesSent) = k BY <1>4
<1> QED BY <1>1, <1>3, <1>5

LEMMA PlacedIs ==
    ASSUME FrameTypeOK, Counted, NEW k \in 0..Len(ends), Arrived(k, fed)
    PROVE  ArrivedNow = k
<1>1. ends \in Seq(Nat) /\ fed \in Nat BY DEF FrameTypeOK
<1>2. \A i, j \in 1..Len(ends) : i < j => ends[i] < ends[j] BY DEF Counted
<1>3. (k > 0 => ends[k] <= fed) /\ (k < Len(ends) => ends[k + 1] > fed) BY DEF Arrived
<1> QED BY <1>1, <1>2, <1>3, PlaceIs DEF ArrivedNow

LEMMA PlacedNext ==
    ASSUME FrameTypeOK', Counted', NEW k \in 0..Len(ends'),
           k > 0 => ends'[k] <= fed', k < Len(ends') => ends'[k + 1] > fed'
    PROVE  ArrivedNow' = k
<1>1. ends' \in Seq(Nat) /\ fed' \in Nat BY DEF FrameTypeOK
<1>2. \A i, j \in 1..Len(ends') : i < j => ends'[i] < ends'[j] BY DEF Counted
<1> QED BY <1>1, <1>2, PlaceIs DEF ArrivedNow

LEMMA WriteSends ==
    ASSUME FrameInv, FrameInv', NEW m \in Written, Write(m)
    PROVE  /\ BodiesSent' = BodiesSent \/ \E b \in Bodies : BodiesSent' = Append(BodiesSent, b)
           /\ ArrivedNow' = ArrivedNow /\ out' = out
<1>0. FrameTypeOK /\ Laid /\ Counted /\ FrameTypeOK' /\ Counted' BY DEF FrameInv
<1>1. PICK k \in Nat : k = Len(ends) BY <1>0 DEF FrameTypeOK
<1>2. PICK s \in Nat : s = Len(stream) BY <1>0 DEF FrameTypeOK
<1>3. PICK w \in Nat : w = Len(written) /\ k <= w BY <1>0, <1>1 DEF FrameTypeOK, Laid
<1>4. PICK n \in Nat : n = Len(EncodeFrame(m)) /\ n > 2 BY SizeIs
<1>5. fed' = fed /\ out' = out /\ fed \in Nat /\ fed <= s
  BY <1>0, <1>2 DEF Write, FrameTypeOK
<1>6. PICK a \in 0..k : Arrived(a, fed) BY <1>0, <1>1, <1>5 DEF Counted
<1>7. ArrivedNow = a BY <1>0, <1>1, <1>6, PlacedIs
<1>8. \A j \in 1..w : written'[j] = written[j] BY <1>0, <1>3, WriteIs
<1>9. CASE Counts(m)
  <2>1. /\ Len(ends') = k + 1 /\ ends'[k + 1] = s + n /\ k = w
        /\ \A j \in 1..k : ends'[j] = ends[j]
    BY <1>0, <1>1, <1>2, <1>3, <1>4, <1>9, EndsAre DEF Counts
  <2>2. a > 0 => ends'[a] <= fed'
    <3>1. a > 0 => a \in 1..k OBVIOUS
    <3> QED BY <1>5, <1>6, <2>1, <3>1 DEF Arrived
  <2>3. ends'[a + 1] > fed'
    <3>1. CASE a < k
      <4>1. a + 1 \in 1..k BY <3>1
      <4> QED BY <1>1, <1>5, <1>6, <2>1, <3>1, <4>1 DEF Arrived
    <3>2. CASE a = k BY <1>4, <1>5, <2>1, <3>2
    <3> QED BY <3>1, <3>2
  <2>4. ArrivedNow' = a
    <3>1. a \in 0..Len(ends') BY <2>1
    <3> QED BY <1>0, <2>2, <2>3, <3>1, PlacedNext
  <2>5. PICK b \in Bodies : b = m.body BY DEF Written
  <2>6. BodiesSent' = [i \in 1..(k + 1) |-> written'[i].body] BY <2>1 DEF BodiesSent
  <2>7. BodiesSent \in Seq(Bodies) /\ Len(BodiesSent) = k
        /\ \A i \in 1..k : BodiesSent[i] = written[i].body
    BY <1>0, <1>1, SentAre
  <2>8. /\ Append(BodiesSent, b) \in Seq(Bodies) /\ Len(Append(BodiesSent, b)) = k + 1
        /\ Append(BodiesSent, b)[k + 1] = b
        /\ \A i \in 1..k : Append(BodiesSent, b)[i] = BodiesSent[i]
    <3>1. /\ Append(BodiesSent, b) \in Seq(Bodies)
          /\ Len(Append(BodiesSent, b)) = Len(BodiesSent) + 1
          /\ Append(BodiesSent, b)[Len(BodiesSent) + 1] = b
          /\ \A i \in 1..Len(BodiesSent) : Append(BodiesSent, b)[i] = BodiesSent[i]
      BY <2>7, AppendIs
    <3> QED BY <2>7, <3>1
  <2>9. ASSUME NEW i \in 1..(k + 1) PROVE written'[i].body = Append(BodiesSent, b)[i]
    <3>1. CASE i \in 1..k BY <1>8, <2>1, <2>7, <2>8, <3>1
    <3>2. CASE i = k + 1
      <4>1. written'[i] = m BY <1>0, <1>3, <2>1, <3>2, WriteIs
      <4> QED BY <2>5, <2>8, <3>2, <4>1
    <3>3. i \in 1..k \/ i = k + 1 OBVIOUS
    <3> QED BY <3>1, <3>2, <3>3
  <2>10. PICK q \in Seq(Bodies) : q = Append(BodiesSent, b) /\ Len(q) = k + 1 BY <2>8
  <2>11. BodiesSent' \in Seq(Bodies) /\ Len(BodiesSent') = k + 1
         /\ \A i \in 1..(k + 1) : BodiesSent'[i] = q[i]
    <3>1. \A i \in 1..(k + 1) : q[i] \in Bodies BY <2>10
    <3>2. BodiesSent' \in [1..(k + 1) -> Bodies] BY <2>6, <2>9, <2>10, <3>1
    <3>3. BodiesSent' \in Seq(Bodies) /\ Len(BodiesSent') = k + 1 BY <3>2
    <3>4. \A i \in 1..(k + 1) : BodiesSent'[i] = q[i] BY <2>6, <2>9, <2>10
    <3> QED BY <3>3, <3>4
  <2>12. BodiesSent' = q BY <2>10, <2>11, SeqEqual
  <2> QED BY <1>5, <1>7, <2>4, <2>10, <2>12
<1>10. CASE ~Counts(m)
  <2>1. ends' = ends BY <1>0, <1>10, EndsAre
  <2>2. ASSUME NEW i \in 1..k PROVE written'[i] = written[i]
    <3>1. i \in 1..w BY <1>3
    <3> QED BY <1>8, <3>1
  <2>3. BodiesSent' = BodiesSent BY <1>1, <2>1, <2>2 DEF BodiesSent
  <2>4. ArrivedNow' = ArrivedNow BY <1>5, <2>1 DEF ArrivedNow, Place
  <2> QED BY <1>5, <2>3, <2>4
<1> QED BY <1>9, <1>10

LEMMA PushReads ==
    ASSUME FrameInv, FrameInv', NEW k \in 1..Unread, Push(k)
    PROVE  /\ BodiesSent' = BodiesSent /\ out' = out
           /\ \/ ArrivedNow' = ArrivedNow
              \/ ArrivedNow = Len(out) /\ ArrivedNow' \in (ArrivedNow + 1)..Len(BodiesSent)
<1>0. FrameTypeOK /\ Laid /\ Counted /\ InStep /\ FrameTypeOK' /\ Counted'
  BY DEF FrameInv
<1>1. PICK l \in Nat : l = Len(ends) BY <1>0 DEF FrameTypeOK
<1>2. PICK p \in Nat : p = Len(out) /\ p <= l BY <1>0, <1>1 DEF FrameTypeOK, InStep
<1>3. /\ written' = written /\ ends' = ends /\ out' = out /\ loop = "reading"
      /\ fed' = fed + k
  BY DEF Push, writerVars
<1>4. fed \in Nat /\ fed' \in Nat /\ fed <= fed'
  <2>1. Len(stream) \in Nat /\ fed \in Nat BY <1>0 DEF FrameTypeOK
  <2>2. k \in Nat BY <2>1 DEF Unread
  <2> QED BY <1>3, <2>1, <2>2
<1>5. Arrived(p, fed) BY <1>0, <1>2, <1>3 DEF InStep
<1>6. ArrivedNow = p BY <1>0, <1>1, <1>2, <1>5, PlacedIs
<1>7. PICK a \in 0..l : Arrived(a, fed') BY <1>0, <1>1, <1>4 DEF Counted
<1>8. ArrivedNow' = a
  BY <1>0, <1>1, <1>3, <1>7, PlacedNext DEF Arrived
<1>9. /\ \A i \in 1..l : ends[i] \in Nat
      /\ \A i, j \in 1..l : i < j => ends[i] < ends[j]
  <2>1. ends \in Seq(Nat) BY <1>0 DEF FrameTypeOK
  <2>2. \A i \in 1..l : ends[i] \in Nat BY <1>1, <2>1
  <2>3. \A i, j \in 1..l : i < j => ends[i] < ends[j] BY <1>0, <1>1 DEF Counted
  <2> QED BY <2>2, <2>3
<1>10. p <= a
  <2>1. SUFFICES ASSUME a < p PROVE FALSE BY <1>2
  <2>2. a < l /\ a + 1 \in 1..l /\ p \in 1..l /\ p > 0 BY <1>2, <2>1
  <2>3. ends[a + 1] \in Nat /\ ends[p] \in Nat BY <1>9, <2>2
  <2>4. ends[a + 1] > fed' /\ ends[p] <= fed BY <1>1, <1>5, <1>7, <2>2 DEF Arrived
  <2>5. ends[a + 1] <= ends[p]
    <3>1. CASE a + 1 = p BY <2>3, <3>1
    <3>2. CASE a + 1 # p
      <4>1. a + 1 < p BY <2>1, <3>2
      <4>2. ends[a + 1] < ends[p] BY <1>9, <2>2, <4>1
      <4> QED BY <2>3, <4>2
    <3> QED BY <3>1, <3>2
  <2> QED BY <1>4, <2>3, <2>4, <2>5
<1>11. BodiesSent' = BodiesSent BY <1>3 DEF BodiesSent
<1>12. Len(BodiesSent) = l BY <1>0, <1>1, SentAre
<1>13. a = p \/ a \in (p + 1)..l BY <1>10
<1>14. CASE a = p BY <1>3, <1>6, <1>8, <1>11, <1>14
<1>15. CASE a \in (p + 1)..l BY <1>2, <1>3, <1>6, <1>8, <1>11, <1>12, <1>15
<1> QED BY <1>13, <1>14, <1>15

LEMMA FoundArrived ==
    ASSUME FrameInv, FrameInv', NextFrame
    PROVE  /\ BodiesSent' = BodiesSent /\ ArrivedNow' = ArrivedNow
           /\ Len(out) < ArrivedNow
           /\ out' = Append(out, BodiesSent[Len(out) + 1])
<1>0. FrameTypeOK /\ Laid /\ Counted /\ InStep BY DEF FrameInv
<1>1. PICK l \in Nat : l = Len(ends) BY <1>0 DEF FrameTypeOK
<1>2. FoundFrames(buf) # {} BY <1>0, NextFrameDelivers
<1>3. PICK p \in Nat : p = Len(out) /\ p < l
  BY <1>0, <1>1, <1>2, FrameFound DEF FrameTypeOK
<1>4. written[p + 1] \in Written BY <1>0, <1>2, <1>3, FrameFound
<1>5. PICK n \in Nat : n = Len(EncodeFrame(written[p + 1])) BY <1>4, SizeIs
<1>6. PICK b \in Nat : b = Len(buf) BY <1>0 DEF FrameTypeOK
<1>7. PICK at \in Nat : at = End(ends, p) BY <1>0, <1>1, <1>3, EndIs
<1>8. ends[p + 1] = at + n /\ n <= b BY <1>0, <1>2, <1>3, <1>5, <1>6, <1>7, FrameFound
<1>9. fed = at + b BY <1>0, <1>3, <1>6, <1>7 DEF InStep
<1>10. PICK a \in 0..l : Arrived(a, fed)
  <2>1. fed \in Nat BY <1>9
  <2> QED BY <1>0, <1>1, <2>1 DEF Counted
<1>11. ArrivedNow = a BY <1>0, <1>1, <1>10, PlacedIs
<1>12. p < a
  <2>1. SUFFICES ASSUME a <= p PROVE FALSE BY <1>3
  <2>2. a < l /\ a + 1 \in 1..l /\ p + 1 \in 1..l BY <1>3, <2>1
  <2>3. ends[a + 1] \in Nat /\ ends[p + 1] \in Nat BY <1>0, <1>1, <2>2 DEF FrameTypeOK
  <2>4. ends[a + 1] > fed BY <1>1, <1>10, <2>2 DEF Arrived
  <2>5. ends[a + 1] <= ends[p + 1]
    <3>1. CASE a = p BY <2>3, <3>1
    <3>2. CASE a # p
      <4>1. a + 1 < p + 1 BY <2>1, <3>2
      <4>2. ends[a + 1] < ends[p + 1] BY <1>0, <1>1, <2>2, <4>1 DEF Counted
      <4> QED BY <2>3, <4>2
    <3> QED BY <3>1, <3>2
  <2> QED BY <1>8, <1>9, <2>3, <2>4, <2>5
<1>13. written' = written /\ ends' = ends /\ fed' = fed BY DEF NextFrame, writerVars
<1>14. BodiesSent' = BodiesSent BY <1>13 DEF BodiesSent
<1>15. ArrivedNow' = ArrivedNow BY <1>13 DEF ArrivedNow, Place
<1>16. out' = Append(out, BodiesSent[p + 1])
  <2>1. p + 1 \in 1..l BY <1>3
  <2>2. BodiesSent[p + 1] = written[p + 1].body BY <1>0, <1>1, <2>1, SentAre
  <2> QED BY <1>0, <1>3, <2>2, NextFrameDelivers
<1> QED BY <1>3, <1>11, <1>12, <1>14, <1>15, <1>16

(* Up to the first header it cannot read, what next_frame returns are the  *)
(* bodies that were sent, in order, each once and whole; and the loop does *)
(* not go back to read before it has taken every body that has arrived.    *)
(* framing.rs:25-37, main.rs:202-211, dap.rs:64-80.                        *)
THEOREM FramesArriveInOrder == FrameSpec => Messages!SafeSpec
<1>1. FrameInit => Messages!Init
  <2> SUFFICES ASSUME FrameInit PROVE Messages!Init
    OBVIOUS
  <2>1. FrameInv BY FrameInvInit
  <2>2. ends = <<>> /\ fed = 0 /\ out = <<>> /\ written = <<>> BY DEF FrameInit
  <2>3. ArrivedNow = 0
    <3>1. 0 \in 0..Len(ends) /\ Arrived(0, fed) BY <2>2 DEF Arrived
    <3> QED BY <2>1, <3>1, PlacedIs DEF FrameInv
  <2>4. (CHOOSE k \in 0..Len(ends) : Arrived(k, fed)) = 0
    BY <2>3 DEF ArrivedNow, Place, Arrived
  <2>5. [i \in 1..Len(ends) |-> written[i].body] = <<>> BY <2>2
  <2> QED BY <2>2, <2>4, <2>5 DEF Messages!Init
<1>2. FrameInv /\ FrameInv' /\ [FrameNext]_frameVars => [Messages!Next]_Messages!vars
  <2> SUFFICES ASSUME FrameInv, FrameInv', [FrameNext]_frameVars
               PROVE  [Messages!Next]_Messages!vars
    OBVIOUS
  <2>1. BodiesSent = [i \in 1..Len(ends) |-> written[i].body] BY DEF BodiesSent
  <2>2. ArrivedNow = (CHOOSE k \in 0..Len(ends) : Arrived(k, fed))
    BY DEF ArrivedNow, Place, Arrived
  <2>3. BodiesSent' = [i \in 1..Len(ends) |-> written[i].body]' BY DEF BodiesSent
  <2>4. ArrivedNow' = (CHOOSE k \in 0..Len(ends) : Arrived(k, fed))'
    BY DEF ArrivedNow, Place, Arrived
  <2>5. ASSUME BodiesSent' = BodiesSent, ArrivedNow' = ArrivedNow, out' = out
        PROVE  UNCHANGED Messages!vars
    BY <2>1, <2>2, <2>3, <2>4, <2>5 DEF Messages!vars
  <2>6. ASSUME NEW m \in Written, Write(m) PROVE [Messages!Next]_Messages!vars
    <3>1. CASE \E b \in Bodies : BodiesSent' = Append(BodiesSent, b)
      <4>1. Messages!Send
        BY <2>1, <2>2, <2>3, <2>4, <2>6, <3>1, WriteSends DEF Messages!Send
      <4> QED BY <4>1 DEF Messages!Next
    <3>2. CASE BodiesSent' = BodiesSent BY <2>5, <2>6, <3>2, WriteSends
    <3> QED BY <2>6, <3>1, <3>2, WriteSends
  <2>7. ASSUME NEW k \in 1..Unread, Push(k) PROVE [Messages!Next]_Messages!vars
    <3>1. CASE ArrivedNow' = ArrivedNow BY <2>5, <2>7, <3>1, PushReads
    <3>2. CASE ArrivedNow = Len(out) /\ ArrivedNow' \in (ArrivedNow + 1)..Len(BodiesSent)
      <4>1. Messages!Read
        BY <2>1, <2>2, <2>3, <2>4, <2>7, <3>2, PushReads DEF Messages!Read
      <4> QED BY <4>1 DEF Messages!Next
    <3> QED BY <2>7, <3>1, <3>2, PushReads
  <2>8. ASSUME NextFrame PROVE [Messages!Next]_Messages!vars
    <3>1. Messages!Deliver
      BY <2>1, <2>2, <2>3, <2>4, <2>8, FoundArrived DEF Messages!Deliver
    <3> QED BY <3>1 DEF Messages!Next
  <2>9. ASSUME NoFrame \/ UNCHANGED frameVars PROVE [Messages!Next]_Messages!vars
    <3>1. written' = written /\ ends' = ends /\ fed' = fed /\ out' = out
      BY <2>9 DEF NoFrame, frameVars, writerVars
    <3>2. BodiesSent' = BodiesSent /\ ArrivedNow' = ArrivedNow
      BY <3>1 DEF BodiesSent, ArrivedNow, Place
    <3> QED BY <2>5, <3>1, <3>2
  <2> QED BY <2>6, <2>7, <2>8, <2>9 DEF FrameNext, Reader
<1> QED BY <1>1, <1>2, FrameInvariant, PTL DEF FrameSpec, Messages!SafeSpec
=============================================================================
