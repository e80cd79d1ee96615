--------------------------- MODULE LspRouterProofs ---------------------------
(***************************************************************************)
(* Theorems about LspRouter for any set of callers, any ports and any      *)
(* bounds. IInv, TypeOK with six parts, is inductive and settles who is    *)
(* answered with what; JInv adds how often each message of a stream was    *)
(* taken over and how calls end, and with it the router is shown to        *)
(* implement ControlContract.                                              *)
(***************************************************************************)
EXTENDS LspRouter, FiniteSetTheorems, TLAPS

-----------------------------------------------------------------------------
(* What appending to a log does, stated once.                              *)

LEMMA AppendToLog ==
    ASSUME NEW S, NEW s \in Seq(S), NEW e \in S
    PROVE  /\ Append(s, e) \in Seq(S)
           /\ Len(Append(s, e)) = Len(s) + 1
           /\ \A i \in 1..Len(s) : Append(s, e)[i] = s[i]
           /\ Append(s, e)[Len(s) + 1] = e
  OBVIOUS

LEMMA LogEntry ==
    ASSUME NEW S, NEW s \in Seq(S), NEW i \in 1..Len(s)
    PROVE  s[i] \in S
  OBVIOUS

LEMMA LogLength == ASSUME NEW S, NEW s \in Seq(S) PROVE Len(s) \in Nat
  OBVIOUS

(* The message main or the stdin thread takes is one that was written.     *)
LEMMA NextFromServerType ==
    ASSUME TypeOK, MainHasNext
    PROVE  /\ NextFromServer \in Outbound
           /\ mainRead + 1 \in 1..Len(toBridge)
  BY LogEntry, LogLength DEF TypeOK, MainHasNext, NextFromServer

LEMMA NextFromZedType ==
    ASSUME TypeOK, StdinHasNext
    PROVE  /\ NextFromZed \in Inbound
           /\ stdinRead + 1 \in 1..Len(fromZed)
  BY LogEntry, LogLength DEF TypeOK, StdinHasNext, NextFromZed

(* The port kept of a result fits sixteen bits.                            *)
LEMMA RememberedType ==
    ASSUME NEW k, NEW r, TypeOK
    PROVE  Remembered(k, r) = NoResult \/ U16(Remembered(k, r))
<1>1. CASE Rewrites(k, r)
  <2>1. r \in Nat BY <1>1 DEF Rewrites
  <2>2. U16(r % 65536) BY <2>1 DEF U16
  <2> QED BY <1>1, <2>2 DEF Remembered
<1>2. CASE ~Rewrites(k, r)
  BY <1>2 DEF Remembered, TypeOK
<1> QED BY <1>1, <1>2

LEMMA DeliveredType ==
    ASSUME NEW k, NEW m \in Outbound
    PROVE  Delivered(k, m) \in Outbound
  BY DEF Delivered, Outbound, AllResults

-----------------------------------------------------------------------------
(* Type correctness.                                                       *)

LEMMA InitType == Init => TypeOK
<1> SUFFICES ASSUME Init PROVE TypeOK OBVIOUS
<1>1. <<>> \in Seq(Inbound) /\ <<>> \in Seq(Outbound) OBVIOUS
<1>2. Len(<<>>) = 0 OBVIOUS
<1>3. Reply("none", NoResult) \in Outcome BY DEF Reply, Outcome, Tags, AllResults
<1>4. outcome \in [Callers -> Outcome] BY <1>3 DEF Init
<1>5. mailbox \in [Callers -> Mailbox] BY DEF Init, Mailbox
<1>6. kind \in [Callers -> Kinds] BY DEF Init, Kinds
<1>7. pc \in [Callers -> {"idle", "register", "write", "wait", "expired", "done"}]
  BY DEF Init
<1>8. callId \in [Callers -> Nat] BY DEF Init
<1>9. /\ zedSent \in 0..MaxZed /\ srvSent \in 0..MaxSrv /\ nextId \in Nat
      /\ pending \subseteq PendingRequest
  BY RouterAssumption DEF Init, FirstId
<1>10. /\ fromZed = <<>> /\ toServer = <<>> /\ toBridge = <<>> /\ toZed = <<>>
       /\ stdinRead = 0 /\ srvRead = 0 /\ mainRead = 0
       /\ zedClosed \in BOOLEAN /\ srvUp \in BOOLEAN /\ bridgeUp \in BOOLEAN
       /\ stdinThread \in {"running", "gone"} /\ realDapPort = NoResult
  BY Zenon DEF Init
<1>11. /\ stdinRead \in 0..Len(fromZed)
       /\ srvRead \in 0..Len(toServer)
       /\ mainRead \in 0..Len(toBridge)
  BY <1>2, <1>10
<1> QED
  BY <1>1, <1>4, <1>5, <1>6, <1>7, <1>8, <1>9, <1>10, <1>11 DEF TypeOK

LEMMA ZedType == TypeOK /\ Zed => TypeOK'
<1> SUFFICES ASSUME TypeOK, Zed PROVE TypeOK' OBVIOUS
<1> USE RouterAssumption DEF zedVars, srvVars, callVars
<1>1. ASSUME NEW t \in {"request", "inlay", "notification"}, ZedSend(t)
      PROVE  TypeOK'
  <2> DEFINE m == [from |-> "zed", type |-> t, id |-> zedSent + 1]
  <2>1. m \in Inbound BY <1>1 DEF TypeOK, Inbound
  <2>2. fromZed' \in Seq(Inbound) /\ Len(fromZed') = Len(fromZed) + 1
    BY <1>1, <2>1, AppendToLog DEF TypeOK, ZedSend
  <2>3. Len(fromZed) \in Nat BY LogLength DEF TypeOK
  <2> QED BY <1>1, <2>2, <2>3 DEF TypeOK, ZedSend
<1>2. ASSUME NEW i \in 1..Len(toZed), ZedReply(i) PROVE TypeOK'
  <2> DEFINE m == [from |-> "zed", type |-> "reply", id |-> toZed[i].id]
  <2>0. toZed[i] \in Outbound BY LogEntry DEF TypeOK
  <2>1. m \in Inbound BY <2>0 DEF Inbound, Outbound
  <2>2. fromZed' \in Seq(Inbound) /\ Len(fromZed') = Len(fromZed) + 1
    BY <1>2, <2>1, AppendToLog DEF TypeOK, ZedReply
  <2>3. Len(fromZed) \in Nat BY LogLength DEF TypeOK
  <2>4. UNCHANGED <<zedSent, zedClosed, stdinRead, toServer, srvVars, toBridge,
                    mainRead, toZed, stdinThread, bridgeUp, nextId, pending,
                    realDapPort, callVars>>
    BY <1>2 DEF ZedReply
  <2> QED BY <2>2, <2>3, <2>4 DEF TypeOK
<1>3. CASE ZedClose BY <1>3 DEF TypeOK, ZedClose
<1> QED BY <1>1, <1>2, <1>3 DEF Zed

LEMMA StdinType == TypeOK /\ Stdin => TypeOK'
<1> SUFFICES ASSUME TypeOK, Stdin PROVE TypeOK' OBVIOUS
<1> USE DEF zedVars, srvVars, callVars
<1>1. CASE StdinIntercept
  <2> DEFINE m == [type |-> "response", id |-> NextFromZed.id, re |-> 0,
                   result |-> EmptyInlay]
  <2>1. NextFromZed \in Inbound /\ stdinRead + 1 \in 1..Len(fromZed)
    BY <1>1, NextFromZedType DEF StdinIntercept
  <2>2. m \in Outbound BY <2>1 DEF Inbound, Outbound, AllResults
  <2>3. toZed' = Append(toZed, m) BY <1>1 DEF StdinIntercept
  <2>4. toZed' \in Seq(Outbound) BY <2>2, <2>3, AppendToLog DEF TypeOK
  <2>5. stdinRead' \in 0..Len(fromZed) BY <1>1, <2>1 DEF StdinIntercept, TypeOK
  <2>6. UNCHANGED <<zedVars, toServer, srvVars, toBridge, mainRead, stdinThread,
                    bridgeUp, nextId, pending, realDapPort, callVars>>
    BY <1>1 DEF StdinIntercept
  <2> QED BY <2>4, <2>5, <2>6 DEF TypeOK
<1>2. CASE StdinForward
  <2>1. NextFromZed \in Inbound /\ stdinRead + 1 \in 1..Len(fromZed)
    BY <1>2, NextFromZedType DEF StdinForward
  <2>2. /\ toServer' \in Seq(Inbound) /\ Len(toServer') = Len(toServer) + 1
        /\ Len(toServer) \in Nat
    BY <1>2, <2>1, AppendToLog, LogLength DEF TypeOK, StdinForward
  <2>3. stdinRead' \in 0..Len(fromZed) BY <1>2, <2>1 DEF StdinForward, TypeOK
  <2>4. UNCHANGED <<zedVars, srvVars, toBridge, mainRead, toZed, stdinThread,
                    bridgeUp, nextId, pending, realDapPort, callVars>>
    BY <1>2 DEF StdinForward
  <2> QED BY <2>2, <2>3, <2>4 DEF TypeOK
<1>3. CASE StdinBroken BY <1>3 DEF TypeOK, StdinBroken
<1>4. CASE StdinEof
  <2>1. /\ srvUp' \in BOOLEAN /\ stdinThread' \in {"running", "gone"}
        /\ UNCHANGED <<zedVars, stdinRead, toServer, srvRead, srvSent, toBridge,
                       mainRead, toZed, bridgeUp, nextId, pending, realDapPort,
                       callVars>>
    BY <1>4, Zenon DEF StdinEof
  <2> QED BY <2>1 DEF TypeOK
<1> QED BY <1>1, <1>2, <1>3, <1>4 DEF Stdin

LEMMA HttpType == ASSUME TypeOK, NEW c \in Callers, Http(c) PROVE TypeOK'
<1> USE DEF zedVars, srvVars, callVars
<1> DEFINE Steps == {"idle", "register", "write", "wait", "expired", "done"}
<1>0. \A t \in Tags, r \in AllResults : Reply(t, r) \in Outcome
  BY DEF Reply, Outcome
<1>1. CASE HttpReject(c)
  <2>1. Reply("rejected", NoResult) \in Outcome BY <1>0 DEF Tags, AllResults
  <2>2. outcome' \in [Callers -> Outcome] BY <1>1, <2>1 DEF TypeOK, HttpReject
  <2>3. pc' \in [Callers -> Steps] BY <1>1 DEF TypeOK, HttpReject
  <2> QED BY <1>1, <2>2, <2>3 DEF TypeOK, HttpReject
<1>2. ASSUME NEW k \in Kinds, HttpAccept(c, k) PROVE TypeOK'
  BY <1>2 DEF TypeOK, HttpAccept, IdAfter
<1>3. CASE InsertPending(c)
  <2>1. [id |-> callId[c], caller |-> c] \in PendingRequest
    BY DEF TypeOK, PendingRequest
  <2>2. pending' \subseteq PendingRequest
    BY <1>3, <2>1 DEF TypeOK, InsertPending, Insert
  <2>3. pc' \in [Callers -> Steps] BY <1>3 DEF TypeOK, InsertPending
  <2> QED BY <1>3, <2>2, <2>3 DEF TypeOK, InsertPending
<1>4. CASE WriteRequest(c)
  <2> DEFINE m == [from |-> c, type |-> "request", id |-> callId[c]]
  <2>1. m \in Inbound BY DEF TypeOK, Inbound
  <2>2. toServer' = Append(toServer, m) BY <1>4 DEF WriteRequest
  <2>3. /\ toServer' \in Seq(Inbound) /\ Len(toServer') = Len(toServer) + 1
        /\ Len(toServer) \in Nat
    BY <2>1, <2>2, AppendToLog, LogLength DEF TypeOK
  <2>4. pc' \in [Callers -> Steps] BY <1>4 DEF TypeOK, WriteRequest
  <2>5. UNCHANGED <<zedVars, stdinRead, srvVars, toBridge, mainRead, toZed,
                    stdinThread, bridgeUp, nextId, pending, realDapPort, kind,
                    callId, mailbox, outcome>>
    BY <1>4 DEF WriteRequest
  <2> QED BY <2>3, <2>4, <2>5 DEF TypeOK
<1>5. CASE WriteFails(c)
  <2>1. pending' \subseteq PendingRequest BY <1>5 DEF TypeOK, WriteFails, Remove
  <2>2. outcome' \in [Callers -> Outcome] BY <1>0, <1>5 DEF TypeOK, WriteFails, Tags, AllResults
  <2>3. pc' \in [Callers -> Steps] BY <1>5 DEF TypeOK, WriteFails
  <2> QED BY <1>5, <2>1, <2>2, <2>3 DEF TypeOK, WriteFails
<1>6. CASE Receive(c)
  <2>1. mailbox[c] \in Outbound BY <1>6 DEF TypeOK, Receive, Mailbox
  <2>2. mailbox[c].result \in AllResults
    BY <2>1 DEF Outbound
  <2> QED BY <1>0, <1>6, <2>2 DEF TypeOK, Receive, Tags
<1>7. CASE Timeout(c) BY <1>7 DEF TypeOK, Timeout
<1>8. CASE RemoveExpired(c)
  <2>1. pending' \subseteq PendingRequest BY <1>8 DEF TypeOK, RemoveExpired, Remove
  <2>2. outcome' \in [Callers -> Outcome]
    BY <1>0, <1>8 DEF TypeOK, RemoveExpired, Tags, AllResults
  <2>3. pc' \in [Callers -> Steps] BY <1>8 DEF TypeOK, RemoveExpired
  <2> QED BY <1>8, <2>1, <2>2, <2>3 DEF TypeOK, RemoveExpired
<1> QED BY <1>1, <1>2, <1>3, <1>4, <1>5, <1>6, <1>7, <1>8 DEF Http

LEMMA MainType == TypeOK /\ Main => TypeOK'
<1> SUFFICES ASSUME TypeOK, Main PROVE TypeOK' OBVIOUS
<1> USE DEF zedVars, srvVars, callVars
<1>1. CASE RouteMalformed
  <2>1. mainRead' \in 0..Len(toBridge)
    BY <1>1, NextFromServerType DEF RouteMalformed, TypeOK
  <2>2. UNCHANGED <<zedVars, stdinRead, toServer, srvVars, toBridge, toZed,
                    stdinThread, bridgeUp, nextId, pending, realDapPort, callVars>>
    BY <1>1 DEF RouteMalformed
  <2> QED BY <2>1, <2>2 DEF TypeOK
<1>2. CASE RouteResolve
  <2> PICK e \in Hits(NextFromServer) :
          /\ mainRead' = mainRead + 1
          /\ pending' = Remove(pending, e.id)
          /\ realDapPort' = Remembered(kind[e.caller], NextFromServer.result)
          /\ mailbox' = [mailbox EXCEPT ![e.caller] =
                            Delivered(kind[e.caller], NextFromServer)]
    BY <1>2 DEF RouteResolve
  <2>1. NextFromServer \in Outbound /\ mainRead + 1 \in 1..Len(toBridge)
    BY <1>2, NextFromServerType DEF RouteResolve
  <2>2. mainRead' \in 0..Len(toBridge) BY <2>1 DEF TypeOK
  <2>3. pending' \subseteq PendingRequest BY DEF TypeOK, Remove
  <2>4. realDapPort' = NoResult \/ U16(realDapPort') BY RememberedType
  <2>5. Delivered(kind[e.caller], NextFromServer) \in Mailbox
    BY <2>1, DeliveredType DEF Mailbox
  <2>6. mailbox' \in [Callers -> Mailbox] BY <2>5, Zenon DEF TypeOK
  <2>7. UNCHANGED <<zedVars, stdinRead, toServer, srvVars, toBridge, toZed,
                    stdinThread, bridgeUp, nextId, pc, kind, callId, outcome>>
    BY <1>2 DEF RouteResolve
  <2> HIDE DEF zedVars, srvVars, callVars
  <2>8. U16(realDapPort)' = U16(realDapPort') BY DEF U16
  <2> QED BY <2>2, <2>3, <2>4, <2>6, <2>7, <2>8 DEF TypeOK, zedVars, srvVars
<1>3. CASE RouteAck
  <2> DEFINE m == [from |-> "bridge", type |-> "reply", id |-> NextFromServer.id]
  <2>1. NextFromServer \in Outbound /\ mainRead + 1 \in 1..Len(toBridge)
    BY <1>3, NextFromServerType DEF RouteAck
  <2>2. m \in Inbound BY <2>1 DEF Outbound, Inbound
  <2>3. toServer' = toServer \/ toServer' = Append(toServer, m)
    BY <1>3 DEF RouteAck
  <2>4. /\ toServer' \in Seq(Inbound) /\ Len(toServer') >= Len(toServer)
        /\ Len(toServer) \in Nat /\ Len(toServer') \in Nat
    <3>1. toServer \in Seq(Inbound) /\ Len(toServer) \in Nat
      BY LogLength DEF TypeOK
    <3>2. CASE toServer' = Append(toServer, m)
      BY <2>2, <3>1, <3>2, AppendToLog
    <3> QED BY <2>3, <3>1, <3>2
  <2>5. mainRead' \in 0..Len(toBridge) BY <1>3, <2>1 DEF RouteAck, TypeOK
  <2>6. UNCHANGED <<zedVars, stdinRead, srvVars, toBridge, toZed, stdinThread,
                    bridgeUp, nextId, pending, realDapPort, callVars>>
    BY <1>3 DEF RouteAck
  <2> QED BY <2>4, <2>5, <2>6 DEF TypeOK
<1>4. CASE RouteForward
  <2>1. NextFromServer \in Outbound /\ mainRead + 1 \in 1..Len(toBridge)
    BY <1>4, NextFromServerType DEF RouteForward
  <2>2. toZed' \in Seq(Outbound)
    BY <1>4, <2>1, AppendToLog DEF TypeOK, RouteForward
  <2>3. mainRead' \in 0..Len(toBridge) BY <1>4, <2>1 DEF RouteForward, TypeOK
  <2>4. UNCHANGED <<zedVars, stdinRead, toServer, srvVars, toBridge, stdinThread,
                    bridgeUp, nextId, pending, realDapPort, callVars>>
    BY <1>4 DEF RouteForward
  <2> QED BY <2>2, <2>3, <2>4 DEF TypeOK
<1>5. CASE MainExit
  <2>1. Reply("aborted", NoResult) \in Outcome
    BY DEF Reply, Outcome, Tags, AllResults
  <2>2. outcome' \in [Callers -> Outcome] BY <1>5, <2>1 DEF TypeOK, MainExit
  <2>3. pc' \in [Callers -> {"idle", "register", "write", "wait", "expired", "done"}]
    BY <1>5 DEF MainExit
  <2>4. /\ bridgeUp' \in BOOLEAN /\ stdinThread' \in {"running", "gone"}
        /\ UNCHANGED <<zedVars, stdinRead, toServer, srvVars, toBridge, mainRead,
                       toZed, nextId, pending, realDapPort, kind, callId, mailbox>>
    BY <1>5, Zenon DEF MainExit
  <2> QED BY <2>2, <2>3, <2>4 DEF TypeOK
<1> QED BY <1>1, <1>2, <1>3, <1>4, <1>5 DEF Main

LEMMA ServerType == TypeOK /\ Server => TypeOK'
<1> SUFFICES ASSUME TypeOK, Server PROVE TypeOK' OBVIOUS
<1> USE DEF zedVars, srvVars, callVars
<1>1. CASE SrvRead
  <2>1. srvRead' \in 0..Len(toServer) BY <1>1, LogLength DEF SrvRead, TypeOK
  <2>2. UNCHANGED <<zedVars, stdinRead, toServer, srvSent, srvUp, toBridge,
                    mainRead, toZed, stdinThread, bridgeUp, nextId, pending,
                    realDapPort, callVars>>
    BY <1>1 DEF SrvRead
  <2> QED BY <2>1, <2>2 DEF TypeOK
<1>2. ASSUME NEW i \in 1..Len(toServer), NEW r \in Results, SrvAnswer(i, r)
      PROVE  TypeOK'
  <2> DEFINE m == [type |-> "response", id |-> toServer[i].id, re |-> i, result |-> r]
  <2>0. toServer[i] \in Inbound /\ i \in Nat BY LogEntry, LogLength DEF TypeOK
  <2>1. m \in Outbound BY <2>0 DEF Inbound, Outbound, AllResults
  <2>2. /\ toBridge' \in Seq(Outbound) /\ Len(toBridge') = Len(toBridge) + 1
        /\ Len(toBridge) \in Nat
    BY <1>2, <2>1, AppendToLog, LogLength DEF SrvAnswer, TypeOK
  <2>3. UNCHANGED <<zedVars, stdinRead, toServer, srvVars, mainRead, toZed,
                    stdinThread, bridgeUp, nextId, pending, realDapPort, callVars>>
    BY <1>2 DEF SrvAnswer
  <2> QED BY <2>2, <2>3 DEF TypeOK
<1>3. ASSUME NEW t \in ServerOwn, SrvSend(t) PROVE TypeOK'
  <2> DEFINE m == [type |-> t, id |-> srvSent + 1, re |-> 0, result |-> NoResult]
  <2>1. m \in Outbound BY DEF TypeOK, Outbound, AllResults, ServerOwn
  <2>2. /\ toBridge' \in Seq(Outbound) /\ Len(toBridge') = Len(toBridge) + 1
        /\ Len(toBridge) \in Nat
    BY <1>3, <2>1, AppendToLog, LogLength DEF SrvSend, TypeOK
  <2>3. srvSent' \in 0..MaxSrv BY <1>3, RouterAssumption DEF SrvSend, TypeOK
  <2>4. UNCHANGED <<zedVars, stdinRead, toServer, srvRead, srvUp, mainRead, toZed,
                    stdinThread, bridgeUp, nextId, pending, realDapPort, callVars>>
    BY <1>3 DEF SrvSend
  <2> QED BY <2>2, <2>3, <2>4 DEF TypeOK
<1>4. CASE SrvStop BY <1>4, Zenon DEF TypeOK, SrvStop
<1> QED BY <1>1, <1>2, <1>3, <1>4 DEF Server

LEMMA StepType == TypeOK /\ [Next]_vars => TypeOK'
<1>1. CASE UNCHANGED vars
  BY <1>1 DEF TypeOK, vars, zedVars, srvVars, callVars
<1> QED
  BY <1>1, ZedType, StdinType, HttpType, MainType, ServerType DEF Next

(* Every variable keeps its type, the remembered port among them: a result *)
(* of any size is cut to sixteen bits (lsp.rs:69-71).                      *)
THEOREM TypeCorrect == Spec => []TypeOK
  BY InitType, StepType, PTL DEF Spec

-----------------------------------------------------------------------------
(* The inductive invariant. Correlation does not survive a step on its own:*)
(* that a hit in the table is the caller's own response needs the ids of   *)
(* all three parties to be apart, every request to carry the id of who     *)
(* sent it, and every response the id of what it answers.                  *)

Live == {"register", "write", "wait", "expired"}

IdsApart ==
    /\ nextId >= IdBase
    /\ \A c \in Callers :
          /\ pc[c] = "idle" => callId[c] = 0
          /\ pc[c] \in Live => callId[c] # 0
          /\ callId[c] = 0 \/ (IdBase <= callId[c] /\ callId[c] < nextId)
    /\ \A c, d \in Callers : callId[c] = callId[d] /\ callId[c] # 0 => c = d

ZedIds ==
    \A i \in 1..Len(fromZed) :
        /\ fromZed[i].from = "zed"
        /\ fromZed[i].type \in {"request", "inlay"} => fromZed[i].id <= MaxZed

RequestIds ==
    \A i \in 1..Len(toServer) :
        /\ toServer[i].from \in Callers =>
              /\ toServer[i].id = callId[toServer[i].from]
              /\ pc[toServer[i].from] \in {"wait", "expired", "done"}
        /\ toServer[i].from = "zed" /\ toServer[i].type \in {"request", "inlay"}
              => toServer[i].id <= MaxZed
        /\ toServer[i].from = "bridge" => toServer[i].type = "reply"

ResponseIds ==
    \A j \in 1..Len(toBridge) :
        /\ toBridge[j].type = "response" =>
              /\ toBridge[j].re \in 1..Len(toServer)
              /\ toServer[toBridge[j].re].type \in {"request", "inlay"}
              /\ toBridge[j].id = toServer[toBridge[j].re].id
        /\ toBridge[j].type # "response" => toBridge[j].id <= MaxSrv

Entry(c) == [id |-> callId[c], caller |-> c]

Registered ==
    bridgeUp =>
        /\ NoPendingLeak
        /\ \A c \in Callers :
              /\ pc[c] \in {"idle", "register"} => mailbox[c] = NoMessage
              /\ pc[c] = "write" => mailbox[c] = NoMessage /\ Entry(c) \in pending
              /\ pc[c] \in {"wait", "expired"} =>
                    ((mailbox[c] = NoMessage) <=> (Entry(c) \in pending))

(* The j-th message of the server, already routed, answers c's request.    *)
OwnResponse(c, j) ==
    /\ j \in 1..mainRead
    /\ toBridge[j].type = "response"
    /\ RequesterOf(toBridge[j]) = c

Truthful ==
    \A c \in Callers :
        /\ mailbox[c] # NoMessage =>
              /\ pc[c] \in {"wait", "expired", "done"}
              /\ \E j \in 1..mainRead :
                    OwnResponse(c, j) /\ mailbox[c] = Delivered(kind[c], toBridge[j])
        /\ pc[c] # "done" => outcome[c].tag = "none"
        /\ outcome[c].tag = "answered" =>
              \E j \in 1..mainRead :
                    /\ OwnResponse(c, j)
                    /\ outcome[c].result = Delivered(kind[c], toBridge[j]).result

IInv == /\ TypeOK /\ IdsApart /\ ZedIds /\ RequestIds /\ ResponseIds
        /\ Registered /\ Truthful

-----------------------------------------------------------------------------
(* Logs only grow: what was written stays where it was.                    *)

LEMMA Grows ==
    ASSUME NEW S, NEW s \in Seq(S), NEW e \in S, NEW t, t = Append(s, e)
    PROVE  /\ Len(s) \in Nat /\ Len(t) = Len(s) + 1
           /\ \A i \in 1..Len(s) : i \in 1..Len(t) /\ t[i] = s[i]
           /\ \A i \in 1..Len(t) : i \in 1..Len(s) \/ (i = Len(s) + 1 /\ t[i] = e)
<1>1. Len(s) \in Nat BY LogLength
<1> QED BY <1>1, AppendToLog

Kept(s, t) == \A i \in 1..Len(s) : i \in 1..Len(t) /\ t[i] = s[i]

(* A routed response stays a routed response to the same request.          *)
LEMMA OwnResponseStays ==
    ASSUME TypeOK, ResponseIds, NEW c, NEW j, OwnResponse(c, j),
           Kept(toServer, toServer'), Kept(toBridge, toBridge'),
           mainRead' \in Nat, mainRead' >= mainRead
    PROVE  OwnResponse(c, j)' /\ j \in (1..mainRead)' /\ toBridge'[j] = toBridge[j]
<1>1. j \in 1..mainRead /\ j \in 1..Len(toBridge)
  BY LogLength DEF OwnResponse, TypeOK
<1>2. toBridge'[j] = toBridge[j] BY <1>1 DEF Kept
<1>3. toBridge[j].type = "response" BY DEF OwnResponse
<1>4. toBridge[j].re \in 1..Len(toServer) BY <1>1, <1>3 DEF ResponseIds
<1>5. toServer'[toBridge[j].re] = toServer[toBridge[j].re] BY <1>4 DEF Kept
<1>6. j \in 1..mainRead' BY <1>1 DEF TypeOK
<1> QED BY <1>2, <1>3, <1>5, <1>6 DEF OwnResponse, RequesterOf

(* What callers know stays true while their own variables do not change.   *)
LEMMA TruthfulStays ==
    ASSUME TypeOK, ResponseIds, Truthful,
           Kept(toServer, toServer'), Kept(toBridge, toBridge'),
           mainRead' \in Nat, mainRead' >= mainRead,
           UNCHANGED callVars
    PROVE  Truthful'
<1> SUFFICES ASSUME NEW c \in Callers
             PROVE  /\ mailbox[c] # NoMessage =>
                          /\ pc[c] \in {"wait", "expired", "done"}
                          /\ \E j \in (1..mainRead)' :
                                /\ OwnResponse(c, j)'
                                /\ mailbox[c] = Delivered(kind[c], toBridge'[j])
                    /\ pc[c] # "done" => outcome[c].tag = "none"
                    /\ outcome[c].tag = "answered" =>
                          \E j \in (1..mainRead)' :
                             /\ OwnResponse(c, j)'
                             /\ outcome[c].result = Delivered(kind[c], toBridge'[j]).result
  BY DEF Truthful, callVars, Delivered, Rewrites
<1>1. ASSUME mailbox[c] # NoMessage
      PROVE  \E j \in (1..mainRead)' :
                OwnResponse(c, j)' /\ mailbox[c] = Delivered(kind[c], toBridge'[j])
  <2> PICK j \in 1..mainRead :
         OwnResponse(c, j) /\ mailbox[c] = Delivered(kind[c], toBridge[j])
    BY <1>1 DEF Truthful
  <2>1. OwnResponse(c, j)' /\ j \in (1..mainRead)' /\ toBridge'[j] = toBridge[j]
    BY OwnResponseStays
  <2> QED BY <2>1
<1>2. ASSUME outcome[c].tag = "answered"
      PROVE  \E j \in (1..mainRead)' :
                /\ OwnResponse(c, j)'
                /\ outcome[c].result = Delivered(kind[c], toBridge'[j]).result
  <2> PICK j \in 1..mainRead :
         OwnResponse(c, j) /\ outcome[c].result = Delivered(kind[c], toBridge[j]).result
    BY <1>2 DEF Truthful
  <2>1. OwnResponse(c, j)' /\ j \in (1..mainRead)' /\ toBridge'[j] = toBridge[j]
    BY OwnResponseStays
  <2> QED BY <2>1
<1> QED BY <1>1, <1>2 DEF Truthful

(* A hit in the pending table is a response, to that caller's request.     *)
LEMMA HitIsOwn ==
    ASSUME IInv, MainHasNext, NEW e \in Hits(NextFromServer)
    PROVE  /\ NextFromServer.type = "response"
           /\ RequesterOf(NextFromServer) = e.caller
           /\ e.caller \in Callers /\ e = Entry(e.caller)
           /\ pc[e.caller] \in {"wait", "expired"}
<1> DEFINE m == NextFromServer
<1>1. e \in pending /\ e.id = m.id /\ bridgeUp
  BY DEF Hits, MainHasNext
<1>2. e \in PendingRequest BY <1>1 DEF IInv, TypeOK
<1>3. e.caller \in Callers /\ e = [id |-> e.id, caller |-> e.caller]
  BY <1>2 DEF PendingRequest
<1>4. e.id = callId[e.caller] /\ pc[e.caller] \in {"write", "wait", "expired"}
  BY <1>1 DEF IInv, Registered, NoPendingLeak
<1>5. callId[e.caller] # 0 /\ IdBase <= callId[e.caller]
  BY <1>3, <1>4 DEF IInv, IdsApart, Live
<1>6. m \in Outbound /\ mainRead + 1 \in 1..Len(toBridge)
  BY NextFromServerType DEF IInv
<1>0. /\ m.id = callId[e.caller] /\ m.id \in Nat /\ IdBase <= m.id
      /\ IdBase \in Nat /\ MaxSrv \in Nat /\ MaxZed \in Nat
      /\ MaxSrv < IdBase /\ MaxZed < IdBase
  BY <1>1, <1>4, <1>5, <1>6, RouterAssumption DEF Outbound
<1>7. m.type = "response"
  <2> SUFFICES ASSUME m.type # "response" PROVE FALSE OBVIOUS
  <2>1. m.id <= MaxSrv BY <1>6 DEF IInv, ResponseIds, NextFromServer
  <2> QED BY <1>0, <2>1
<1> DEFINE q == toServer[m.re]
<1>8. /\ m.re \in 1..Len(toServer) /\ q.type \in {"request", "inlay"}
      /\ m.id = q.id
  BY <1>6, <1>7 DEF IInv, ResponseIds, NextFromServer
<1>9. q \in Inbound BY <1>8, LogEntry DEF IInv, TypeOK
<1>10. q.from # "bridge" BY <1>8 DEF IInv, RequestIds
<1>11. q.from # "zed"
  <2> SUFFICES ASSUME q.from = "zed" PROVE FALSE OBVIOUS
  <2>1. q.id <= MaxZed BY <1>8 DEF IInv, RequestIds
  <2> QED BY <1>0, <1>8, <2>1
<1>12. q.from \in Callers BY <1>9, <1>10, <1>11 DEF Inbound
<1>13. q.id = callId[q.from] /\ pc[q.from] \in {"wait", "expired", "done"}
  BY <1>8, <1>12 DEF IInv, RequestIds
<1>14. q.from = e.caller
  BY <1>1, <1>3, <1>4, <1>5, <1>8, <1>12, <1>13 DEF IInv, IdsApart
<1> QED BY <1>3, <1>4, <1>7, <1>13, <1>14 DEF RequesterOf, Entry

-----------------------------------------------------------------------------
(* Preservation. First what steps have in common.                          *)

LEMMA KeptSame == ASSUME NEW s PROVE Kept(s, s)
  BY DEF Kept

LEMMA KeptAppend ==
    ASSUME NEW S, NEW s \in Seq(S), NEW e \in S PROVE Kept(s, Append(s, e))
  BY Grows DEF Kept

(* A step that touches neither calls nor the server's streams.             *)
LEMMA QuietStep ==
    ASSUME IInv, mainRead' \in Nat, mainRead' >= mainRead,
           UNCHANGED <<callVars, pending, nextId, bridgeUp, toServer, toBridge>>
    PROVE  IdsApart' /\ RequestIds' /\ ResponseIds' /\ Registered' /\ Truthful'
<1> USE DEF callVars
<1>1. IdsApart' BY DEF IInv, IdsApart
<1>2. RequestIds' BY DEF IInv, RequestIds
<1>3. ResponseIds' BY DEF IInv, ResponseIds
<1>4. Registered' BY DEF IInv, Registered, NoPendingLeak, Entry
<1>5. Truthful' BY KeptSame, TruthfulStays DEF IInv
<1> QED BY <1>1, <1>2, <1>3, <1>4, <1>5

(* A message written to the server's stdin by Zed or by main.              *)
LEMMA WriteStep ==
    ASSUME IInv, NEW m \in Inbound, m.from \in {"zed", "bridge"},
           m.from = "zed" /\ m.type \in {"request", "inlay"} => m.id <= MaxZed,
           m.from = "bridge" => m.type = "reply",
           toServer' = Append(toServer, m),
           mainRead' \in Nat, mainRead' >= mainRead,
           UNCHANGED <<callVars, pending, nextId, bridgeUp, toBridge>>
    PROVE  IdsApart' /\ RequestIds' /\ ResponseIds' /\ Registered' /\ Truthful'
<1> USE DEF callVars
<1>0. toServer \in Seq(Inbound) BY DEF IInv, TypeOK
<1>a. /\ \A i \in 1..Len(toServer) : i \in 1..Len(toServer') /\ toServer'[i] = toServer[i]
      /\ \A i \in 1..Len(toServer') :
            i \in 1..Len(toServer) \/ (i = Len(toServer) + 1 /\ toServer'[i] = m)
  BY <1>0, Grows
<1>1. IdsApart' BY DEF IInv, IdsApart
<1>2. RequestIds' BY <1>a, RouterAssumption DEF IInv, RequestIds
<1>3. ResponseIds' BY <1>a DEF IInv, ResponseIds
<1>4. Registered' BY DEF IInv, Registered, NoPendingLeak, Entry
<1>5. Kept(toServer, toServer') /\ Kept(toBridge, toBridge')
  BY <1>a, KeptSame DEF Kept
<1>6. Truthful' BY <1>5, TruthfulStays DEF IInv
<1> QED BY <1>1, <1>2, <1>3, <1>4, <1>6

LEMMA InitInv == Init => IInv
<1> SUFFICES ASSUME Init PROVE IInv OBVIOUS
<1>0. Len(<<>>) = 0 OBVIOUS
<1>1. TypeOK BY InitType
<1>2. IdsApart BY RouterAssumption DEF Init, IdsApart, FirstId, Live
<1>3. /\ fromZed = <<>> /\ toServer = <<>> /\ toBridge = <<>>
      /\ pending = {} /\ pc = [c \in Callers |-> "idle"]
      /\ mailbox = [c \in Callers |-> NoMessage]
      /\ outcome = [c \in Callers |-> Reply("none", NoResult)]
  BY DEF Init
<1>4. ZedIds /\ RequestIds /\ ResponseIds
  BY <1>0, <1>3 DEF ZedIds, RequestIds, ResponseIds
<1>5. Registered BY <1>3 DEF Registered, NoPendingLeak
<1>6. Truthful BY <1>3 DEF Truthful, Reply
<1> QED BY <1>1, <1>2, <1>4, <1>5, <1>6 DEF IInv

LEMMA ZedInv == IInv /\ Zed => IInv'
<1> SUFFICES ASSUME IInv, Zed PROVE IInv' OBVIOUS
<1>1. TypeOK' BY ZedType DEF IInv
<1>2. /\ UNCHANGED <<callVars, pending, nextId, bridgeUp, toServer, toBridge>>
      /\ mainRead' = mainRead
  BY DEF Zed, ZedSend, ZedReply, ZedClose
<1>3. mainRead \in Nat BY DEF IInv, TypeOK
<1>4. fromZed \in Seq(Inbound) /\ zedSent \in Nat BY DEF IInv, TypeOK
<1>5. ZedIds'
  <2>1. ASSUME NEW t \in {"request", "inlay", "notification"}, ZedSend(t) PROVE ZedIds'
    <3> DEFINE m == [from |-> "zed", type |-> t, id |-> zedSent + 1]
    <3>1. m \in Inbound BY <1>4 DEF Inbound
    <3>2. \A i \in 1..Len(fromZed') :
             (i \in 1..Len(fromZed) /\ fromZed'[i] = fromZed[i]) \/ fromZed'[i] = m
      BY <1>4, <2>1, <3>1, Grows DEF ZedSend
    <3>3. m.id <= MaxZed BY <1>4, <2>1, RouterAssumption DEF ZedSend
    <3> QED BY <3>2, <3>3 DEF IInv, ZedIds
  <2>2. ASSUME NEW i \in 1..Len(toZed), ZedReply(i) PROVE ZedIds'
    <3> DEFINE m == [from |-> "zed", type |-> "reply", id |-> toZed[i].id]
    <3>0. toZed[i] \in Outbound BY LogEntry DEF IInv, TypeOK
    <3>1. m \in Inbound BY <3>0 DEF Inbound, Outbound
    <3>a. fromZed' = Append(fromZed, m) BY <2>2 DEF ZedReply
    <3>2. \A k \in 1..Len(fromZed') :
             (k \in 1..Len(fromZed) /\ fromZed'[k] = fromZed[k]) \/ fromZed'[k] = m
      BY <1>4, <3>1, <3>a, Grows
    <3> QED BY <3>2 DEF IInv, ZedIds
  <2>3. CASE ZedClose BY <2>3 DEF ZedClose, IInv, ZedIds
  <2> QED BY <2>1, <2>2, <2>3 DEF Zed
<1> QED BY <1>1, <1>2, <1>3, <1>5, QuietStep DEF IInv

LEMMA StdinInv == IInv /\ Stdin => IInv'
<1> SUFFICES ASSUME IInv, Stdin PROVE IInv' OBVIOUS
<1>1. TypeOK' BY StdinType DEF IInv
<1>2. UNCHANGED <<callVars, pending, nextId, bridgeUp, toBridge, mainRead, fromZed>>
  BY DEF Stdin, StdinIntercept, StdinForward, StdinBroken, StdinEof, zedVars
<1>3. mainRead \in Nat BY DEF IInv, TypeOK
<1>4. ZedIds' BY <1>2 DEF IInv, ZedIds
<1>5. CASE toServer' = toServer
  BY <1>1, <1>2, <1>3, <1>4, <1>5, QuietStep DEF IInv
<1>6. CASE StdinForward
  <2>1. NextFromZed \in Inbound /\ stdinRead + 1 \in 1..Len(fromZed)
    BY <1>6, NextFromZedType DEF IInv, StdinForward
  <2>2. /\ NextFromZed.from = "zed"
        /\ NextFromZed.type \in {"request", "inlay"} => NextFromZed.id <= MaxZed
    BY <2>1 DEF IInv, ZedIds, NextFromZed
  <2>3. toServer' = Append(toServer, NextFromZed) BY <1>6 DEF StdinForward
  <2>4. IdsApart' /\ RequestIds' /\ ResponseIds' /\ Registered' /\ Truthful'
    BY <1>2, <1>3, <2>1, <2>2, <2>3, WriteStep
  <2> QED BY <1>1, <1>4, <2>4 DEF IInv
<1> QED BY <1>5, <1>6 DEF Stdin, StdinIntercept, StdinBroken, StdinEof

LEMMA ServerInv == IInv /\ Server => IInv'
<1> SUFFICES ASSUME IInv, Server PROVE IInv' OBVIOUS
<1>1. TypeOK' BY ServerType DEF IInv
<1>2. UNCHANGED <<callVars, pending, nextId, bridgeUp, toServer, mainRead, fromZed>>
  BY DEF Server, SrvRead, SrvAnswer, SrvSend, SrvStop, zedVars
<1>3. mainRead \in Nat /\ toBridge \in Seq(Outbound) BY DEF IInv, TypeOK
<1>4. ZedIds' BY <1>2 DEF IInv, ZedIds
<1>5. CASE toBridge' = toBridge
  BY <1>1, <1>2, <1>3, <1>4, <1>5, QuietStep DEF IInv
<1>6. ASSUME NEW m \in Outbound, toBridge' = Append(toBridge, m),
             m.type = "response" =>
                /\ m.re \in 1..Len(toServer)
                /\ toServer[m.re].type \in {"request", "inlay"}
                /\ m.id = toServer[m.re].id,
             m.type # "response" => m.id <= MaxSrv
      PROVE  IInv'
  <2>1. /\ \A j \in 1..Len(toBridge) : j \in 1..Len(toBridge') /\ toBridge'[j] = toBridge[j]
        /\ \A j \in 1..Len(toBridge') :
              j \in 1..Len(toBridge) \/ (j = Len(toBridge) + 1 /\ toBridge'[j] = m)
    BY <1>3, <1>6, Grows
  <2>2. ResponseIds' BY <1>2, <1>6, <2>1 DEF IInv, ResponseIds
  <2>3. Kept(toBridge, toBridge') /\ Kept(toServer, toServer')
    BY <1>2, <2>1, KeptSame DEF Kept
  <2>4. Truthful' BY <1>2, <1>3, <2>3, TruthfulStays DEF IInv
  <2>5. IdsApart' BY <1>2 DEF IInv, IdsApart, callVars
  <2>6. RequestIds' BY <1>2 DEF IInv, RequestIds, callVars
  <2>7. Registered' BY <1>2 DEF IInv, Registered, NoPendingLeak, Entry, callVars
  <2> QED BY <1>1, <1>4, <2>2, <2>4, <2>5, <2>6, <2>7 DEF IInv
<1>7. ASSUME NEW i \in 1..Len(toServer), NEW r \in Results, SrvAnswer(i, r)
      PROVE  IInv'
  <2> DEFINE m == [type |-> "response", id |-> toServer[i].id, re |-> i, result |-> r]
  <2>0. toServer[i] \in Inbound /\ i \in Nat BY LogEntry, LogLength DEF IInv, TypeOK
  <2>1. m \in Outbound BY <2>0 DEF Inbound, Outbound, AllResults
  <2>2. toBridge' = Append(toBridge, m) /\ toServer[i].type \in {"request", "inlay"}
    BY <1>7 DEF SrvAnswer
  <2> QED BY <1>6, <2>1, <2>2
<1>8. ASSUME NEW t \in ServerOwn, SrvSend(t) PROVE IInv'
  <2> DEFINE m == [type |-> t, id |-> srvSent + 1, re |-> 0, result |-> NoResult]
  <2>0. srvSent \in 0..MaxSrv BY DEF IInv, TypeOK
  <2>1. m \in Outbound BY <2>0 DEF Outbound, AllResults, ServerOwn
  <2>2. toBridge' = Append(toBridge, m) /\ srvSent < MaxSrv BY <1>8 DEF SrvSend
  <2>3. m.type # "response" /\ m.id <= MaxSrv
    BY <2>0, <2>2, RouterAssumption DEF ServerOwn
  <2> QED BY <1>6, <2>1, <2>2, <2>3
<1> QED BY <1>5, <1>7, <1>8 DEF Server, SrvRead, SrvStop

-----------------------------------------------------------------------------
(* The steps of a caller's thread.                                         *)

(* A step of caller c that leaves the server's streams, c's id and kind and *)
(* every other caller alone.                                               *)
LEMMA CallerStep ==
    ASSUME IInv, NEW c \in Callers, NEW s \in {"write", "wait", "expired", "done"},
           pc[c] \in Live, pc' = [pc EXCEPT ![c] = s],
           pc[c] \in {"wait", "expired"} => s \in {"expired", "done"},
           UNCHANGED <<kind, callId, mailbox, nextId, fromZed, toServer, toBridge,
                       mainRead>>
    PROVE  /\ IdsApart' /\ ZedIds' /\ RequestIds' /\ ResponseIds'
           /\ \A d \in Callers, j \in 1..mainRead :
                 OwnResponse(d, j)' = OwnResponse(d, j)
<1>0. pc \in [Callers -> {"idle", "register", "write", "wait", "expired", "done"}]
  BY DEF IInv, TypeOK
<1>1. IdsApart'
  <2>1. pc'[c] = s /\ \A d \in Callers \ {c} : pc'[d] = pc[d] BY <1>0
  <2>2. callId[c] # 0 BY DEF IInv, IdsApart
  <2>3. \A d \in Callers : /\ pc'[d] = "idle" => callId[d] = 0
                           /\ pc'[d] \in Live => callId[d] # 0
    BY <2>1, <2>2 DEF IInv, IdsApart, Live
  <2> QED BY <2>3 DEF IInv, IdsApart
<1>2. ZedIds' BY DEF IInv, ZedIds
<1>3. RequestIds'
  <2>1. \A d \in Callers : pc[d] \in {"wait", "expired", "done"}
                            => pc'[d] \in {"wait", "expired", "done"}
    BY <1>0 DEF Live
  <2> QED BY <2>1 DEF IInv, RequestIds
<1>4. ResponseIds' BY DEF IInv, ResponseIds
<1>5. \A d \in Callers, j \in 1..mainRead : OwnResponse(d, j)' = OwnResponse(d, j)
  BY DEF OwnResponse, RequesterOf
<1> QED BY <1>1, <1>2, <1>3, <1>4, <1>5

(* The caller takes a new id: no one has it, and it is the bridge's.       *)
LEMMA AcceptInv ==
    ASSUME IInv, NEW c \in Callers, NEW k \in Kinds, HttpAccept(c, k)
    PROVE  IInv'
<1>1. TypeOK' BY HttpType DEF IInv, Http
<1>2. /\ pc \in [Callers -> {"idle", "register", "write", "wait", "expired", "done"}]
      /\ callId \in [Callers -> Nat] /\ kind \in [Callers -> Kinds]
      /\ nextId \in Nat /\ mainRead \in Nat
  BY DEF IInv, TypeOK
<1>3. /\ bridgeUp /\ pc[c] = "idle" /\ pc' = [pc EXCEPT ![c] = "register"]
      /\ callId' = [callId EXCEPT ![c] = nextId] /\ nextId' = nextId + 1
      /\ kind' = [kind EXCEPT ![c] = k]
      /\ UNCHANGED <<fromZed, toServer, toBridge, mainRead, pending, bridgeUp,
                     mailbox, outcome>>
  BY DEF HttpAccept, IdAfter, zedVars
<1>4. IdBase \in Nat /\ IdBase # 0 BY RouterAssumption
<1>5. IdsApart' BY <1>2, <1>3, <1>4 DEF IInv, IdsApart, Live
<1>6. ZedIds' BY <1>3 DEF IInv, ZedIds
<1>7. RequestIds' BY <1>2, <1>3 DEF IInv, RequestIds
<1>8. ResponseIds' BY <1>3 DEF IInv, ResponseIds
<1>9. Registered'
  <2>1. NoPendingLeak' BY <1>2, <1>3 DEF IInv, Registered, NoPendingLeak, TypeOK, PendingRequest
  <2> QED BY <1>2, <1>3, <2>1 DEF IInv, Registered, Entry
<1>10. Truthful'
  <2>1. ASSUME NEW d \in Callers, d # c
        PROVE  kind'[d] = kind[d] /\ pc'[d] = pc[d]
    BY <1>2, <1>3, <2>1
  <2>2. mailbox[c] = NoMessage /\ outcome[c].tag = "none" /\ pc'[c] = "register"
    BY <1>2, <1>3 DEF IInv, Registered, Truthful
  <2>3. \A d \in Callers, j \in 1..mainRead : OwnResponse(d, j)' = OwnResponse(d, j)
    BY <1>3 DEF OwnResponse, RequesterOf
  <2> QED BY <1>3, <2>1, <2>2, <2>3 DEF IInv, Truthful, Delivered, Rewrites
<1> QED BY <1>1, <1>5, <1>6, <1>7, <1>8, <1>9, <1>10 DEF IInv

LEMMA CallerInv ==
    ASSUME IInv, NEW c \in Callers, Http(c) PROVE IInv'
<1>1. TypeOK' BY HttpType DEF IInv
<1>2. /\ pc \in [Callers -> {"idle", "register", "write", "wait", "expired", "done"}]
      /\ callId \in [Callers -> Nat] /\ kind \in [Callers -> Kinds]
      /\ outcome \in [Callers -> Outcome] /\ mailbox \in [Callers -> Mailbox]
      /\ mainRead \in Nat /\ toServer \in Seq(Inbound) /\ pending \subseteq PendingRequest
  BY DEF IInv, TypeOK
<1> USE DEF zedVars, srvVars
<1>3. CASE HttpReject(c)
  <2>1. /\ bridgeUp /\ pc[c] = "idle" /\ pc' = [pc EXCEPT ![c] = "done"]
        /\ outcome' = [outcome EXCEPT ![c] = Reply("rejected", NoResult)]
        /\ UNCHANGED <<fromZed, toServer, toBridge, mainRead, pending, bridgeUp,
                       nextId, kind, callId, mailbox>>
    BY <1>3 DEF HttpReject
  <2>2. IdsApart' BY <1>2, <2>1 DEF IInv, IdsApart, Live
  <2>3. ZedIds' BY <2>1 DEF IInv, ZedIds
  <2>4. RequestIds'
    <3>1. \A d \in Callers : pc[d] \in {"wait", "expired", "done"}
                              => pc'[d] \in {"wait", "expired", "done"}
      BY <1>2, <2>1
    <3> QED BY <2>1, <3>1 DEF IInv, RequestIds
  <2>5. ResponseIds' BY <2>1 DEF IInv, ResponseIds
  <2>6. Registered'
    <3>1. NoPendingLeak'
      BY <1>2, <2>1 DEF IInv, Registered, NoPendingLeak, PendingRequest
    <3> QED BY <1>2, <2>1, <3>1 DEF IInv, Registered, Entry
  <2>7. Truthful'
    <3>1. \A d \in Callers, j \in 1..mainRead : OwnResponse(d, j)' = OwnResponse(d, j)
      BY <2>1 DEF OwnResponse, RequesterOf
    <3>2. mailbox[c] = NoMessage BY <2>1 DEF IInv, Registered
    <3>3. pc'[c] = "done" /\ outcome'[c].tag = "rejected" BY <1>2, <2>1 DEF Reply
    <3>4. \A d \in Callers \ {c} : outcome'[d] = outcome[d] /\ pc'[d] = pc[d]
      BY <1>2, <2>1
    <3> QED BY <2>1, <3>1, <3>2, <3>3, <3>4 DEF IInv, Truthful, Delivered, Rewrites
  <2> QED BY <1>1, <2>2, <2>3, <2>4, <2>5, <2>6, <2>7 DEF IInv
<1>4. CASE InsertPending(c)
  <2>1. /\ bridgeUp /\ pc[c] = "register" /\ pc' = [pc EXCEPT ![c] = "write"]
        /\ pending' = {e \in pending : e.id # callId[c]} \cup {Entry(c)}
        /\ UNCHANGED <<fromZed, toServer, toBridge, mainRead, bridgeUp,
                       nextId, kind, callId, mailbox, outcome>>
    BY <1>4 DEF InsertPending, Insert, Entry
  <2>2. /\ IdsApart' /\ ZedIds' /\ RequestIds' /\ ResponseIds'
        /\ \A d \in Callers, j \in 1..mainRead :
              OwnResponse(d, j)' = OwnResponse(d, j)
    BY <2>1, CallerStep DEF Live
  <2>3. callId[c] # 0 BY <2>1 DEF IInv, IdsApart, Live
  <2>4. \A d \in Callers \ {c} : /\ pc'[d] = pc[d]
                                 /\ Entry(d) \in pending' <=> Entry(d) \in pending
    BY <1>2, <2>1, <2>3 DEF IInv, IdsApart, Entry
  <2>5. Registered'
    <3>1. NoPendingLeak'
      BY <1>2, <2>1 DEF IInv, Registered, NoPendingLeak, PendingRequest, Entry
    <3>2. pc'[c] = "write" /\ mailbox[c] = NoMessage /\ Entry(c) \in pending'
      BY <1>2, <2>1 DEF IInv, Registered
    <3>3. \A d \in Callers : Entry(d)' = Entry(d) BY <2>1 DEF Entry
    <3> QED BY <2>1, <2>4, <3>1, <3>2, <3>3 DEF IInv, Registered
  <2>6. Truthful'
    <3>1. mailbox[c] = NoMessage /\ outcome[c].tag = "none"
      BY <2>1 DEF IInv, Registered, Truthful
    <3> QED BY <2>1, <2>2, <2>4, <3>1 DEF IInv, Truthful, Delivered, Rewrites
  <2> QED BY <1>1, <2>2, <2>5, <2>6 DEF IInv
<1>5. CASE WriteRequest(c)
  <2> DEFINE m == [from |-> c, type |-> "request", id |-> callId[c]]
  <2>1. /\ bridgeUp /\ pc[c] = "write" /\ pc' = [pc EXCEPT ![c] = "wait"]
        /\ toServer' = Append(toServer, m)
        /\ UNCHANGED <<fromZed, toBridge, mainRead, pending, bridgeUp,
                       nextId, kind, callId, mailbox, outcome>>
    BY <1>5 DEF WriteRequest
  <2>2. m \in Inbound BY <1>2 DEF Inbound
  <2>3. /\ \A i \in 1..Len(toServer) : i \in 1..Len(toServer') /\ toServer'[i] = toServer[i]
        /\ \A i \in 1..Len(toServer') :
              i \in 1..Len(toServer) \/ (i = Len(toServer) + 1 /\ toServer'[i] = m)
    BY <1>2, <2>1, <2>2, Grows
  <2>4. \A d \in Callers \ {c} : pc'[d] = pc[d] BY <1>2, <2>1
  <2>5. pc'[c] = "wait" BY <1>2, <2>1
  <2>6. IdsApart' BY <1>2, <2>1 DEF IInv, IdsApart, Live
  <2>7. ZedIds' BY <2>1 DEF IInv, ZedIds
  <2>8. RequestIds'
    <3>1. c \notin {"zed", "bridge"} BY RouterAssumption
    <3> QED BY <2>1, <2>3, <2>4, <2>5, <3>1 DEF IInv, RequestIds
  <2>9. ResponseIds' BY <2>1, <2>3 DEF IInv, ResponseIds
  <2>10. Registered'
    <3>1. NoPendingLeak'
      BY <1>2, <2>1, <2>4, <2>5 DEF IInv, Registered, NoPendingLeak, PendingRequest
    <3>2. mailbox[c] = NoMessage /\ Entry(c) \in pending BY <2>1 DEF IInv, Registered
    <3>3. \A d \in Callers : Entry(d)' = Entry(d) BY <2>1 DEF Entry
    <3> QED BY <2>1, <2>4, <2>5, <3>1, <3>2, <3>3 DEF IInv, Registered
  <2>11. Truthful'
    <3>1. Kept(toServer, toServer') /\ Kept(toBridge, toBridge')
      BY <2>1, <2>3, KeptSame DEF Kept
    <3>2. mailbox[c] = NoMessage /\ outcome[c].tag = "none"
      BY <2>1 DEF IInv, Registered, Truthful
    <3>3. \A d \in Callers, j \in 1..mainRead : OwnResponse(d, j) => OwnResponse(d, j)'
      BY <1>2, <2>1, <3>1, OwnResponseStays DEF IInv
    <3> QED BY <2>1, <2>4, <2>5, <3>2, <3>3 DEF IInv, Truthful, Delivered, Rewrites
  <2> QED BY <1>1, <2>6, <2>7, <2>8, <2>9, <2>10, <2>11 DEF IInv
<1>6. ASSUME pc[c] \in {"write", "expired"}, bridgeUp,
             NEW why \in {"writeError", "timeout"},
             pc' = [pc EXCEPT ![c] = "done"],
             outcome' = [outcome EXCEPT ![c] = Reply(why, NoResult)],
             pending' = Remove(pending, callId[c]),
             UNCHANGED <<fromZed, toServer, toBridge, mainRead, bridgeUp,
                         nextId, kind, callId, mailbox>>
      PROVE  IInv'
  <2>1. /\ IdsApart' /\ ZedIds' /\ RequestIds' /\ ResponseIds'
        /\ \A d \in Callers, j \in 1..mainRead :
              OwnResponse(d, j)' = OwnResponse(d, j)
    BY <1>6, CallerStep DEF Live
  <2>2. callId[c] # 0 BY <1>6 DEF IInv, IdsApart, Live
  <2>3. \A d \in Callers \ {c} :
           /\ pc'[d] = pc[d] /\ outcome'[d] = outcome[d]
           /\ Entry(d) \in pending' <=> Entry(d) \in pending
    BY <1>2, <1>6, <2>2 DEF IInv, IdsApart, Entry, Remove
  <2>4. pc'[c] = "done" /\ outcome'[c].tag = why BY <1>2, <1>6 DEF Reply
  <2>5. Registered'
    <3>1. NoPendingLeak'
      <4>1. \A e \in pending' : e \in pending /\ e.caller # c /\ e.caller \in Callers
        BY <1>2, <1>6 DEF Remove, PendingRequest, IInv, Registered, NoPendingLeak
      <4> QED BY <1>6, <2>3, <4>1 DEF IInv, Registered, NoPendingLeak
    <3>2. \A d \in Callers : Entry(d)' = Entry(d) BY <1>6 DEF Entry
    <3> QED BY <1>6, <2>3, <2>4, <3>1, <3>2 DEF IInv, Registered
  <2>6. Truthful'
    BY <1>6, <2>1, <2>3, <2>4 DEF IInv, Truthful, Delivered, Rewrites, Registered
  <2> QED BY <1>1, <2>1, <2>5, <2>6 DEF IInv
<1>7. CASE WriteFails(c) BY <1>6, <1>7 DEF WriteFails
<1>8. CASE RemoveExpired(c) BY <1>6, <1>8 DEF RemoveExpired
<1>9. CASE Receive(c)
  <2>1. /\ bridgeUp /\ pc[c] = "wait" /\ pc' = [pc EXCEPT ![c] = "done"]
        /\ mailbox[c] # NoMessage
        /\ outcome' = [outcome EXCEPT ![c] = Reply("answered", mailbox[c].result)]
        /\ UNCHANGED <<fromZed, toServer, toBridge, mainRead, pending, bridgeUp,
                       nextId, kind, callId, mailbox>>
    BY <1>9 DEF Receive
  <2>2. /\ IdsApart' /\ ZedIds' /\ RequestIds' /\ ResponseIds'
        /\ \A d \in Callers, j \in 1..mainRead :
              OwnResponse(d, j)' = OwnResponse(d, j)
    BY <2>1, CallerStep DEF Live
  <2>3. \A d \in Callers \ {c} : pc'[d] = pc[d] /\ outcome'[d] = outcome[d]
    BY <1>2, <2>1
  <2>4. /\ pc'[c] = "done" /\ outcome'[c].tag = "answered"
        /\ outcome'[c].result = mailbox[c].result
    BY <1>2, <2>1 DEF Reply
  <2>5. Registered'
    <3>1. NoPendingLeak'
      <4>1. Entry(c) \notin pending BY <2>1 DEF IInv, Registered
      <4>2. \A e \in pending : e.caller \in Callers /\ e.caller # c
        BY <1>2, <2>1, <4>1 DEF IInv, Registered, NoPendingLeak, PendingRequest, Entry
      <4> QED BY <2>1, <2>3, <4>2 DEF IInv, Registered, NoPendingLeak
    <3>2. \A d \in Callers : Entry(d)' = Entry(d) BY <2>1 DEF Entry
    <3> QED BY <2>1, <2>3, <2>4, <3>1, <3>2 DEF IInv, Registered
  <2>6. Truthful'
    <3>1. PICK j \in 1..mainRead :
             OwnResponse(c, j) /\ mailbox[c] = Delivered(kind[c], toBridge[j])
      BY <2>1 DEF IInv, Truthful
    <3> QED BY <2>1, <2>2, <2>3, <2>4, <3>1 DEF IInv, Truthful, Delivered, Rewrites
  <2> QED BY <1>1, <2>2, <2>5, <2>6 DEF IInv
<1>10. CASE Timeout(c)
  <2>1. /\ bridgeUp /\ pc[c] = "wait" /\ pc' = [pc EXCEPT ![c] = "expired"]
        /\ UNCHANGED <<fromZed, toServer, toBridge, mainRead, pending, bridgeUp,
                       nextId, kind, callId, mailbox, outcome>>
    BY <1>10 DEF Timeout
  <2>2. /\ IdsApart' /\ ZedIds' /\ RequestIds' /\ ResponseIds'
        /\ \A d \in Callers, j \in 1..mainRead :
              OwnResponse(d, j)' = OwnResponse(d, j)
    BY <2>1, CallerStep DEF Live
  <2>3. pc'[c] = "expired" /\ \A d \in Callers \ {c} : pc'[d] = pc[d]
    BY <1>2, <2>1
  <2>4. Registered'
    <3>1. NoPendingLeak'
      BY <1>2, <2>1, <2>3 DEF IInv, Registered, NoPendingLeak, PendingRequest
    <3>2. \A d \in Callers : Entry(d)' = Entry(d) BY <2>1 DEF Entry
    <3> QED BY <2>1, <2>3, <3>1, <3>2 DEF IInv, Registered
  <2>5. Truthful'
    BY <2>1, <2>2, <2>3 DEF IInv, Truthful, Delivered, Rewrites
  <2> QED BY <1>1, <2>2, <2>4, <2>5 DEF IInv
<1> QED
  BY <1>3, <1>4, <1>5, <1>7, <1>8, <1>9, <1>10, AcceptInv DEF Http

-----------------------------------------------------------------------------
(* The steps of the main thread.                                           *)

(* The entry leaves the table, the message enters the channel: together.   *)
LEMMA ResolveInv == IInv /\ RouteResolve => IInv'
<1> SUFFICES ASSUME IInv, RouteResolve PROVE IInv' OBVIOUS
<1>1. TypeOK' BY MainType DEF IInv, Main
<1>2. MainHasNext BY DEF RouteResolve
<1> DEFINE m == NextFromServer
<1>3. PICK e \in Hits(m) :
          /\ mainRead' = mainRead + 1
          /\ pending' = Remove(pending, e.id)
          /\ mailbox' = [mailbox EXCEPT ![e.caller] = Delivered(kind[e.caller], m)]
  BY DEF RouteResolve
<1> DEFINE c == e.caller
<1>4. /\ m.type = "response" /\ RequesterOf(m) = c
      /\ c \in Callers /\ e = Entry(c) /\ pc[c] \in {"wait", "expired"}
  BY <1>2, HitIsOwn
<1>5. m \in Outbound /\ m = toBridge[mainRead + 1] /\ mainRead \in Nat
  BY <1>2, NextFromServerType DEF IInv, TypeOK, NextFromServer
<1>6. UNCHANGED <<fromZed, toServer, toBridge, bridgeUp, nextId, pc, kind, callId,
                  outcome>>
  BY DEF RouteResolve, zedVars
<1>7. /\ mailbox \in [Callers -> Mailbox] /\ pending \subseteq PendingRequest
      /\ bridgeUp
  BY <1>2 DEF IInv, TypeOK, MainHasNext
<1>8. callId[c] # 0 /\ e.id = callId[c]
  BY <1>4 DEF IInv, IdsApart, Live, Entry
<1>9. Delivered(kind[c], m) # NoMessage
  BY <1>4, <1>5 DEF Delivered, NoMessage, Outbound
<1>10. /\ mailbox'[c] = Delivered(kind[c], m) /\ mailbox'[c] # NoMessage
       /\ \A d \in Callers \ {c} : mailbox'[d] = mailbox[d]
  BY <1>3, <1>4, <1>7, <1>9
<1>11. \A d \in Callers : Entry(d)' = Entry(d) BY <1>6 DEF Entry
<1>12. /\ Entry(c) \notin pending'
       /\ \A d \in Callers \ {c} : Entry(d) \in pending' <=> Entry(d) \in pending
  BY <1>3, <1>4, <1>8 DEF IInv, IdsApart, Entry, Remove
<1>13. IdsApart' BY <1>6 DEF IInv, IdsApart
<1>14. ZedIds' BY <1>6 DEF IInv, ZedIds
<1>15. RequestIds' BY <1>6 DEF IInv, RequestIds
<1>16. ResponseIds' BY <1>6 DEF IInv, ResponseIds
<1>17. Registered'
  <2>1. NoPendingLeak'
    BY <1>3, <1>6 DEF IInv, Registered, NoPendingLeak, Remove
  <2> QED BY <1>4, <1>6, <1>7, <1>10, <1>11, <1>12, <2>1 DEF IInv, Registered
<1>18. Truthful'
  <2>1. Kept(toServer, toServer') /\ Kept(toBridge, toBridge')
    BY <1>6, KeptSame
  <2>2. \A d \in Callers, j \in 1..mainRead : OwnResponse(d, j) =>
           OwnResponse(d, j)' /\ j \in (1..mainRead)' /\ toBridge'[j] = toBridge[j]
    BY <1>3, <1>5, <2>1, OwnResponseStays DEF IInv
  <2> PICK n \in Nat : n = mainRead + 1 BY <1>5
  <2>a. PICK own \in Callers : own = c BY <1>4
  <2>3. OwnResponse(own, n)' /\ n \in (1..mainRead)'
    <3>1. n \in 1..mainRead' BY <1>3, <1>5
    <3>2. toBridge'[n].type = "response" /\ toServer'[toBridge'[n].re].from = own
      BY <1>4, <1>5, <1>6, <2>a DEF RequesterOf
    <3> QED BY <3>1, <3>2 DEF OwnResponse, RequesterOf
  <2>4. \A d \in Callers, i \in 1..n :
           Delivered(kind[d], toBridge[i])' = Delivered(kind[d], toBridge[i])
    BY <1>6 DEF Delivered, Rewrites
  <2>5. ASSUME NEW d \in Callers, mailbox'[d] # NoMessage
        PROVE  /\ pc'[d] \in {"wait", "expired", "done"}
               /\ \E j \in (1..mainRead)' :
                     /\ OwnResponse(d, j)'
                     /\ mailbox'[d] = Delivered(kind[d], toBridge[j])'
    <3>1. CASE d = c
      <4>1. n \in 1..n /\ d = own BY <1>5, <2>a, <3>1
      <4>2. mailbox'[d] = Delivered(kind[d], toBridge[n]) BY <1>5, <1>10, <3>1
      <4>3. mailbox'[d] = Delivered(kind[d], toBridge[n])' BY <2>4, <4>1, <4>2
      <4>4. pc'[d] \in {"wait", "expired", "done"} BY <1>4, <1>6, <3>1
      <4> QED BY <2>3, <4>1, <4>3, <4>4
    <3>2. CASE d # c
      <4>1. mailbox'[d] = mailbox[d] BY <1>10, <3>2
      <4>2. PICK j \in 1..mainRead :
               OwnResponse(d, j) /\ mailbox[d] = Delivered(kind[d], toBridge[j])
        BY <2>5, <4>1 DEF IInv, Truthful
      <4>3. OwnResponse(d, j)' /\ j \in (1..mainRead)' BY <2>2, <4>2
      <4>4. j \in 1..n BY <1>5
      <4> QED BY <1>6, <2>4, <2>5, <4>1, <4>2, <4>3, <4>4 DEF IInv, Truthful
    <3> QED BY <3>1, <3>2
  <2>6. ASSUME NEW d \in Callers, outcome'[d].tag = "answered"
        PROVE  \E j \in (1..mainRead)' :
                  /\ OwnResponse(d, j)'
                  /\ outcome'[d].result = Delivered(kind[d], toBridge[j])'.result
    <3>1. PICK j \in 1..mainRead :
             OwnResponse(d, j) /\ outcome[d].result = Delivered(kind[d], toBridge[j]).result
      BY <1>6, <2>6 DEF IInv, Truthful
    <3>2. OwnResponse(d, j)' /\ j \in (1..mainRead)' BY <2>2, <3>1
    <3>3. j \in 1..n BY <1>5
    <3> QED BY <1>6, <2>4, <3>1, <3>2, <3>3
  <2>7. \A d \in Callers : pc'[d] # "done" => outcome'[d].tag = "none"
    BY <1>6 DEF IInv, Truthful
  <2> QED BY <2>5, <2>6, <2>7 DEF Truthful
<1> QED BY <1>1, <1>13, <1>14, <1>15, <1>16, <1>17, <1>18 DEF IInv

LEMMA MainInv == IInv /\ Main => IInv'
<1> SUFFICES ASSUME IInv, Main PROVE IInv' OBVIOUS
<1>1. TypeOK' BY MainType DEF IInv
<1>2. mainRead \in Nat BY DEF IInv, TypeOK
<1>3. fromZed' = fromZed
  BY DEF Main, RouteMalformed, RouteResolve, RouteAck, RouteForward, MainExit, zedVars
<1>4. ZedIds' BY <1>3 DEF IInv, ZedIds
<1>5. ASSUME toServer' = toServer, mainRead' = mainRead + 1,
             UNCHANGED <<callVars, pending, nextId, bridgeUp, toBridge>>
      PROVE  IInv'
  BY <1>1, <1>2, <1>4, <1>5, QuietStep DEF IInv
<1>6. CASE RouteMalformed BY <1>5, <1>6 DEF RouteMalformed
<1>7. CASE RouteResolve BY <1>7, ResolveInv
<1>8. CASE RouteAck
  <2> DEFINE m == [from |-> "bridge", type |-> "reply", id |-> NextFromServer.id]
  <2>1. /\ mainRead' = mainRead + 1
        /\ UNCHANGED <<callVars, pending, nextId, bridgeUp, toBridge>>
        /\ toServer' = Append(toServer, m) \/ toServer' = toServer
    BY <1>8 DEF RouteAck
  <2>2. NextFromServer \in Outbound
    BY <1>8, NextFromServerType DEF IInv, RouteAck
  <2>3. m \in Inbound BY <2>2 DEF Inbound, Outbound
  <2>4. CASE toServer' = Append(toServer, m)
    <3>1. IdsApart' /\ RequestIds' /\ ResponseIds' /\ Registered' /\ Truthful'
      BY <1>2, <2>1, <2>3, <2>4, WriteStep
    <3> QED BY <1>1, <1>4, <3>1 DEF IInv
  <2> QED BY <1>5, <2>1, <2>4
<1>9. CASE RouteForward BY <1>5, <1>9 DEF RouteForward
<1>10. CASE MainExit
  <2>1. /\ bridgeUp' = FALSE
        /\ pc' = [c \in Callers |-> IF pc[c] = "idle" THEN "idle" ELSE "done"]
        /\ outcome' = [c \in Callers |-> IF pc[c] \in {"idle", "done"} THEN outcome[c]
                                         ELSE Reply("aborted", NoResult)]
        /\ UNCHANGED <<toServer, toBridge, mainRead, nextId, kind, callId, mailbox>>
    BY <1>10, Zenon DEF MainExit
  <2>2. IdsApart' BY <2>1 DEF IInv, IdsApart, Live
  <2>3. RequestIds' BY <2>1 DEF IInv, RequestIds
  <2>4. ResponseIds' BY <2>1 DEF IInv, ResponseIds
  <2>5. Registered' BY <2>1, Zenon DEF Registered
  <2>6. Truthful'
    <3>1. \A c \in Callers, j \in 1..mainRead : OwnResponse(c, j)' = OwnResponse(c, j)
      BY <2>1 DEF OwnResponse, RequesterOf
    <3>2. \A c \in Callers :
             /\ pc'[c] = IF pc[c] = "idle" THEN "idle" ELSE "done"
             /\ outcome'[c] = outcome[c] \/ outcome'[c].tag = "aborted"
             /\ pc'[c] # "done" => outcome'[c] = outcome[c]
      BY <2>1 DEF Reply
    <3> QED BY <2>1, <3>1, <3>2 DEF IInv, Truthful, Delivered, Rewrites
  <2> QED BY <1>1, <1>4, <2>2, <2>3, <2>4, <2>5, <2>6 DEF IInv
<1> QED BY <1>6, <1>7, <1>8, <1>9, <1>10 DEF Main

-----------------------------------------------------------------------------
(* The invariant and what follows from it.                                 *)

LEMMA StepInv == IInv /\ [Next]_vars => IInv'
<1>1. CASE IInv /\ UNCHANGED vars
  <2> USE DEF vars, zedVars, srvVars
  <2>1. TypeOK' BY <1>1, StepType DEF IInv
  <2>2. ZedIds' BY <1>1 DEF IInv, ZedIds
  <2>3. mainRead' \in Nat /\ mainRead' >= mainRead BY <1>1 DEF IInv, TypeOK
  <2> QED BY <1>1, <2>1, <2>2, <2>3, QuietStep DEF IInv
<1> QED BY <1>1, ZedInv, StdinInv, CallerInv, MainInv, ServerInv DEF Next

THEOREM Invariance == Spec => []IInv
  BY InitInv, StepInv, PTL DEF Spec

(* A caller that is answered holds the server's response to its own        *)
(* request, for any number of callers, any answers and any interleaving    *)
(* with Zed's traffic, the timer and the death of the server               *)
(* (lsp.rs:12-79).                                                         *)
THEOREM AnswersCorrelate == Spec => []Correlation
<1>1. IInv => Correlation
  BY DEF IInv, Truthful, OwnResponse, Correlation, Delivered, Rewrites
<1> QED BY <1>1, Invariance, PTL

(* No caller blocks without an entry or a message to wake it, and none has *)
(* both (lsp.rs:20-28, 60-79).                                             *)
THEOREM WaitersAreReachable == Spec => []WaiterIsReachable
<1>1. IInv => WaiterIsReachable
  BY DEF IInv, Registered, WaiterIsReachable, Entry
<1> QED BY <1>1, Invariance, PTL

(* The pending table never keeps an entry of a call that is over           *)
(* (lsp.rs:32, 42, 60).                                                    *)
THEOREM PendingIsClean == Spec => []NoPendingLeak
<1>1. IInv => NoPendingLeak
  BY DEF IInv, Registered, NoPendingLeak
<1> QED BY <1>1, Invariance, PTL

(* Both halves together: the table is exactly the calls in flight          *)
(* (lsp.rs:20-47, 58-79).                                                  *)
THEOREM PendingStaysExact == Spec => []PendingIsExact
<1>1. IInv => PendingIsExact
  BY DEF IInv, Registered, NoPendingLeak, WaiterIsReachable, Entry, PendingIsExact
<1> QED BY <1>1, Invariance, PTL

-----------------------------------------------------------------------------
(* Who is told what, and how often. A second invariant, on top of the first: *)
(* where every message of a stream came from, and that nothing is taken     *)
(* over twice. Replies and all else have ids of their own in each stream.   *)

SameSort(m, n, type) == m.id = n.id /\ (m.type = type <=> n.type = type)

(* Zed counts its messages, and answers once what it was shown.             *)
ZedOnce ==
    /\ \A k \in 1..Len(fromZed) :
          /\ fromZed[k].type # "reply" => fromZed[k].id <= zedSent
          /\ fromZed[k].type = "reply" =>
                \E j \in 1..mainRead : /\ toBridge[j].type \in {"prompt", "stringAsk"}
                                       /\ toBridge[j].id = fromZed[k].id
    /\ \A k, l \in 1..Len(fromZed) : SameSort(fromZed[k], fromZed[l], "reply") => k = l

(* The server counts its messages, and answers a request once.              *)
ServerOnce ==
    /\ \A j \in 1..Len(toBridge) :
          /\ toBridge[j].type # "response" => toBridge[j].id <= srvSent
          /\ toBridge[j].type = "response" => toBridge[j].result \in Results
    /\ \A j, k \in 1..Len(toBridge) :
          /\ toBridge[j].type # "response" /\ toBridge[k].type # "response"
             /\ toBridge[j].id = toBridge[k].id => j = k
          /\ toBridge[j].type = "response" /\ toBridge[k].type = "response"
             /\ toBridge[j].re = toBridge[k].re => j = k

(* What the server is sent is a message of Zed that was read, an            *)
(* acknowledgement of an ask that was routed, or a caller's one request.    *)
ForwardedOnce ==
    /\ \A i \in 1..Len(toServer) :
          /\ toServer[i].from = "zed" =>
                /\ toServer[i].type # "inlay"
                /\ \E k \in 1..stdinRead : fromZed[k] = toServer[i]
          /\ toServer[i].from = "bridge" =>
                \E j \in 1..mainRead : /\ toBridge[j].type = "ask"
                                       /\ toBridge[j].id = toServer[i].id
          /\ toServer[i].from \in Callers =>
                toServer[i].type = "request" /\ toServer[i].id >= IdBase
    /\ \A i, k \in 1..Len(toServer) :
          toServer[i].from = toServer[k].from
          /\ SameSort(toServer[i], toServer[k], "reply") => i = k

(* Every ask that was routed has its acknowledgement.                       *)
AsksSettled ==
    srvUp => \A j \in 1..mainRead : toBridge[j].type = "ask" =>
        \E i \in 1..Len(toServer) : /\ toServer[i].from = "bridge"
                                    /\ toServer[i].id = toBridge[j].id

(* What Zed is shown answers an inlay hint request that was read, or is a   *)
(* message of the server that was routed; no prompt is held back.           *)
ShownOnce ==
    /\ \A i \in 1..Len(toZed) :
          \/ /\ toZed[i].type = "response" /\ toZed[i].re = 0
             /\ \E k \in 1..stdinRead : /\ fromZed[k].type = "inlay"
                                        /\ fromZed[k].id = toZed[i].id
          \/ /\ toZed[i].type \notin {"ask", "malformed"}
             /\ \E j \in 1..mainRead : toBridge[j] = toZed[i]
    /\ \A i, k \in 1..Len(toZed) : SameSort(toZed[i], toZed[k], "response") => i = k
    /\ \A j \in 1..mainRead : toBridge[j].type \in {"prompt", "stringAsk"} =>
          \E i \in 1..Len(toZed) : toZed[i] = toBridge[j]

(* How a call came to its end, and what goes before the proxy's port.       *)
CallsSettled ==
    \A c \in Callers :
        /\ pc[c] = "done" => outcome[c].tag # "none"
        /\ outcome[c].tag \in {"rejected", "writeError"} =>
              \A i \in 1..Len(toServer) : toServer[i].from # c
        /\ outcome[c].tag = "aborted" => ~bridgeUp
        /\ mailbox[c] # NoMessage /\ kind[c] = "startDebug"
           /\ mailbox[c].result = ProxyPort => realDapPort # NoResult

Streams == /\ ZedOnce /\ ServerOnce /\ ForwardedOnce /\ AsksSettled /\ ShownOnce

JInv == /\ IInv /\ Streams
        /\ CallsSettled /\ StrayOnlyAfterTimeout /\ PortBeforeAnswer

-----------------------------------------------------------------------------
(* An id stands for one message.                                            *)

LEMMA SameRequest ==
    ASSUME IInv, ForwardedOnce,
           NEW i \in 1..Len(toServer), NEW k \in 1..Len(toServer),
           toServer[i].type \in {"request", "inlay"},
           toServer[k].type \in {"request", "inlay"},
           toServer[i].id = toServer[k].id
    PROVE  i = k
<1> DEFINE p == toServer[i]
           q == toServer[k]
<1>1. p \in Inbound /\ q \in Inbound BY LogEntry DEF IInv, TypeOK
<1>2. p.from \in Callers \cup {"zed"} /\ q.from \in Callers \cup {"zed"}
  BY <1>1 DEF Inbound, IInv, RequestIds
<1>3. ASSUME p.from = q.from PROVE i = k
  BY <1>3 DEF ForwardedOnce, SameSort
<1>4. ASSUME NEW m \in Inbound, NEW n \in Inbound, m.id = n.id,
             m.from = "zed" => m.id <= MaxZed, n.from \in Callers => n.id >= IdBase
      PROVE  ~(m.from = "zed" /\ n.from \in Callers)
  BY <1>4, RouterAssumption DEF Inbound
<1>5. /\ p.from = "zed" => p.id <= MaxZed
      /\ q.from = "zed" => q.id <= MaxZed
      /\ p.from \in Callers => p.id >= IdBase /\ p.id = callId[p.from]
      /\ q.from \in Callers => q.id >= IdBase /\ q.id = callId[q.from]
  BY DEF IInv, RequestIds, ForwardedOnce
<1>6. ASSUME p.from \in Callers, q.from \in Callers PROVE i = k
  <2>1. callId[p.from] = callId[q.from] /\ callId[p.from] # 0
    BY <1>1, <1>5, <1>6, RouterAssumption DEF Inbound
  <2> QED BY <1>3, <1>6, <2>1 DEF IInv, IdsApart
<1> QED BY <1>1, <1>2, <1>3, <1>4, <1>5, <1>6

LEMMA SameMessage ==
    ASSUME IInv, ForwardedOnce, ServerOnce,
           NEW j \in 1..Len(toBridge), NEW k \in 1..Len(toBridge),
           SameSort(toBridge[j], toBridge[k], "response")
    PROVE  j = k
<1>1. CASE toBridge[j].type # "response"
  BY <1>1 DEF ServerOnce, SameSort
<1>2. CASE toBridge[j].type = "response"
  <2>1. toBridge[k].type = "response" BY <1>2 DEF SameSort
  <2>2. toBridge[j].re = toBridge[k].re
    BY <1>2, <2>1, SameRequest DEF IInv, ResponseIds, SameSort
  <2> QED BY <1>2, <2>1, <2>2 DEF ServerOnce
<1> QED BY <1>1, <1>2

(* A reply of Zed and an acknowledgement are never to the same request.     *)
LEMMA ReplySides ==
    ASSUME IInv, ForwardedOnce, ZedOnce, ServerOnce,
           NEW i \in 1..Len(toServer), toServer[i].type = "reply"
    PROVE  /\ toServer[i].from \in {"zed", "bridge"}
           /\ toServer[i].from = "zed" =>
                 \E j \in 1..mainRead : /\ toBridge[j].type \in {"prompt", "stringAsk"}
                                        /\ toBridge[j].id = toServer[i].id
           /\ toServer[i].from = "bridge" =>
                 \E j \in 1..mainRead : /\ toBridge[j].type = "ask"
                                        /\ toBridge[j].id = toServer[i].id
<1>1. toServer[i] \in Inbound BY LogEntry DEF IInv, TypeOK
<1>2. toServer[i].from \in {"zed", "bridge"} BY <1>1 DEF Inbound, ForwardedOnce
<1>3. ASSUME toServer[i].from = "zed"
      PROVE  \E j \in 1..mainRead : /\ toBridge[j].type \in {"prompt", "stringAsk"}
                                    /\ toBridge[j].id = toServer[i].id
  <2>1. PICK k \in 1..stdinRead : fromZed[k] = toServer[i] BY <1>3 DEF ForwardedOnce
  <2>2. k \in 1..Len(fromZed) BY LogLength DEF IInv, TypeOK
  <2> QED BY <2>1, <2>2 DEF ZedOnce
<1> QED BY <1>2, <1>3 DEF ForwardedOnce

LEMMA SameReply ==
    ASSUME IInv, ForwardedOnce, ZedOnce, ServerOnce,
           NEW i \in 1..Len(toServer), NEW k \in 1..Len(toServer),
           toServer[i].type = "reply", toServer[k].type = "reply",
           toServer[i].id = toServer[k].id
    PROVE  i = k
<1>1. ASSUME toServer[i].from = toServer[k].from PROVE i = k
  BY <1>1 DEF ForwardedOnce, SameSort
<1>2. \A a, b \in 1..mainRead :
         ~(/\ toBridge[a].type \in {"prompt", "stringAsk"} /\ toBridge[b].type = "ask"
           /\ toBridge[a].id = toBridge[b].id)
  <2>1. 1..mainRead \subseteq 1..Len(toBridge) BY LogLength DEF IInv, TypeOK
  <2> QED BY <2>1 DEF ServerOnce
<1> QED BY <1>1, <1>2, ReplySides

-----------------------------------------------------------------------------
(* What a step leaves as it was.                                            *)

LEMMA ZedOnceStays ==
    ASSUME TypeOK, ZedOnce, Kept(toBridge, toBridge'),
           mainRead' \in Nat, mainRead' >= mainRead, UNCHANGED <<fromZed, zedSent>>
    PROVE  ZedOnce'
<1>1. \A j \in 1..mainRead : j \in (1..mainRead)' /\ toBridge'[j] = toBridge[j]
  BY LogLength DEF TypeOK, Kept
<1> QED BY <1>1 DEF ZedOnce

LEMMA ForwardedStays ==
    ASSUME TypeOK, ForwardedOnce, Kept(fromZed, fromZed'), Kept(toBridge, toBridge'),
           mainRead' \in Nat, mainRead' >= mainRead,
           stdinRead' \in Nat, stdinRead' >= stdinRead, UNCHANGED toServer
    PROVE  ForwardedOnce'
<1>1. \A j \in 1..mainRead : j \in (1..mainRead)' /\ toBridge'[j] = toBridge[j]
  BY LogLength DEF TypeOK, Kept
<1>2. \A k \in 1..stdinRead : k \in (1..stdinRead)' /\ fromZed'[k] = fromZed[k]
  BY LogLength DEF TypeOK, Kept
<1> QED BY <1>1, <1>2 DEF ForwardedOnce

(* Main routes nothing, or a message that is none of these types.           *)
MainTakes(types) ==
    \/ mainRead' = mainRead
    \/ MainHasNext /\ mainRead' = mainRead + 1 /\ NextFromServer.type \notin types

LEMMA MainTakesOne ==
    ASSUME TypeOK, NEW types, MainTakes(types), Kept(toBridge, toBridge')
    PROVE  /\ mainRead' \in Nat /\ mainRead' >= mainRead
           /\ \A j \in 1..mainRead : j \in (1..mainRead)' /\ toBridge'[j] = toBridge[j]
           /\ \A j \in (1..mainRead)' :
                 j \in 1..mainRead \/ toBridge'[j].type \notin types
<1>1. mainRead \in Nat /\ Len(toBridge) \in Nat /\ mainRead <= Len(toBridge)
  BY LogLength DEF TypeOK
<1> QED BY <1>1 DEF MainTakes, MainHasNext, NextFromServer, Kept

LEMMA AsksStay ==
    ASSUME TypeOK, AsksSettled, Kept(toServer, toServer'), Kept(toBridge, toBridge'),
           srvUp' => srvUp, MainTakes({"ask"})
    PROVE  AsksSettled'
<1>1. /\ \A j \in 1..mainRead : j \in (1..mainRead)' /\ toBridge'[j] = toBridge[j]
      /\ \A j \in (1..mainRead)' : j \in 1..mainRead \/ toBridge'[j].type # "ask"
  BY MainTakesOne
<1>2. \A i \in 1..Len(toServer) : i \in 1..Len(toServer)' /\ toServer'[i] = toServer[i]
  BY DEF Kept
<1> SUFFICES ASSUME srvUp', NEW j \in (1..mainRead)', toBridge'[j].type = "ask"
             PROVE  \E i \in 1..Len(toServer)' : /\ toServer'[i].from = "bridge"
                                                  /\ toServer'[i].id = toBridge'[j].id
  BY DEF AsksSettled
<1>3. srvUp /\ j \in 1..mainRead /\ toBridge'[j] = toBridge[j] BY <1>1
<1>4. PICK i \in 1..Len(toServer) : /\ toServer[i].from = "bridge"
                                     /\ toServer[i].id = toBridge[j].id
  BY <1>3 DEF AsksSettled
<1> QED BY <1>2, <1>3, <1>4

LEMMA ShownStays ==
    ASSUME TypeOK, ShownOnce, Kept(fromZed, fromZed'), Kept(toBridge, toBridge'),
           stdinRead' \in Nat, stdinRead' >= stdinRead,
           MainTakes({"prompt", "stringAsk"}), UNCHANGED toZed
    PROVE  ShownOnce'
<1>1. /\ \A j \in 1..mainRead : j \in (1..mainRead)' /\ toBridge'[j] = toBridge[j]
      /\ \A j \in (1..mainRead)' :
            j \in 1..mainRead \/ toBridge'[j].type \notin {"prompt", "stringAsk"}
  BY MainTakesOne
<1>2. \A k \in 1..stdinRead : k \in (1..stdinRead)' /\ fromZed'[k] = fromZed[k]
  BY LogLength DEF TypeOK, Kept
<1>3. \A i \in 1..Len(toZed) :
         \/ /\ toZed[i].type = "response" /\ toZed[i].re = 0
            /\ \E k \in (1..stdinRead)' : /\ fromZed'[k].type = "inlay"
                                          /\ fromZed'[k].id = toZed[i].id
         \/ /\ toZed[i].type \notin {"ask", "malformed"}
            /\ \E j \in (1..mainRead)' : toBridge'[j] = toZed[i]
  BY <1>1, <1>2 DEF ShownOnce
<1>4. \A j \in (1..mainRead)' : toBridge'[j].type \in {"prompt", "stringAsk"} =>
         \E i \in 1..Len(toZed) : toZed[i] = toBridge'[j]
  BY <1>1 DEF ShownOnce
<1> QED BY <1>3, <1>4 DEF ShownOnce

LEMMA StreamsStay ==
    ASSUME IInv, Streams, srvUp' => srvUp, MainTakes({"ask", "prompt", "stringAsk"}),
           UNCHANGED <<fromZed, zedSent, stdinRead, toServer, toBridge, srvSent, toZed>>
    PROVE  Streams'
<1>1. /\ Kept(fromZed, fromZed') /\ Kept(toBridge, toBridge') /\ Kept(toServer, toServer')
      /\ stdinRead' \in Nat /\ stdinRead' >= stdinRead
  BY KeptSame DEF IInv, TypeOK
<1>2. MainTakes({"ask"}) /\ MainTakes({"prompt", "stringAsk"})
  BY DEF MainTakes
<1>a. mainRead' \in Nat /\ mainRead' >= mainRead
  BY <1>1, <1>2, MainTakesOne DEF IInv
<1>3. ServerOnce' BY DEF Streams, ServerOnce
<1>4. AsksSettled' BY <1>1, <1>2, AsksStay DEF Streams, IInv
<1>5. ShownOnce' BY <1>1, <1>2, ShownStays DEF Streams, IInv
<1> QED BY <1>1, <1>a, <1>3, <1>4, <1>5, ZedOnceStays, ForwardedStays DEF Streams, IInv

-----------------------------------------------------------------------------
(* One message more in one of the streams.                                  *)

LEMMA ZedWrites ==
    ASSUME IInv, Streams, NEW m \in Inbound, fromZed' = Append(fromZed, m),
           zedSent' \in Nat, zedSent' >= zedSent,
           m.type # "reply" => m.id <= zedSent',
           m.type = "reply" =>
              \E j \in 1..mainRead : /\ toBridge[j].type \in {"prompt", "stringAsk"}
                                     /\ toBridge[j].id = m.id,
           \A k \in 1..Len(fromZed) : ~SameSort(fromZed[k], m, "reply"),
           UNCHANGED <<stdinRead, toServer, toBridge, mainRead, srvSent, toZed, srvUp>>
    PROVE  Streams'
<1>1. fromZed \in Seq(Inbound) /\ mainRead \in Nat /\ stdinRead \in Nat /\ zedSent \in Nat
  BY DEF IInv, TypeOK
<1>2. /\ Kept(fromZed, fromZed') /\ Kept(toBridge, toBridge') /\ Kept(toServer, toServer')
  BY <1>1, KeptSame, KeptAppend
<1>3. ZedOnce'
  <2>1. \A k \in 1..Len(fromZed') :
           \/ k \in 1..Len(fromZed) /\ fromZed'[k] = fromZed[k]
           \/ k = Len(fromZed) + 1 /\ fromZed'[k] = m
    BY <1>1, Grows
  <2>a. \A k \in 1..Len(fromZed) : fromZed[k] \in Inbound BY <1>1, LogEntry
  <2>2. \A k \in 1..Len(fromZed) : fromZed[k].id \in Nat BY <2>a DEF Inbound
  <2>3. \A k \in 1..Len(fromZed') :
           /\ fromZed'[k].type # "reply" => fromZed'[k].id <= zedSent'
           /\ fromZed'[k].type = "reply" =>
                 \E j \in (1..mainRead)' : /\ toBridge'[j].type \in {"prompt", "stringAsk"}
                                           /\ toBridge'[j].id = fromZed'[k].id
    <3> SUFFICES ASSUME NEW k \in 1..Len(fromZed') PROVE <2>3!(k) OBVIOUS
    <3>1. CASE k \in 1..Len(fromZed) /\ fromZed'[k] = fromZed[k]
      <4>1. fromZed[k].id \in Nat BY <2>2, <3>1
      <4> QED BY <1>1, <3>1, <4>1 DEF Streams, ZedOnce
    <3> QED BY <2>1, <3>1
  <2>4. \A k, l \in 1..Len(fromZed') : SameSort(fromZed'[k], fromZed'[l], "reply") => k = l
    BY <2>1 DEF Streams, ZedOnce, SameSort
  <2> QED BY <2>3, <2>4 DEF ZedOnce, SameSort
<1>4. MainTakes({"ask"}) /\ MainTakes({"prompt", "stringAsk"}) BY DEF MainTakes
<1>5. ServerOnce' BY DEF Streams, ServerOnce
<1>6. ForwardedOnce' BY <1>1, <1>2, ForwardedStays DEF Streams, IInv
<1>7. AsksSettled' BY <1>2, <1>4, AsksStay DEF Streams, IInv
<1>8. ShownOnce' BY <1>1, <1>2, <1>4, ShownStays DEF Streams, IInv
<1> QED BY <1>3, <1>5, <1>6, <1>7, <1>8 DEF Streams

LEMMA ServerWrites ==
    ASSUME IInv, Streams, NEW m \in Outbound, toBridge' = Append(toBridge, m),
           srvSent' \in Nat, srvSent' >= srvSent,
           m.type # "response" => srvSent < m.id /\ m.id <= srvSent',
           m.type = "response" =>
              /\ m.result \in Results
              /\ \A j \in 1..Len(toBridge) :
                    ~(toBridge[j].type = "response" /\ toBridge[j].re = m.re),
           UNCHANGED <<fromZed, zedSent, stdinRead, toServer, mainRead, toZed, srvUp>>
    PROVE  Streams'
<1>1. /\ toBridge \in Seq(Outbound) /\ mainRead \in Nat /\ stdinRead \in Nat
      /\ srvSent \in Nat
  BY DEF IInv, TypeOK
<1>2. /\ Kept(fromZed, fromZed') /\ Kept(toBridge, toBridge') /\ Kept(toServer, toServer')
  BY <1>1, KeptSame, KeptAppend
<1>3. ServerOnce'
  <2>1. \A k \in 1..Len(toBridge') :
           \/ k \in 1..Len(toBridge) /\ toBridge'[k] = toBridge[k]
           \/ k = Len(toBridge) + 1 /\ toBridge'[k] = m
    BY <1>1, Grows
  <2>a. \A k \in 1..Len(toBridge) : toBridge[k] \in Outbound BY <1>1, LogEntry
  <2>2. \A k \in 1..Len(toBridge) : toBridge[k].id \in Nat BY <2>a DEF Outbound
  <2>3. \A j \in 1..Len(toBridge') :
           /\ toBridge'[j].type # "response" => toBridge'[j].id <= srvSent'
           /\ toBridge'[j].type = "response" => toBridge'[j].result \in Results
    <3> SUFFICES ASSUME NEW j \in 1..Len(toBridge') PROVE <2>3!(j) OBVIOUS
    <3>1. CASE j \in 1..Len(toBridge) /\ toBridge'[j] = toBridge[j]
      <4>1. toBridge[j].id \in Nat BY <2>2, <3>1
      <4> QED BY <1>1, <3>1, <4>1 DEF Streams, ServerOnce
    <3> QED BY <2>1, <3>1
  <2>4. \A j \in 1..Len(toBridge) :
           /\ toBridge[j].type # "response" /\ m.type # "response" => toBridge[j].id # m.id
           /\ toBridge[j].type = "response" /\ m.type = "response" => toBridge[j].re # m.re
    <3> SUFFICES ASSUME NEW j \in 1..Len(toBridge) PROVE <2>4!(j) OBVIOUS
    <3>1. toBridge[j].id \in Nat /\ m.id \in Nat BY <2>2 DEF Outbound
    <3> QED BY <1>1, <3>1 DEF Streams, ServerOnce
  <2> QED BY <2>1, <2>3, <2>4 DEF Streams, ServerOnce
<1>4. MainTakes({"ask"}) /\ MainTakes({"prompt", "stringAsk"}) BY DEF MainTakes
<1>5. ZedOnce' BY <1>1, <1>2, ZedOnceStays DEF Streams, IInv
<1>6. ForwardedOnce' BY <1>1, <1>2, ForwardedStays DEF Streams, IInv
<1>7. AsksSettled' BY <1>2, <1>4, AsksStay DEF Streams, IInv
<1>8. ShownOnce' BY <1>1, <1>2, <1>4, ShownStays DEF Streams, IInv
<1> QED BY <1>3, <1>5, <1>6, <1>7, <1>8 DEF Streams

LEMMA BridgeForwards ==
    ASSUME IInv, Streams, NEW m \in Inbound, toServer' = Append(toServer, m),
           stdinRead' \in Nat, stdinRead' >= stdinRead,
           m.from = "zed" =>
              m.type # "inlay" /\ \E k \in 1..stdinRead' : fromZed[k] = m,
           m.from = "bridge" =>
              \E j \in 1..mainRead' : toBridge[j].type = "ask" /\ toBridge[j].id = m.id,
           m.from \in Callers => m.type = "request" /\ m.id >= IdBase,
           \A i \in 1..Len(toServer) :
              ~(toServer[i].from = m.from /\ SameSort(toServer[i], m, "reply")),
           MainTakes({"prompt", "stringAsk"}),
           MainTakes({"ask"}) \/ (m.from = "bridge" /\ m.id = NextFromServer.id),
           UNCHANGED <<fromZed, zedSent, toBridge, srvSent, toZed, srvUp>>
    PROVE  Streams'
<1>1. toServer \in Seq(Inbound) /\ mainRead \in Nat /\ stdinRead \in Nat
  BY DEF IInv, TypeOK
<1>2. /\ Kept(fromZed, fromZed') /\ Kept(toBridge, toBridge') /\ Kept(toServer, toServer')
  BY <1>1, KeptSame, KeptAppend
<1>3. /\ mainRead' \in Nat /\ mainRead' >= mainRead
      /\ \A j \in 1..mainRead : j \in (1..mainRead)' /\ toBridge'[j] = toBridge[j]
  BY <1>2, MainTakesOne DEF IInv
<1>a. \A i \in 1..Len(toServer') :
         \/ i \in 1..Len(toServer) /\ toServer'[i] = toServer[i]
         \/ i = Len(toServer) + 1 /\ toServer'[i] = m
  BY <1>1, Grows
<1>b. Len(toServer) + 1 \in 1..Len(toServer') /\ toServer'[Len(toServer) + 1] = m
  BY <1>1, AppendToLog, LogLength
<1>4. ForwardedOnce'
  <2>1. \A k \in 1..stdinRead : k \in (1..stdinRead)' BY <1>1
  <2>2. \A i \in 1..Len(toServer') :
           /\ toServer'[i].from = "zed" =>
                 /\ toServer'[i].type # "inlay"
                 /\ \E k \in (1..stdinRead)' : fromZed'[k] = toServer'[i]
           /\ toServer'[i].from = "bridge" =>
                 \E j \in (1..mainRead)' : /\ toBridge'[j].type = "ask"
                                           /\ toBridge'[j].id = toServer'[i].id
           /\ toServer'[i].from \in Callers =>
                 toServer'[i].type = "request" /\ toServer'[i].id >= IdBase
    <3> SUFFICES ASSUME NEW i \in 1..Len(toServer') PROVE <2>2!(i) OBVIOUS
    <3>1. CASE i \in 1..Len(toServer) /\ toServer'[i] = toServer[i]
      BY <1>3, <2>1, <3>1 DEF Streams, ForwardedOnce
    <3>2. CASE toServer'[i] = m
      BY <3>2
    <3> QED BY <1>a, <3>1, <3>2
  <2>3. \A i, k \in 1..Len(toServer') :
           toServer'[i].from = toServer'[k].from
           /\ SameSort(toServer'[i], toServer'[k], "reply") => i = k
    BY <1>a DEF Streams, ForwardedOnce, SameSort
  <2> QED BY <2>2, <2>3 DEF ForwardedOnce, SameSort
<1>5. ZedOnce' BY <1>2, <1>3, ZedOnceStays DEF Streams, IInv
<1>6. ServerOnce' BY DEF Streams, ServerOnce
<1>7. AsksSettled'
  <2>1. CASE MainTakes({"ask"}) BY <1>2, <2>1, AsksStay DEF Streams, IInv
  <2>2. CASE m.from = "bridge" /\ m.id = NextFromServer.id
    <3>1. \A j \in 1..mainRead' : j \in 1..mainRead \/ toBridge[j] = NextFromServer
      BY <1>1 DEF MainTakes, NextFromServer
    <3> QED BY <1>2, <1>b, <2>2, <3>1 DEF Streams, AsksSettled, Kept
  <2> QED BY <2>1, <2>2
<1>8. ShownOnce' BY <1>2, ShownStays DEF Streams, IInv
<1> QED BY <1>4, <1>5, <1>6, <1>7, <1>8 DEF Streams

LEMMA BridgeShows ==
    ASSUME IInv, Streams, NEW m \in Outbound, toZed' = Append(toZed, m),
           stdinRead' \in Nat, stdinRead' >= stdinRead,
           \/ /\ m.type = "response" /\ m.re = 0
              /\ \E k \in 1..stdinRead' : /\ fromZed[k].type = "inlay"
                                          /\ fromZed[k].id = m.id
           \/ /\ m.type \notin {"ask", "malformed"}
              /\ \E j \in 1..mainRead' : toBridge[j] = m,
           \A i \in 1..Len(toZed) : ~SameSort(toZed[i], m, "response"),
           MainTakes({"ask"}), MainTakes({"prompt", "stringAsk"}) \/ NextFromServer = m,
           UNCHANGED <<fromZed, zedSent, toServer, toBridge, srvSent, srvUp>>
    PROVE  Streams'
<1>1. toZed \in Seq(Outbound) /\ mainRead \in Nat /\ stdinRead \in Nat
  BY DEF IInv, TypeOK
<1>2. /\ Kept(fromZed, fromZed') /\ Kept(toBridge, toBridge') /\ Kept(toServer, toServer')
  BY <1>1, KeptSame
<1>3. /\ mainRead' \in Nat /\ mainRead' >= mainRead
      /\ \A j \in 1..mainRead : j \in (1..mainRead)' /\ toBridge'[j] = toBridge[j]
  BY <1>2, MainTakesOne DEF IInv
<1>4. ZedOnce' BY <1>2, <1>3, ZedOnceStays DEF Streams, IInv
<1>5. ServerOnce' BY DEF Streams, ServerOnce
<1>6. ForwardedOnce' BY <1>2, <1>3, ForwardedStays DEF Streams, IInv
<1>7. AsksSettled' BY <1>2, AsksStay DEF Streams, IInv
<1>8. ShownOnce'
  <2>1. /\ \A i \in 1..Len(toZed) : i \in 1..Len(toZed') /\ toZed'[i] = toZed[i]
        /\ \A i \in 1..Len(toZed') : \/ i \in 1..Len(toZed) /\ toZed'[i] = toZed[i]
                                     \/ i = Len(toZed) + 1 /\ toZed'[i] = m
    BY <1>1, Grows
  <2>2. Len(toZed) + 1 \in 1..Len(toZed') /\ toZed'[Len(toZed) + 1] = m
    BY <1>1, AppendToLog, LogLength
  <2>3. \A k \in 1..stdinRead : k \in (1..stdinRead)' BY <1>1
  <2>4. \A i \in 1..Len(toZed') :
           \/ /\ toZed'[i].type = "response" /\ toZed'[i].re = 0
              /\ \E k \in (1..stdinRead)' : /\ fromZed'[k].type = "inlay"
                                            /\ fromZed'[k].id = toZed'[i].id
           \/ /\ toZed'[i].type \notin {"ask", "malformed"}
              /\ \E j \in (1..mainRead)' : toBridge'[j] = toZed'[i]
    <3> SUFFICES ASSUME NEW i \in 1..Len(toZed') PROVE <2>4!(i) OBVIOUS
    <3>1. CASE i \in 1..Len(toZed) /\ toZed'[i] = toZed[i]
      BY <1>3, <2>3, <3>1 DEF Streams, ShownOnce
    <3>2. CASE toZed'[i] = m
      BY <3>2
    <3> QED BY <2>1, <3>1, <3>2
  <2>5. \A i, k \in 1..Len(toZed') :
           SameSort(toZed'[i], toZed'[k], "response") => i = k
    BY <2>1 DEF Streams, ShownOnce, SameSort
  <2>6. ASSUME NEW j \in (1..mainRead)', toBridge'[j].type \in {"prompt", "stringAsk"}
        PROVE  \E i \in 1..Len(toZed') : toZed'[i] = toBridge'[j]
    <3>1. CASE j \in 1..mainRead
      BY <2>1, <2>6, <3>1 DEF Streams, ShownOnce
    <3>2. CASE j \notin 1..mainRead
      <4>1. j = mainRead + 1 BY <1>1, <3>2 DEF MainTakes
      <4>2. ~MainTakes({"prompt", "stringAsk"})
        BY <1>1, <2>6, <4>1 DEF MainTakes, NextFromServer
      <4>3. toBridge[j] = m BY <4>1, <4>2 DEF NextFromServer
      <4> QED BY <2>2, <4>3
    <3> QED BY <3>1, <3>2
  <2> QED BY <2>4, <2>5, <2>6 DEF ShownOnce, SameSort
<1> QED BY <1>4, <1>5, <1>6, <1>7, <1>8 DEF Streams

-----------------------------------------------------------------------------
(* The second invariant is kept by every step.                              *)

LEMMA ZedStreams == IInv /\ Streams /\ Zed => Streams'
<1> SUFFICES ASSUME IInv, Streams, Zed PROVE Streams' OBVIOUS
<1>0. /\ fromZed \in Seq(Inbound) /\ toZed \in Seq(Outbound)
      /\ zedSent \in Nat /\ srvUp \in BOOLEAN
  BY DEF IInv, TypeOK
<1>1. ASSUME NEW t \in {"request", "inlay", "notification"}, ZedSend(t) PROVE Streams'
  <2> DEFINE m == [from |-> "zed", type |-> t, id |-> zedSent + 1]
  <2>1. m \in Inbound BY <1>0 DEF Inbound
  <2>2. fromZed' = Append(fromZed, m) /\ zedSent' = zedSent + 1 BY <1>1 DEF ZedSend
  <2>3. \A k \in 1..Len(fromZed) : ~SameSort(fromZed[k], m, "reply")
    BY <1>0 DEF Streams, ZedOnce, SameSort
  <2>4. UNCHANGED <<stdinRead, toServer, toBridge, mainRead, srvSent, toZed, srvUp>>
    BY <1>1 DEF ZedSend, srvVars
  <2> QED BY <1>0, <2>1, <2>2, <2>3, <2>4, ZedWrites
<1>2. ASSUME NEW i \in 1..Len(toZed), ZedReply(i) PROVE Streams'
  <2> DEFINE m == [from |-> "zed", type |-> "reply", id |-> toZed[i].id]
  <2>0. toZed[i] \in Outbound BY <1>0, LogEntry
  <2>1. m \in Inbound BY <2>0 DEF Inbound, Outbound
  <2>2. fromZed' = Append(fromZed, m) /\ zedSent' = zedSent BY <1>2 DEF ZedReply
  <2>3. \A k \in 1..Len(fromZed) : ~SameSort(fromZed[k], m, "reply")
    BY <1>2 DEF ZedReply, SameSort
  <2>4. \E j \in 1..mainRead : /\ toBridge[j].type \in {"prompt", "stringAsk"}
                               /\ toBridge[j].id = toZed[i].id
    BY <1>2 DEF ZedReply, Streams, ShownOnce
  <2>5. UNCHANGED <<stdinRead, toServer, toBridge, mainRead, srvSent, toZed, srvUp>>
    BY <1>2 DEF ZedReply, srvVars
  <2> QED BY <1>0, <2>1, <2>2, <2>3, <2>4, <2>5, ZedWrites
<1>3. CASE ZedClose
  BY <1>3, StreamsStay DEF ZedClose, srvVars, MainTakes
<1> QED BY <1>1, <1>2, <1>3 DEF Zed

(* A request the stdin thread answers or forwards was not yet answered.     *)
LEMMA StdinStreams == IInv /\ Streams /\ Stdin => Streams'
<1> SUFFICES ASSUME IInv, Streams, Stdin PROVE Streams' OBVIOUS
<1> USE DEF zedVars, srvVars
<1>0. stdinRead \in Nat /\ mainRead \in Nat BY DEF IInv, TypeOK
<1>a. ASSUME StdinHasNext
      PROVE  /\ NextFromZed \in Inbound /\ stdinRead + 1 \in 1..Len(fromZed)
             /\ \A k \in 1..stdinRead : /\ k \in 1..Len(fromZed)
                                        /\ ~SameSort(fromZed[k], NextFromZed, "reply")
  <2>1. NextFromZed \in Inbound /\ stdinRead + 1 \in 1..Len(fromZed)
    BY <1>a, NextFromZedType DEF IInv
  <2>2. \A k \in 1..stdinRead : k \in 1..Len(fromZed) /\ k # stdinRead + 1
    BY <1>0, <2>1
  <2> QED BY <2>1, <2>2 DEF Streams, ZedOnce, NextFromZed
<1>1. CASE StdinIntercept
  <2> DEFINE m == [type |-> "response", id |-> NextFromZed.id, re |-> 0,
                   result |-> EmptyInlay]
  <2>1. /\ NextFromZed \in Inbound /\ stdinRead + 1 \in 1..Len(fromZed)
        /\ NextFromZed.type = "inlay" /\ NextFromZed.from = "zed"
        /\ NextFromZed.id <= MaxZed
    BY <1>1, <1>a DEF StdinIntercept, Intercepted, NextFromZed, IInv, ZedIds
  <2>2. m \in Outbound BY <2>1 DEF Inbound, Outbound, AllResults
  <2>3. toZed' = Append(toZed, m) /\ stdinRead' = stdinRead + 1
    BY <1>1 DEF StdinIntercept
  <2>4. \A i \in 1..Len(toZed) : ~SameSort(toZed[i], m, "response")
    <3> SUFFICES ASSUME NEW i \in 1..Len(toZed), toZed[i].type = "response",
                        toZed[i].id = NextFromZed.id
                 PROVE  FALSE
      BY DEF SameSort
    <3>1. CASE \E k \in 1..stdinRead : /\ fromZed[k].type = "inlay"
                                       /\ fromZed[k].id = toZed[i].id
      BY <1>1, <1>a, <2>1, <3>1 DEF SameSort, StdinIntercept
    <3>2. CASE \E j \in 1..mainRead : toBridge[j] = toZed[i]
      <4>1. PICK j \in 1..mainRead : toBridge[j] = toZed[i] BY <3>2
      <4>2. j \in 1..Len(toBridge) BY LogLength DEF IInv, TypeOK
      <4>3. PICK n \in 1..Len(toServer) :
               /\ toServer[n].type \in {"request", "inlay"}
               /\ toServer[n].id = NextFromZed.id
        BY <4>1, <4>2 DEF IInv, ResponseIds
      <4>4. toServer[n] \in Inbound BY LogEntry DEF IInv, TypeOK
      <4>5. toServer[n].from \notin Callers
        BY <2>1, <4>3, <4>4, RouterAssumption DEF Streams, ForwardedOnce, Inbound
      <4>6. toServer[n].from # "bridge" BY <4>3 DEF IInv, RequestIds
      <4>7. toServer[n].from = "zed" BY <4>4, <4>5, <4>6 DEF Inbound
      <4>8. PICK k \in 1..stdinRead : fromZed[k] = toServer[n]
        BY <4>7 DEF Streams, ForwardedOnce
      <4> QED BY <1>1, <1>a, <2>1, <4>3, <4>8 DEF SameSort, StdinIntercept
    <3> QED BY <3>1, <3>2 DEF Streams, ShownOnce
  <2>5. /\ UNCHANGED <<fromZed, zedSent, toServer, toBridge, mainRead, srvSent, srvUp>>
        /\ MainTakes({"ask"}) /\ MainTakes({"prompt", "stringAsk"})
    BY <1>1 DEF StdinIntercept, MainTakes
  <2>6. stdinRead + 1 \in Nat /\ stdinRead + 1 >= stdinRead
        /\ \E k \in 1..(stdinRead + 1) : fromZed[k].type = "inlay" /\ fromZed[k].id = m.id
    BY <1>0, <2>1 DEF NextFromZed
  <2> QED BY <2>2, <2>3, <2>4, <2>5, <2>6, BridgeShows
<1>2. CASE StdinForward
  <2> DEFINE m == NextFromZed
  <2>1. /\ m \in Inbound /\ stdinRead + 1 \in 1..Len(fromZed)
        /\ m.type # "inlay" /\ m.from = "zed"
    BY <1>2, <1>a DEF StdinForward, Intercepted, NextFromZed, IInv, ZedIds
  <2>2. toServer' = Append(toServer, m) /\ stdinRead' = stdinRead + 1
    BY <1>2 DEF StdinForward
  <2>3. \A i \in 1..Len(toServer) :
           ~(toServer[i].from = m.from /\ SameSort(toServer[i], m, "reply"))
    BY <1>2, <1>a, <2>1 DEF StdinForward, Streams, ForwardedOnce
  <2>4. /\ UNCHANGED <<fromZed, zedSent, toBridge, mainRead, srvSent, toZed, srvUp>>
        /\ MainTakes({"ask"}) /\ MainTakes({"prompt", "stringAsk"})
    BY <1>2 DEF StdinForward, MainTakes
  <2>5. stdinRead + 1 \in Nat /\ stdinRead + 1 >= stdinRead
        /\ \E k \in 1..(stdinRead + 1) : fromZed[k] = m
    BY <1>0, <2>1 DEF NextFromZed
  <2>6. m.from # "bridge" /\ m.from \notin Callers BY <2>1, RouterAssumption
  <2> QED BY <2>1, <2>2, <2>3, <2>4, <2>5, <2>6, BridgeForwards
<1>3. CASE StdinBroken \/ StdinEof
  BY <1>3, StreamsStay DEF StdinBroken, StdinEof, MainTakes
<1> QED BY <1>1, <1>2, <1>3 DEF Stdin

LEMMA CallerStreams ==
    ASSUME IInv, Streams, NEW c \in Callers, Http(c) PROVE Streams'
<1> USE DEF zedVars, srvVars
<1>1. CASE WriteRequest(c)
  <2> DEFINE m == [from |-> c, type |-> "request", id |-> callId[c]]
  <2>1. pc[c] = "write" /\ callId[c] \in Nat /\ stdinRead \in Nat
    BY <1>1 DEF WriteRequest, IInv, TypeOK
  <2>2. callId[c] >= IdBase BY <2>1, RouterAssumption DEF IInv, IdsApart, Live
  <2>3. m \in Inbound BY <2>1 DEF Inbound
  <2>4. toServer' = Append(toServer, m) BY <1>1 DEF WriteRequest
  <2>5. \A i \in 1..Len(toServer) : toServer[i].from # c
    BY <2>1 DEF IInv, RequestIds
  <2>6. /\ UNCHANGED <<fromZed, zedSent, stdinRead, toBridge, mainRead, srvSent, toZed,
                       srvUp>>
        /\ MainTakes({"ask"}) /\ MainTakes({"prompt", "stringAsk"})
    BY <1>1 DEF WriteRequest, MainTakes
  <2>7. c \notin {"zed", "bridge"} BY RouterAssumption
  <2> QED BY <2>1, <2>2, <2>3, <2>4, <2>5, <2>6, <2>7, BridgeForwards
<1>2. CASE UNCHANGED <<fromZed, zedSent, stdinRead, toServer, toBridge, mainRead,
                       srvSent, toZed, srvUp>>
  BY <1>2, StreamsStay DEF MainTakes
<1> QED
  BY <1>1, <1>2
  DEF Http, HttpReject, HttpAccept, InsertPending, WriteFails, Receive, Timeout,
      RemoveExpired

(* What main routes was not routed before.                                  *)
LEMMA MainStreams == IInv /\ Streams /\ Main => Streams'
<1> SUFFICES ASSUME IInv, Streams, Main PROVE Streams' OBVIOUS
<1> USE DEF zedVars, srvVars
<1> DEFINE m == NextFromServer
<1>0. /\ stdinRead \in Nat /\ mainRead \in Nat /\ toServer \in Seq(Inbound)
      /\ toZed \in Seq(Outbound) /\ srvUp \in BOOLEAN
  BY DEF IInv, TypeOK
<1>a. ASSUME MainHasNext
      PROVE  /\ m \in Outbound /\ mainRead + 1 \in 1..Len(toBridge)
             /\ m = toBridge[mainRead + 1]
             /\ \A j \in 1..mainRead : /\ j \in 1..Len(toBridge)
                                       /\ ~SameSort(toBridge[j], m, "response")
  <2>1. m \in Outbound /\ mainRead + 1 \in 1..Len(toBridge)
    BY <1>a, NextFromServerType DEF IInv
  <2>2. \A j \in 1..mainRead : j \in 1..Len(toBridge) /\ j # mainRead + 1
    BY <1>0, <2>1
  <2> QED BY <2>1, <2>2, SameMessage DEF Streams, NextFromServer
<1>1. CASE RouteMalformed
  BY <1>1, StreamsStay DEF RouteMalformed, MainTakes
<1>2. CASE RouteResolve
  <2>1. m.type = "response" BY <1>2, HitIsOwn DEF RouteResolve
  <2> QED BY <1>2, <2>1, StreamsStay DEF RouteResolve, MainTakes
<1>3. CASE RouteAck
  <2> DEFINE r == [from |-> "bridge", type |-> "reply", id |-> m.id]
  <2>1. m.type = "ask" /\ MainHasNext /\ mainRead' = mainRead + 1
    BY <1>3 DEF RouteAck, Acknowledged
  <2>2. r \in Inbound BY <1>a, <2>1 DEF Outbound, Inbound
  <2>3. UNCHANGED <<fromZed, zedSent, stdinRead, toBridge, srvSent, toZed, srvUp>>
    BY <1>3 DEF RouteAck
  <2>4. MainTakes({"prompt", "stringAsk"}) BY <2>1 DEF MainTakes
  <2>5. CASE toServer' = Append(toServer, r)
    <3>1. \A i \in 1..Len(toServer) :
             ~(toServer[i].from = "bridge" /\ SameSort(toServer[i], r, "reply"))
      BY <1>a, <2>1 DEF Streams, ForwardedOnce, SameSort
    <3>2. \E j \in 1..(mainRead + 1) : toBridge[j].type = "ask" /\ toBridge[j].id = m.id
      BY <1>0, <1>a, <2>1
    <3>3. "bridge" \notin Callers BY RouterAssumption
    <3> QED BY <1>0, <2>1, <2>2, <2>3, <2>4, <2>5, <3>1, <3>2, <3>3, BridgeForwards
  <2>6. CASE ~srvUp /\ toServer' = toServer
    <3>1. /\ Kept(fromZed, fromZed') /\ Kept(toBridge, toBridge')
          /\ mainRead' \in Nat /\ mainRead' >= mainRead
          /\ stdinRead' \in Nat /\ stdinRead' >= stdinRead
      BY <1>0, <2>1, <2>3, KeptSame
    <3>2. ZedOnce' BY <2>3, <3>1, ZedOnceStays DEF Streams, IInv
    <3>3. ServerOnce' BY <2>3 DEF Streams, ServerOnce
    <3>4. ForwardedOnce' BY <2>6, <3>1, ForwardedStays DEF Streams, IInv
    <3>5. AsksSettled' BY <2>3, <2>6 DEF AsksSettled
    <3>6. ShownOnce' BY <2>3, <2>4, <3>1, ShownStays DEF Streams, IInv
    <3> QED BY <3>2, <3>3, <3>4, <3>5, <3>6 DEF Streams
  <2> QED BY <1>3, <2>5, <2>6 DEF RouteAck
<1>4. CASE RouteForward
  <2>1. /\ MainHasNext /\ mainRead' = mainRead + 1 /\ toZed' = Append(toZed, m)
        /\ m.type \notin {"ask", "malformed"}
        /\ UNCHANGED <<fromZed, zedSent, stdinRead, toServer, toBridge, srvSent, srvUp>>
    BY <1>4 DEF RouteForward, Acknowledged
  <2>2. m \in Outbound BY <1>a, <2>1
  <2>3. MainTakes({"ask"}) BY <2>1 DEF MainTakes
  <2>4. \A i \in 1..Len(toZed) : ~SameSort(toZed[i], m, "response")
    <3> SUFFICES ASSUME NEW i \in 1..Len(toZed), SameSort(toZed[i], m, "response")
                 PROVE  FALSE
      OBVIOUS
    <3>1. CASE \E j \in 1..mainRead : toBridge[j] = toZed[i]
      BY <1>a, <2>1, <3>1
    <3>2. CASE /\ toZed[i].type = "response"
               /\ \E k \in 1..stdinRead : /\ fromZed[k].type = "inlay"
                                          /\ fromZed[k].id = toZed[i].id
      <4>1. PICK k \in 1..stdinRead : /\ fromZed[k].type = "inlay"
                                      /\ fromZed[k].id = m.id
        BY <3>2 DEF SameSort
      <4>2. k \in 1..Len(fromZed) BY LogLength DEF IInv, TypeOK
      <4>3. fromZed[k].id <= MaxZed /\ fromZed[k].from = "zed"
        BY <4>1, <4>2 DEF IInv, ZedIds
      <4>4. PICK n \in 1..Len(toServer) :
               /\ toServer[n].type \in {"request", "inlay"}
               /\ toServer[n].id = m.id
        BY <1>a, <2>1, <3>2 DEF IInv, ResponseIds, SameSort
      <4>5. toServer[n] \in Inbound BY <1>0, LogEntry
      <4>6. toServer[n].from \notin Callers
        BY <4>1, <4>3, <4>4, <4>5, RouterAssumption DEF Streams, ForwardedOnce, Inbound
      <4>7. toServer[n].from = "zed" BY <4>4, <4>5, <4>6 DEF Inbound, IInv, RequestIds
      <4>8. PICK l \in 1..stdinRead : fromZed[l] = toServer[n] /\ toServer[n].type # "inlay"
        BY <4>7 DEF Streams, ForwardedOnce
      <4>9. l \in 1..Len(fromZed) BY LogLength DEF IInv, TypeOK
      <4>10. k = l BY <4>1, <4>2, <4>4, <4>8, <4>9 DEF Streams, ZedOnce, SameSort
      <4> QED BY <4>1, <4>8, <4>10
    <3> QED BY <3>1, <3>2 DEF Streams, ShownOnce
  <2>5. \E j \in 1..(mainRead + 1) : toBridge[j] = m BY <1>0, <1>a, <2>1
  <2> QED BY <1>0, <2>1, <2>2, <2>3, <2>4, <2>5, BridgeShows
<1>5. CASE MainExit
  BY <1>5, StreamsStay DEF MainExit, MainTakes
<1> QED BY <1>1, <1>2, <1>3, <1>4, <1>5 DEF Main

LEMMA ServerStreams == IInv /\ Streams /\ Server => Streams'
<1> SUFFICES ASSUME IInv, Streams, Server PROVE Streams' OBVIOUS
<1> USE DEF zedVars, srvVars
<1>0. srvSent \in Nat /\ toServer \in Seq(Inbound) BY DEF IInv, TypeOK
<1>1. CASE SrvRead \/ SrvStop
  BY <1>1, StreamsStay DEF SrvRead, SrvStop, MainTakes
<1>2. ASSUME NEW i \in 1..Len(toServer), NEW r \in Results, SrvAnswer(i, r)
      PROVE  Streams'
  <2> DEFINE m == [type |-> "response", id |-> toServer[i].id, re |-> i, result |-> r]
  <2>1. toServer[i] \in Inbound /\ i \in Nat BY <1>0, LogEntry, LogLength
  <2>2. m \in Outbound BY <2>1 DEF Inbound, Outbound, AllResults
  <2>3. toBridge' = Append(toBridge, m) BY <1>2 DEF SrvAnswer
  <2>4. \A j \in 1..Len(toBridge) :
           ~(toBridge[j].type = "response" /\ toBridge[j].re = m.re)
    BY <1>2 DEF SrvAnswer, Answered
  <2>5. UNCHANGED <<fromZed, zedSent, stdinRead, toServer, mainRead, srvSent, toZed, srvUp>>
    BY <1>2 DEF SrvAnswer
  <2> QED BY <1>0, <2>2, <2>3, <2>4, <2>5, ServerWrites
<1>3. ASSUME NEW t \in ServerOwn, SrvSend(t) PROVE Streams'
  <2> DEFINE m == [type |-> t, id |-> srvSent + 1, re |-> 0, result |-> NoResult]
  <2>1. m \in Outbound BY <1>0 DEF Outbound, AllResults, ServerOwn
  <2>2. toBridge' = Append(toBridge, m) /\ srvSent' = srvSent + 1 BY <1>3 DEF SrvSend
  <2>3. m.type # "response" BY DEF ServerOwn
  <2>4. UNCHANGED <<fromZed, zedSent, stdinRead, toServer, mainRead, toZed, srvUp>>
    BY <1>3 DEF SrvSend
  <2> QED BY <1>0, <2>1, <2>2, <2>3, <2>4, ServerWrites
<1> QED BY <1>1, <1>2, <1>3 DEF Server

LEMMA InitStreams == Init => Streams
<1> SUFFICES ASSUME Init PROVE Streams OBVIOUS
<1>1. Len(<<>>) = 0 OBVIOUS
<1>2. /\ fromZed = <<>> /\ toServer = <<>> /\ toBridge = <<>> /\ toZed = <<>>
      /\ mainRead = 0 /\ stdinRead = 0
  BY Zenon DEF Init
<1>3. ZedOnce /\ ServerOnce BY <1>1, <1>2 DEF ZedOnce, ServerOnce
<1>4. ForwardedOnce /\ AsksSettled BY <1>1, <1>2 DEF ForwardedOnce, AsksSettled
<1>5. ShownOnce BY <1>1, <1>2 DEF ShownOnce
<1> QED BY <1>3, <1>4, <1>5 DEF Streams

LEMMA StepStreams == IInv /\ Streams /\ [Next]_vars => Streams'
<1>1. ASSUME IInv, Streams, UNCHANGED vars PROVE Streams'
  BY <1>1, StreamsStay DEF vars, zedVars, srvVars, MainTakes
<1> QED
  BY <1>1, ZedStreams, StdinStreams, CallerStreams, MainStreams, ServerStreams DEF Next

-----------------------------------------------------------------------------
(* How a call ends. First what any step does to one call and to what calls  *)
(* depend on.                                                               *)

SameCall(c) == pc'[c] = pc[c] /\ kind'[c] = kind[c] /\ outcome'[c] = outcome[c]

OpenedCall(c) == pc[c] = "idle" /\ pc'[c] = "register" /\ outcome'[c] = outcome[c]

MovedCall(c) == /\ pc[c] \in Live /\ pc'[c] \in Live
                /\ kind'[c] = kind[c] /\ outcome'[c] = outcome[c]

ClosedCall(c) ==
    /\ pc[c] # "done" /\ pc'[c] = "done" /\ kind'[c] = kind[c]
    /\ \/ pc[c] = "idle" /\ outcome'[c] = Reply("rejected", NoResult)
       \/ pc[c] = "write" /\ outcome'[c] = Reply("writeError", NoResult)
       \/ pc[c] \in Live /\ outcome'[c] = Reply("timeout", NoResult)
       \/ pc[c] \in Live /\ outcome'[c] = Reply("aborted", NoResult) /\ ~bridgeUp'
       \/ /\ pc[c] \in Live /\ mailbox[c] # NoMessage
          /\ outcome'[c] = Reply("answered", mailbox[c].result)

CallStep(c) == SameCall(c) \/ OpenedCall(c) \/ MovedCall(c) \/ ClosedCall(c)

LEMMA CallSteps ==
    ASSUME TypeOK, [Next]_vars, NEW c \in Callers PROVE CallStep(c)
<1>1. /\ pc \in [Callers -> {"idle", "register", "write", "wait", "expired", "done"}]
      /\ kind \in [Callers -> Kinds] /\ outcome \in [Callers -> Outcome]
  BY DEF TypeOK
<1> USE DEF CallStep
<1>2. ASSUME UNCHANGED <<pc, kind, outcome>> PROVE CallStep(c)
  BY <1>2 DEF SameCall
<1>3. ASSUME NEW d \in Callers, Http(d) PROVE CallStep(c)
  <2>1. CASE d # c
    <3>1. pc'[c] = pc[c] /\ kind'[c] = kind[c] /\ outcome'[c] = outcome[c]
      BY <1>1, <1>3, <2>1
      DEF Http, HttpReject, HttpAccept, InsertPending, WriteRequest, WriteFails,
          Receive, Timeout, RemoveExpired
    <3> QED BY <3>1 DEF SameCall
  <2>2. CASE d = c
    <3>1. CASE HttpReject(c) BY <1>1, <3>1 DEF HttpReject, ClosedCall
    <3>2. CASE \E k \in Kinds : HttpAccept(c, k)
      BY <1>1, <3>2 DEF HttpAccept, OpenedCall
    <3>3. CASE InsertPending(c) BY <1>1, <3>3 DEF InsertPending, MovedCall, Live
    <3>4. CASE WriteRequest(c) BY <1>1, <3>4 DEF WriteRequest, MovedCall, Live
    <3>5. CASE WriteFails(c) BY <1>1, <3>5 DEF WriteFails, ClosedCall
    <3>6. CASE Receive(c) BY <1>1, <3>6 DEF Receive, ClosedCall, Live
    <3>7. CASE Timeout(c) BY <1>1, <3>7 DEF Timeout, MovedCall, Live
    <3>8. CASE RemoveExpired(c) BY <1>1, <3>8 DEF RemoveExpired, ClosedCall, Live
    <3> QED
      BY <1>3, <2>2, <3>1, <3>2, <3>3, <3>4, <3>5, <3>6, <3>7, <3>8 DEF Http
  <2> QED BY <2>1, <2>2
<1>4. CASE MainExit
  <2>1. /\ ~bridgeUp' /\ kind' = kind
        /\ pc'[c] = IF pc[c] = "idle" THEN "idle" ELSE "done"
        /\ outcome'[c] = IF pc[c] \in {"idle", "done"} THEN outcome[c]
                         ELSE Reply("aborted", NoResult)
    BY <1>4 DEF MainExit
  <2>2. CASE pc[c] \in {"idle", "done"} BY <2>1, <2>2 DEF SameCall
  <2>3. CASE pc[c] \in Live BY <2>1, <2>3 DEF ClosedCall, Live
  <2> QED BY <1>1, <2>2, <2>3 DEF Live
<1>5. CASE Zed BY <1>2, <1>5 DEF Zed, ZedSend, ZedReply, ZedClose, callVars
<1>6. CASE Stdin
  BY <1>2, <1>6 DEF Stdin, StdinIntercept, StdinForward, StdinBroken, StdinEof, callVars
<1>7. CASE Server
  BY <1>2, <1>7 DEF Server, SrvRead, SrvAnswer, SrvSend, SrvStop, callVars
<1>8. CASE Main /\ ~MainExit
  BY <1>2, <1>8 DEF Main, RouteMalformed, RouteResolve, RouteAck, RouteForward, callVars
<1>9. CASE UNCHANGED vars BY <1>2, <1>9 DEF vars, callVars
<1> QED BY <1>3, <1>4, <1>5, <1>6, <1>7, <1>8, <1>9 DEF Next

(* What a step does to the streams, the channels and the port.              *)
LEMMA LogSteps ==
    ASSUME IInv, [Next]_vars
    PROVE  /\ Kept(toServer, toServer') /\ Kept(toBridge, toBridge')
           /\ mainRead' \in Nat /\ mainRead' >= mainRead
           /\ ~bridgeUp => ~bridgeUp'
           /\ \A i \in 1..Len(toServer') : toServer'[i].from \in Callers =>
                 \/ i \in 1..Len(toServer) /\ toServer'[i] = toServer[i]
                 \/ pc[toServer'[i].from] = "write" /\ pc'[toServer'[i].from] = "wait"
<1>0. /\ toServer \in Seq(Inbound) /\ toBridge \in Seq(Outbound) /\ mainRead \in Nat
      /\ pc \in [Callers -> {"idle", "register", "write", "wait", "expired", "done"}]
  BY DEF IInv, TypeOK
<1> USE DEF zedVars, srvVars, callVars
<1>1. ASSUME NEW m \in Inbound, toServer' = Append(toServer, m)
      PROVE  /\ Kept(toServer, toServer')
             /\ \A i \in 1..Len(toServer') :
                   \/ i \in 1..Len(toServer) /\ toServer'[i] = toServer[i]
                   \/ toServer'[i] = m
  BY <1>0, <1>1, Grows DEF Kept
<1>2. ASSUME NEW m \in Outbound, toBridge' = Append(toBridge, m)
      PROVE  Kept(toBridge, toBridge')
  BY <1>0, <1>2, KeptAppend
<1>3. CASE /\ UNCHANGED <<toServer, toBridge>>
           /\ mainRead' = mainRead \/ mainRead' = mainRead + 1
           /\ bridgeUp' = bridgeUp \/ ~bridgeUp'
  BY <1>0, <1>3, KeptSame
<1>4. CASE StdinForward
  <2>1. NextFromZed \in Inbound /\ NextFromZed.from = "zed"
    BY <1>4, NextFromZedType DEF StdinForward, NextFromZed, IInv, ZedIds
  <2>2. /\ toServer' = Append(toServer, NextFromZed)
        /\ UNCHANGED <<toBridge, mainRead, bridgeUp>>
    BY <1>4 DEF StdinForward
  <2> QED BY <1>0, <1>1, <2>1, <2>2, KeptSame, RouterAssumption
<1>5. ASSUME NEW c \in Callers, WriteRequest(c)
      PROVE  /\ Kept(toServer, toServer')
             /\ \A i \in 1..Len(toServer') :
                   \/ i \in 1..Len(toServer) /\ toServer'[i] = toServer[i]
                   \/ toServer'[i].from = c /\ pc[c] = "write" /\ pc'[c] = "wait"
             /\ UNCHANGED <<toBridge, mainRead, bridgeUp>>
  <2> DEFINE m == [from |-> c, type |-> "request", id |-> callId[c]]
  <2>1. m \in Inbound BY DEF Inbound, IInv, TypeOK
  <2>2. toServer' = Append(toServer, m) /\ UNCHANGED <<toBridge, mainRead, bridgeUp>>
    BY <1>5 DEF WriteRequest
  <2>3. pc[c] = "write" /\ pc'[c] = "wait" BY <1>0, <1>5 DEF WriteRequest
  <2> QED BY <1>1, <2>1, <2>2, <2>3
<1>6. CASE RouteAck
  <2> DEFINE m == [from |-> "bridge", type |-> "reply", id |-> NextFromServer.id]
  <2>1. NextFromServer \in Outbound BY <1>6, NextFromServerType DEF IInv, RouteAck
  <2>2. m \in Inbound BY <2>1 DEF Inbound, Outbound
  <2>3. /\ toServer' = Append(toServer, m) \/ toServer' = toServer
        /\ UNCHANGED <<toBridge, bridgeUp>> /\ mainRead' = mainRead + 1
    BY <1>6 DEF RouteAck
  <2>4. CASE toServer' = Append(toServer, m)
    BY <1>0, <1>1, <2>2, <2>3, <2>4, KeptSame, RouterAssumption
  <2> QED BY <1>3, <2>3, <2>4
<1>7. ASSUME NEW i \in 1..Len(toServer), NEW r \in Results, SrvAnswer(i, r)
      PROVE  Kept(toBridge, toBridge') /\ UNCHANGED <<toServer, mainRead, bridgeUp>>
  <2> DEFINE m == [type |-> "response", id |-> toServer[i].id, re |-> i, result |-> r]
  <2>1. toServer[i] \in Inbound /\ i \in Nat BY <1>0, LogEntry, LogLength
  <2>2. m \in Outbound BY <2>1 DEF Inbound, Outbound, AllResults
  <2> QED BY <1>2, <1>7, <2>2 DEF SrvAnswer
<1>8. ASSUME NEW t \in ServerOwn, SrvSend(t)
      PROVE  Kept(toBridge, toBridge') /\ UNCHANGED <<toServer, mainRead, bridgeUp>>
  <2> DEFINE m == [type |-> t, id |-> srvSent + 1, re |-> 0, result |-> NoResult]
  <2>1. m \in Outbound BY DEF Outbound, AllResults, ServerOwn, IInv, TypeOK
  <2> QED BY <1>2, <1>8, <2>1 DEF SrvSend
<1>9. CASE Zed BY <1>3, <1>9 DEF Zed, ZedSend, ZedReply, ZedClose
<1>10. CASE StdinIntercept \/ StdinBroken \/ StdinEof
  BY <1>3, <1>10 DEF StdinIntercept, StdinBroken, StdinEof
<1>11. ASSUME NEW c \in Callers, Http(c), ~WriteRequest(c)
       PROVE  UNCHANGED <<toServer, toBridge, mainRead, bridgeUp>>
  BY <1>11 DEF Http, HttpReject, HttpAccept, InsertPending, WriteFails, Receive, Timeout,
               RemoveExpired
<1>12. CASE Main /\ ~RouteAck
  BY <1>3, <1>12 DEF Main, RouteMalformed, RouteResolve, RouteForward, MainExit
<1>13. CASE SrvRead \/ SrvStop BY <1>3, <1>13 DEF SrvRead, SrvStop
<1>14. CASE UNCHANGED vars BY <1>3, <1>14 DEF vars
<1>15. CASE \E c \in Callers : Http(c)
  BY <1>0, <1>3, <1>5, <1>11, <1>15, KeptSame
<1>16. CASE Server BY <1>0, <1>7, <1>8, <1>13, <1>16, KeptSame DEF Server
<1> QED
  BY <1>4, <1>6, <1>9, <1>10, <1>12, <1>14, <1>15, <1>16 DEF Next, Stdin

(* Only an answer routed to its caller changes a channel or the port; then  *)
(* it is a response, and the port is there when the proxy's is told.        *)
LEMMA PortSteps ==
    ASSUME IInv, [Next]_vars
    PROVE  \/ realDapPort' = realDapPort /\ mailbox' = mailbox
           \/ \E c \in Callers :
                 /\ OwnResponse(c, mainRead)' /\ pc[c] \in {"wait", "expired"}
                 /\ \A d \in Callers \ {c} : mailbox'[d] = mailbox[d]
                 /\ mailbox'[c].result = ProxyPort /\ kind[c] = "startDebug"
                       => realDapPort' # NoResult
                 /\ \/ realDapPort' = realDapPort
                    \/ /\ kind[c] = "startDebug" /\ toBridge'[mainRead'].result \in Nat
                       /\ realDapPort' = toBridge'[mainRead'].result % 65536
                       /\ realDapPort' # NoResult
<1>1. CASE RouteResolve
  <2> DEFINE m == NextFromServer
  <2>1. MainHasNext BY <1>1 DEF RouteResolve
  <2>2. PICK e \in Hits(m) :
           /\ mainRead' = mainRead + 1
           /\ realDapPort' = Remembered(kind[e.caller], m.result)
           /\ mailbox' = [mailbox EXCEPT ![e.caller] = Delivered(kind[e.caller], m)]
    BY <1>1 DEF RouteResolve
  <2>3. PICK c \in Callers : /\ c = e.caller /\ m.type = "response"
                             /\ RequesterOf(m) = c /\ pc[c] \in {"wait", "expired"}
    BY <2>1, HitIsOwn
  <2>4. UNCHANGED <<toBridge, toServer>> BY <1>1 DEF RouteResolve, zedVars
  <2>5. mainRead \in Nat /\ mailbox \in [Callers -> Mailbox] BY DEF IInv, TypeOK
  <2>6. mailbox'[c] = Delivered(kind[c], m) /\ \A d \in Callers \ {c} : mailbox'[d] = mailbox[d]
    BY <2>2, <2>3, <2>5
  <2>7. OwnResponse(c, mainRead)'
    BY <2>2, <2>3, <2>4, <2>5 DEF OwnResponse, RequesterOf, NextFromServer
  <2>8. CASE Rewrites(kind[c], m.result)
    <3>1. m.result \in Nat /\ kind[c] = "startDebug" BY <2>8 DEF Rewrites
    <3>2. realDapPort' = m.result % 65536 /\ m.result % 65536 \in Nat
      BY <2>2, <2>3, <2>8, <3>1 DEF Remembered
    <3>3. realDapPort' # NoResult BY <3>2, RouterAssumption
    <3>4. m = toBridge'[mainRead'] BY <2>2, <2>4 DEF NextFromServer
    <3> QED BY <2>3, <2>6, <2>7, <3>1, <3>2, <3>3, <3>4
  <2>9. CASE ~Rewrites(kind[c], m.result)
    <3>1. realDapPort' = realDapPort BY <2>2, <2>3, <2>9 DEF Remembered
    <3>2. mailbox'[c] = m BY <2>6, <2>9 DEF Delivered
    <3>3. kind[c] # "startDebug" \/ m.result # ProxyPort
      BY <2>9, RouterAssumption DEF Rewrites
    <3> QED BY <2>3, <2>6, <2>7, <3>1, <3>2, <3>3
  <2> QED BY <2>8, <2>9
<1>2. CASE ~RouteResolve
  <2> SUFFICES realDapPort' = realDapPort /\ mailbox' = mailbox OBVIOUS
  <2> USE DEF callVars
  <2>1. CASE Zed BY <2>1 DEF Zed, ZedSend, ZedReply, ZedClose
  <2>2. CASE Stdin
    BY <2>2 DEF Stdin, StdinIntercept, StdinForward, StdinBroken, StdinEof
  <2>3. CASE Server
    BY <2>3 DEF Server, SrvRead, SrvAnswer, SrvSend, SrvStop
  <2>4. CASE \E c \in Callers : Http(c)
    BY <2>4 DEF Http, HttpReject, HttpAccept, InsertPending, WriteRequest, WriteFails,
                Receive, Timeout, RemoveExpired
  <2>5. CASE Main
    BY <1>2, <2>5 DEF Main, RouteMalformed, RouteAck, RouteForward, MainExit
  <2>6. CASE UNCHANGED vars BY <2>6 DEF vars
  <2> QED BY <2>1, <2>2, <2>3, <2>4, <2>5, <2>6 DEF Next
<1> QED BY <1>1, <1>2

LEMMA ShownSteps ==
    ASSUME IInv, [Next]_vars
    PROVE  \A i \in 1..Len(toZed') :
              \/ i \in 1..Len(toZed) /\ toZed'[i] = toZed[i]
              \/ toZed'[i].re = 0
              \/ RouteForward /\ toZed'[i] = NextFromServer
<1>0. toZed \in Seq(Outbound) BY DEF IInv, TypeOK
<1>1. ASSUME NEW m \in Outbound, toZed' = Append(toZed, m)
      PROVE  \A i \in 1..Len(toZed') : \/ i \in 1..Len(toZed) /\ toZed'[i] = toZed[i]
                                       \/ toZed'[i] = m
  BY <1>0, <1>1, Grows
<1>2. CASE StdinIntercept
  <2> DEFINE m == [type |-> "response", id |-> NextFromZed.id, re |-> 0,
                   result |-> EmptyInlay]
  <2>1. NextFromZed \in Inbound BY <1>2, NextFromZedType DEF IInv, StdinIntercept
  <2>2. m \in Outbound BY <2>1 DEF Inbound, Outbound, AllResults
  <2>3. toZed' = Append(toZed, m) /\ m.re = 0 BY <1>2 DEF StdinIntercept
  <2> QED BY <1>1, <2>2, <2>3
<1>3. CASE RouteForward
  <2>1. NextFromServer \in Outbound /\ toZed' = Append(toZed, NextFromServer)
    BY <1>3, NextFromServerType DEF IInv, RouteForward
  <2> QED BY <1>1, <1>3, <2>1
<1>4. CASE ~StdinIntercept /\ ~RouteForward
  <2> SUFFICES toZed' = toZed OBVIOUS
  <2>1. CASE Zed BY <2>1 DEF Zed, ZedSend, ZedReply, ZedClose
  <2>2. CASE Stdin BY <1>4, <2>2 DEF Stdin, StdinForward, StdinBroken, StdinEof
  <2>3. CASE Server BY <2>3 DEF Server, SrvRead, SrvAnswer, SrvSend, SrvStop
  <2>4. CASE \E c \in Callers : Http(c)
    BY <2>4 DEF Http, HttpReject, HttpAccept, InsertPending, WriteRequest, WriteFails,
                Receive, Timeout, RemoveExpired
  <2>5. CASE Main
    BY <1>4, <2>5 DEF Main, RouteMalformed, RouteResolve, RouteAck, MainExit
  <2>6. CASE UNCHANGED vars BY <2>6 DEF vars
  <2> QED BY <2>1, <2>2, <2>3, <2>4, <2>5, <2>6 DEF Next
<1> QED BY <1>2, <1>3, <1>4

(* A caller has one response at most, so one that is not routed to it can   *)
(* only be late.                                                            *)
LEMMA OneResponse ==
    ASSUME IInv, Streams, NEW c \in Callers,
           NEW j \in 1..Len(toBridge), NEW k \in 1..Len(toBridge),
           toBridge[j].type = "response", RequesterOf(toBridge[j]) = c,
           toBridge[k].type = "response", RequesterOf(toBridge[k]) = c
    PROVE  j = k
<1>1. /\ toBridge[j].re \in 1..Len(toServer) /\ toBridge[k].re \in 1..Len(toServer)
      /\ toServer[toBridge[j].re].type \in {"request", "inlay"}
      /\ toServer[toBridge[k].re].type \in {"request", "inlay"}
  BY DEF IInv, ResponseIds
<1>2. toServer[toBridge[j].re].id = callId[c] /\ toServer[toBridge[k].re].id = callId[c]
  BY <1>1 DEF IInv, RequestIds, RequesterOf
<1>3. toBridge[j].re = toBridge[k].re BY <1>1, <1>2, SameRequest DEF Streams
<1> QED BY <1>3 DEF Streams, ServerOnce

LEMMA StrayIsLate ==
    ASSUME IInv, Streams, CallsSettled, MainHasNext, Hits(NextFromServer) = {},
           NextFromServer.type = "response", NEW c \in Callers,
           RequesterOf(NextFromServer) = c
    PROVE  outcome[c].tag = "timeout"
<1> DEFINE m == NextFromServer
<1>1. /\ m \in Outbound /\ m = toBridge[mainRead + 1] /\ bridgeUp /\ mainRead \in Nat
      /\ mainRead + 1 \in 1..Len(toBridge)
  BY NextFromServerType DEF IInv, TypeOK, NextFromServer, MainHasNext
<1>2. m.re \in 1..Len(toServer) /\ toServer[m.re].from = c /\ m.id = toServer[m.re].id
  BY <1>1 DEF IInv, ResponseIds, RequesterOf
<1>3. m.id = callId[c] /\ pc[c] \in {"wait", "expired", "done"}
  BY <1>2 DEF IInv, RequestIds
<1>4. ~\E j \in 1..mainRead : OwnResponse(c, j)
  <2> SUFFICES ASSUME NEW j \in 1..mainRead, OwnResponse(c, j) PROVE FALSE OBVIOUS
  <2>1. j \in 1..Len(toBridge) /\ j # mainRead + 1 BY <1>1
  <2> QED BY <1>1, <2>1, OneResponse DEF OwnResponse
<1>5. mailbox[c] = NoMessage /\ outcome[c].tag # "answered"
  BY <1>4 DEF IInv, Truthful
<1>6. Entry(c) \notin pending
  BY <1>1, <1>3 DEF Hits, NumericId, Entry
<1>7. pc[c] = "done" BY <1>1, <1>3, <1>5, <1>6 DEF IInv, Registered
<1>8. outcome[c].tag \in Tags BY DEF IInv, TypeOK, Outcome
<1> QED BY <1>1, <1>2, <1>5, <1>7, <1>8 DEF CallsSettled, Tags

LEMMA CallsStay == JInv /\ [Next]_vars => CallsSettled'
<1> SUFFICES ASSUME JInv, [Next]_vars, NEW c \in Callers
             PROVE  /\ pc'[c] = "done" => outcome'[c].tag # "none"
                    /\ outcome'[c].tag \in {"rejected", "writeError"} =>
                          \A i \in 1..Len(toServer') : toServer'[i].from # c
                    /\ outcome'[c].tag = "aborted" => ~bridgeUp'
                    /\ mailbox'[c] # NoMessage /\ kind'[c] = "startDebug"
                       /\ mailbox'[c].result = ProxyPort => realDapPort' # NoResult
  BY DEF CallsSettled
<1>1. CallStep(c) BY CallSteps DEF JInv, IInv
<1>2. /\ \A i \in 1..Len(toServer') : toServer'[i].from = c =>
            \/ i \in 1..Len(toServer) /\ toServer'[i] = toServer[i]
            \/ pc[c] = "write" /\ pc'[c] = "wait"
      /\ ~bridgeUp => ~bridgeUp'
  BY LogSteps DEF JInv
<1>3. pc[c] # "done" => outcome[c].tag = "none" BY DEF JInv, IInv, Truthful
<1>4. pc[c] \in {"idle", "write"} => \A i \in 1..Len(toServer) : toServer[i].from # c
  BY DEF JInv, IInv, RequestIds
<1>5. pc'[c] = "done" => outcome'[c].tag # "none"
  BY <1>1, <1>3
  DEF CallStep, SameCall, OpenedCall, MovedCall, ClosedCall, Reply, Live, JInv, CallsSettled
<1>6. outcome'[c].tag \in {"rejected", "writeError"} =>
         \A i \in 1..Len(toServer') : toServer'[i].from # c
  <2> SUFFICES ASSUME outcome'[c].tag \in {"rejected", "writeError"}
               PROVE  \A i \in 1..Len(toServer') : toServer'[i].from # c
    OBVIOUS
  <2>1. \A i \in 1..Len(toServer) : toServer[i].from # c
    BY <1>1, <1>3, <1>4
    DEF CallStep, SameCall, OpenedCall, MovedCall, ClosedCall, Reply, JInv, CallsSettled
  <2>2. pc'[c] # "wait" \/ pc[c] # "write"
    BY <1>1, <1>3
    DEF CallStep, SameCall, OpenedCall, MovedCall, ClosedCall, Reply, Live
  <2> QED BY <1>2, <2>1, <2>2
<1>7. outcome'[c].tag = "aborted" => ~bridgeUp'
  BY <1>1, <1>2, <1>3
  DEF CallStep, SameCall, OpenedCall, MovedCall, ClosedCall, Reply, JInv, CallsSettled
<1>8. ASSUME mailbox'[c] # NoMessage, kind'[c] = "startDebug", mailbox'[c].result = ProxyPort
      PROVE  realDapPort' # NoResult
  <2>1. CASE mailbox'[c] = mailbox[c] /\ (realDapPort # NoResult => realDapPort' # NoResult)
    <3>1. pc[c] \in {"wait", "expired", "done"} BY <1>8, <2>1 DEF JInv, IInv, Truthful
    <3>2. kind'[c] = kind[c]
      BY <1>1, <3>1 DEF CallStep, SameCall, OpenedCall, MovedCall, ClosedCall
    <3> QED BY <1>8, <2>1, <3>2 DEF JInv, CallsSettled
  <2>2. ASSUME NEW d \in Callers, pc[d] \in {"wait", "expired"},
               \A a \in Callers \ {d} : mailbox'[a] = mailbox[a],
               mailbox'[d].result = ProxyPort /\ kind[d] = "startDebug"
                  => realDapPort' # NoResult,
               realDapPort' = realDapPort \/ realDapPort' # NoResult
        PROVE  realDapPort' # NoResult
    <3>1. CASE d # c BY <2>1, <2>2, <3>1
    <3>2. CASE d = c
      <4>1. kind'[c] = kind[c]
        BY <1>1, <2>2, <3>2 DEF CallStep, SameCall, OpenedCall, MovedCall, ClosedCall
      <4> QED BY <1>8, <2>2, <3>2, <4>1
    <3> QED BY <3>1, <3>2
  <2> QED BY <2>1, <2>2, PortSteps DEF JInv
<1> QED BY <1>5, <1>6, <1>7, <1>8

LEMMA StrayStays == JInv /\ [Next]_vars => StrayOnlyAfterTimeout'
<1> SUFFICES ASSUME JInv, [Next]_vars, NEW i \in 1..Len(toZed'),
                    toZed'[i].type = "response", toZed'[i].re # 0,
                    NEW c \in Callers, toServer'[toZed'[i].re].from = c
             PROVE  outcome'[c].tag = "timeout"
  BY DEF StrayOnlyAfterTimeout, RequesterOf
<1> DEFINE m == toZed'[i]
<1>1. CallStep(c) BY CallSteps DEF JInv, IInv
<1>2. Kept(toServer, toServer') BY LogSteps DEF JInv
<1>3. mainRead \in 0..Len(toBridge) /\ Len(toBridge) \in Nat
  BY LogLength DEF JInv, IInv, TypeOK
<1>4. ASSUME NEW j \in 1..Len(toBridge), toBridge[j] = m
      PROVE  RequesterOf(m) = c
  BY <1>2, <1>4 DEF JInv, IInv, ResponseIds, RequesterOf, Kept
<1>5. ASSUME outcome[c].tag = "timeout" PROVE outcome'[c].tag = "timeout"
  BY <1>1, <1>5
  DEF CallStep, SameCall, OpenedCall, MovedCall, ClosedCall, JInv, IInv, Truthful
<1>6. CASE i \in 1..Len(toZed) /\ toZed[i] = m
  <2>1. \E j \in 1..Len(toBridge) : toBridge[j] = m
    BY <1>3, <1>6 DEF JInv, Streams, ShownOnce
  <2>2. RequesterOf(m) = c BY <1>4, <2>1
  <2>3. outcome[c].tag = "timeout" BY <1>6, <2>2 DEF JInv, StrayOnlyAfterTimeout
  <2> QED BY <1>5, <2>3
<1>7. CASE RouteForward /\ m = NextFromServer
  <2>1. MainHasNext /\ Hits(m) = {} BY <1>7 DEF RouteForward
  <2>2. \E j \in 1..Len(toBridge) : toBridge[j] = m
    BY <1>7, <2>1, NextFromServerType DEF JInv, IInv, NextFromServer
  <2>3. RequesterOf(m) = c BY <1>4, <2>2
  <2>4. outcome[c].tag = "timeout" BY <1>7, <2>1, <2>3, StrayIsLate DEF JInv
  <2> QED BY <1>5, <2>4
<1> QED BY <1>6, <1>7, ShownSteps DEF JInv

LEMMA PortStays == JInv /\ [Next]_vars => PortBeforeAnswer'
<1> SUFFICES ASSUME JInv, [Next]_vars PROVE PortBeforeAnswer' OBVIOUS
<1>1. /\ Kept(toServer, toServer') /\ Kept(toBridge, toBridge')
      /\ mainRead' \in Nat /\ mainRead' >= mainRead
  BY LogSteps DEF JInv
<1>2. /\ mainRead \in Nat /\ pc \in [Callers -> {"idle", "register", "write", "wait",
                                                 "expired", "done"}]
  BY DEF JInv, IInv, TypeOK
<1>3. ASSUME NEW c \in Callers, pc[c] # "idle" PROVE kind'[c] = kind[c]
  <2>1. CallStep(c) BY CallSteps DEF JInv, IInv
  <2> QED BY <1>3, <2>1 DEF CallStep, SameCall, OpenedCall, MovedCall, ClosedCall
<1>4. realDapPort # NoResult => realDapPort' # NoResult
  BY PortSteps DEF JInv
<1>5. ASSUME realDapPort' # NoResult
      PROVE  \E j \in 1..mainRead' : \E c \in Callers :
                /\ OwnResponse(c, j)' /\ kind'[c] = "startDebug"
                /\ toBridge'[j].result \in Nat
                /\ realDapPort' = toBridge'[j].result % 65536
  <2>1. CASE realDapPort' = realDapPort
    <3>1. PICK j \in 1..mainRead, c \in Callers :
             /\ OwnResponse(c, j) /\ kind[c] = "startDebug"
             /\ toBridge[j].result \in Nat
             /\ realDapPort = toBridge[j].result % 65536
      BY <1>5, <2>1 DEF JInv, PortBeforeAnswer, OwnResponse
    <3>2. OwnResponse(c, j)' /\ j \in 1..mainRead' /\ toBridge'[j] = toBridge[j]
      BY <1>1, <3>1, OwnResponseStays DEF JInv, IInv
    <3>3. j \in 1..Len(toBridge) BY <1>2, LogLength DEF JInv, IInv, TypeOK
    <3>4. pc[c] # "idle"
      <4>1. toBridge[j].re \in 1..Len(toServer) /\ toServer[toBridge[j].re].from = c
        BY <3>1, <3>3 DEF OwnResponse, RequesterOf, JInv, IInv, ResponseIds
      <4>2. pc[c] \in {"wait", "expired", "done"} BY <4>1 DEF JInv, IInv, RequestIds
      <4> QED BY <4>2
    <3>5. kind'[c] = kind[c] BY <1>3, <3>4
    <3>6. toBridge'[j].result = toBridge[j].result BY <3>2
    <3> QED BY <2>1, <3>1, <3>2, <3>5, <3>6
  <2>2. CASE \E c \in Callers :
                /\ OwnResponse(c, mainRead)' /\ pc[c] \in {"wait", "expired"}
                /\ kind[c] = "startDebug" /\ toBridge'[mainRead'].result \in Nat
                /\ realDapPort' = toBridge'[mainRead'].result % 65536
    <3>1. PICK c \in Callers :
                /\ OwnResponse(c, mainRead)' /\ kind'[c] = "startDebug"
                /\ toBridge'[mainRead'].result \in Nat
                /\ realDapPort' = toBridge'[mainRead'].result % 65536
      BY <1>3, <2>2
    <3>2. mainRead' \in 1..mainRead' BY <3>1 DEF OwnResponse
    <3> QED BY <3>1, <3>2
  <2> QED BY <2>1, <2>2, PortSteps DEF JInv
<1>6. ASSUME NEW c \in Callers, outcome'[c].tag = "answered", kind'[c] = "startDebug",
             outcome'[c].result = ProxyPort
      PROVE  realDapPort' # NoResult
  <2>1. CallStep(c) BY CallSteps DEF JInv, IInv
  <2>2. pc[c] # "done" => outcome[c].tag = "none" BY DEF JInv, IInv, Truthful
  <2>3. \/ outcome'[c] = outcome[c] /\ kind'[c] = kind[c]
        \/ /\ mailbox[c] # NoMessage /\ kind'[c] = kind[c]
           /\ outcome'[c].result = mailbox[c].result
    BY <1>6, <2>1, <2>2
    DEF CallStep, SameCall, OpenedCall, MovedCall, ClosedCall, Reply
  <2>4. realDapPort # NoResult
    BY <1>6, <2>3 DEF JInv, PortBeforeAnswer, CallsSettled
  <2> QED BY <1>4, <2>4
<1> QED BY <1>5, <1>6 DEF PortBeforeAnswer, OwnResponse

LEMMA InitCalls == Init => CallsSettled /\ StrayOnlyAfterTimeout /\ PortBeforeAnswer
<1> SUFFICES ASSUME Init
             PROVE  CallsSettled /\ StrayOnlyAfterTimeout /\ PortBeforeAnswer
  OBVIOUS
<1>0. Len(<<>>) = 0 OBVIOUS
<1>1. /\ toServer = <<>> /\ toZed = <<>> /\ realDapPort = NoResult
      /\ pc = [c \in Callers |-> "idle"]
      /\ mailbox = [c \in Callers |-> NoMessage]
      /\ outcome = [c \in Callers |-> Reply("none", NoResult)]
  BY Zenon DEF Init
<1>2. CallsSettled BY <1>1 DEF CallsSettled, Reply
<1>3. StrayOnlyAfterTimeout BY <1>0, <1>1 DEF StrayOnlyAfterTimeout
<1>4. PortBeforeAnswer BY <1>1 DEF PortBeforeAnswer, Reply
<1> QED BY <1>2, <1>3, <1>4

LEMMA SettledInvariance == Spec => []JInv
<1>1. Init => JInv BY InitInv, InitStreams, InitCalls DEF JInv
<1>2. JInv /\ [Next]_vars => JInv'
  BY StepInv, StepStreams, CallsStay, StrayStays, PortStays DEF JInv
<1> QED BY <1>1, <1>2, PTL DEF Spec

(* The late answer of a call reaches Zed only when that call timed out:     *)
(* every other response to a call of the bridge's own goes to its caller,   *)
(* for any interleaving of the timer, the table and the routing             *)
(* (lsp.rs:40-47, 58-101).                                                  *)
THEOREM StraysAreLate == Spec => []StrayOnlyAfterTimeout
<1>1. JInv => StrayOnlyAfterTimeout BY DEF JInv
<1> QED BY <1>1, SettledInvariance, PTL

(* A caller told to connect to the proxy finds the port of its own server   *)
(* remembered, and the port is one that start_debug_server answered with,   *)
(* cut to sixteen bits (lsp.rs:64-74).                                      *)
THEOREM PortComesFirst == Spec => []PortBeforeAnswer
<1>1. JInv => PortBeforeAnswer BY DEF JInv
<1> QED BY <1>1, SettledInvariance, PTL

-----------------------------------------------------------------------------
(* Requests in either direction are settled once, by the right party.       *)

LEMMA ZedGetsOne == JInv => ZedAnsweredOnce
<1> SUFFICES ASSUME JInv PROVE ZedAnsweredOnce OBVIOUS
<1>1. ASSUME NEW i \in 1..Len(toZed), NEW k \in 1..Len(toZed),
             toZed[i].type = "response", toZed[k].type = "response",
             toZed[i].id = toZed[k].id
      PROVE  i = k
  BY <1>1 DEF JInv, Streams, ShownOnce, SameSort
<1>2. ASSUME NEW n \in 1..MaxZed, NEW i \in 1..Len(toZed),
             toZed[i].type = "response", toZed[i].id = n
      PROVE  \E k \in 1..stdinRead : /\ fromZed[k].id = n
                                     /\ fromZed[k].type \in {"request", "inlay"}
  <2>1. CASE \E k \in 1..stdinRead : /\ fromZed[k].type = "inlay"
                                     /\ fromZed[k].id = toZed[i].id
    BY <1>2, <2>1
  <2>2. CASE \E j \in 1..mainRead : toBridge[j] = toZed[i]
    <3>1. PICK j \in 1..mainRead : toBridge[j] = toZed[i] BY <2>2
    <3>2. j \in 1..Len(toBridge) BY LogLength DEF JInv, IInv, TypeOK
    <3> DEFINE q == toServer[toBridge[j].re]
    <3>3. /\ toBridge[j].re \in 1..Len(toServer)
          /\ q.type \in {"request", "inlay"} /\ q.id = n
      BY <1>2, <3>1, <3>2 DEF JInv, IInv, ResponseIds
    <3>4. q \in Inbound BY <3>3, LogEntry DEF JInv, IInv, TypeOK
    <3>5. q.from \notin Callers
      BY <3>3, RouterAssumption DEF JInv, Streams, ForwardedOnce
    <3>6. q.from = "zed" BY <3>3, <3>4, <3>5 DEF Inbound, JInv, IInv, RequestIds
    <3> QED BY <3>3, <3>6 DEF JInv, Streams, ForwardedOnce
  <2> QED BY <1>2, <2>1, <2>2 DEF JInv, Streams, ShownOnce
<1> QED BY <1>1, <1>2 DEF ZedAnsweredOnce

LEMMA AtMostOne ==
    ASSUME NEW S, \A x, y \in S : x = y
    PROVE  /\ S = {} \/ Cardinality(S) = 1
           /\ S = {} => Cardinality(S) = 0
<1>1. CASE S = {} BY <1>1, FS_EmptySet
<1>2. ASSUME NEW x \in S PROVE Cardinality(S) = 1
  <2>1. S = {x} OBVIOUS
  <2> QED BY <2>1, FS_Singleton
<1> QED BY <1>1, <1>2

LEMMA ServerGetsOne == JInv => AskSettledOnce
<1> SUFFICES ASSUME JInv, NEW j \in 1..mainRead
             PROVE  LET m == toBridge[j]
                        Shown   == {i \in 1..Len(toZed) : toZed[i] = m}
                        Replies == {i \in 1..Len(toServer) : /\ toServer[i].type = "reply"
                                                             /\ toServer[i].id = m.id}
                    IN  /\ m.type = "ask" =>
                              /\ Shown = {}
                              /\ \A i \in Replies : toServer[i].from = "bridge"
                              /\ Cardinality(Replies) = 1 \/ (Replies = {} /\ ~srvUp)
                        /\ m.type \in {"prompt", "stringAsk"} =>
                              /\ Cardinality(Shown) = 1
                              /\ \A i \in Replies : toServer[i].from = "zed"
                              /\ Cardinality(Replies) <= 1
  BY DEF AskSettledOnce
<1> DEFINE m == toBridge[j]
           Shown   == {i \in 1..Len(toZed) : toZed[i] = m}
           Replies == {i \in 1..Len(toServer) : /\ toServer[i].type = "reply"
                                                /\ toServer[i].id = m.id}
<1>1. 1..mainRead \subseteq 1..Len(toBridge) BY LogLength DEF JInv, IInv, TypeOK
<1>2. \A i, k \in Replies : i = k BY SameReply DEF JInv, Streams
<1>3. \A i, k \in Shown : i = k BY DEF JInv, Streams, ShownOnce, SameSort
<1>4. \A l \in 1..mainRead : m.type # "response" /\ toBridge[l].type # "response"
                              /\ toBridge[l].id = m.id => l = j
  BY <1>1 DEF JInv, Streams, ServerOnce
<1>5. \A i \in Replies :
         /\ toServer[i].from \in {"zed", "bridge"}
         /\ toServer[i].from = "zed" =>
               \E l \in 1..mainRead : /\ toBridge[l].type \in {"prompt", "stringAsk"}
                                      /\ toBridge[l].id = m.id
         /\ toServer[i].from = "bridge" =>
               \E l \in 1..mainRead : toBridge[l].type = "ask" /\ toBridge[l].id = m.id
  BY ReplySides DEF JInv, Streams
<1>6. ASSUME m.type = "ask"
      PROVE  /\ Shown = {} /\ \A i \in Replies : toServer[i].from = "bridge"
             /\ Cardinality(Replies) = 1 \/ (Replies = {} /\ ~srvUp)
  <2>1. Shown = {} BY <1>6 DEF JInv, Streams, ShownOnce
  <2>2. \A i \in Replies : toServer[i].from = "bridge" BY <1>4, <1>5, <1>6
  <2>3. ASSUME srvUp PROVE Replies # {}
    <3>1. PICK i \in 1..Len(toServer) : toServer[i].from = "bridge" /\ toServer[i].id = m.id
      BY <1>6, <2>3 DEF JInv, Streams, AsksSettled
    <3>2. toServer[i].type = "reply" BY <3>1 DEF JInv, IInv, RequestIds
    <3> QED BY <3>1, <3>2
  <2>4. Replies = {} \/ Cardinality(Replies) = 1 BY <1>2, AtMostOne
  <2> QED BY <2>1, <2>2, <2>3, <2>4
<1>7. ASSUME m.type \in {"prompt", "stringAsk"}
      PROVE  /\ Cardinality(Shown) = 1 /\ \A i \in Replies : toServer[i].from = "zed"
             /\ Cardinality(Replies) <= 1
  <2>1. Shown # {} BY <1>7 DEF JInv, Streams, ShownOnce
  <2>2. Cardinality(Shown) = 1 BY <1>3, <2>1, AtMostOne
  <2>3. \A i \in Replies : toServer[i].from = "zed" BY <1>4, <1>5, <1>7
  <2>4. Cardinality(Replies) = 0 \/ Cardinality(Replies) = 1 BY <1>2, AtMostOne
  <2> QED BY <2>2, <2>3, <2>4
<1> QED BY <1>6, <1>7

(* Zed gets one answer at most to each of its requests, and none it did not *)
(* ask for; each request of the server is settled by one side, an ordinary  *)
(* one by the bridge and a prompt by Zed, which is shown it exactly once    *)
(* (main.rs:39-41, 170-176, lsp.rs:78-95).                                  *)
THEOREM RequestsSettledOnce == Spec => []SettledOnce
<1>1. JInv => SettledOnce BY ZedGetsOne, ServerGetsOne DEF SettledOnce
<1> QED BY <1>1, SettledInvariance, PTL

-----------------------------------------------------------------------------
(* The router implements the contract of the control endpoint. What a call  *)
(* was given changes at one step only, the server's answer to its request.  *)

LEMMA ChooseOnly == ASSUME NEW j, NEW S, S = {j} PROVE (CHOOSE x \in S : TRUE) = j
  OBVIOUS

(* The responses to a caller, before and after a step.                      *)
LEMMA ResponsesKept ==
    ASSUME JInv, [Next]_vars, NEW c \in Callers, NEW j \in 1..Len(toBridge)
    PROVE  /\ j \in 1..Len(toBridge') /\ toBridge'[j] = toBridge[j]
           /\ j \in ResponsesTo(c)' <=> j \in ResponsesTo(c)
<1>1. Kept(toServer, toServer') /\ Kept(toBridge, toBridge') BY LogSteps DEF JInv
<1>2. j \in 1..Len(toBridge') /\ toBridge'[j] = toBridge[j] BY <1>1 DEF Kept
<1>3. ASSUME toBridge[j].type = "response"
      PROVE  toServer'[toBridge[j].re] = toServer[toBridge[j].re]
  BY <1>1, <1>3 DEF Kept, JInv, IInv, ResponseIds
<1> QED BY <1>2, <1>3 DEF ResponsesTo, RequesterOf

LEMMA GivenSame ==
    ASSUME JInv, [Next]_vars, NEW c \in Callers, ResponsesTo(c)' \subseteq 1..Len(toBridge)
    PROVE  givenTo'[c] = givenTo[c]
<1>1. ResponsesTo(c)' = ResponsesTo(c)
  BY ResponsesKept DEF ResponsesTo
<1>2. CASE ResponsesTo(c) = {} BY <1>1, <1>2 DEF givenTo
<1>3. CASE ResponsesTo(c) # {}
  <2> DEFINE j == CHOOSE x \in ResponsesTo(c) : TRUE
  <2>1. j \in ResponsesTo(c) BY <1>3
  <2>2. j = CHOOSE x \in ResponsesTo(c)' : TRUE BY <1>1
  <2>3. toBridge'[j] = toBridge[j] BY <2>1, ResponsesKept DEF ResponsesTo
  <2>4. givenTo[c] = toBridge[j].result BY <1>3 DEF givenTo
  <2>5. givenTo'[c] = toBridge'[j].result BY <1>1, <1>3, <2>2 DEF givenTo
  <2> QED BY <2>3, <2>4, <2>5
<1> QED BY <1>2, <1>3

LEMMA GivenIs ==
    ASSUME JInv, NEW c \in Callers, NEW j \in ResponsesTo(c)
    PROVE  givenTo[c] = toBridge[j].result /\ givenTo[c] # NoResult
<1>1. ResponsesTo(c) = {j} BY OneResponse DEF JInv, ResponsesTo
<1>2. givenTo[c] = toBridge[j].result BY <1>1, ChooseOnly DEF givenTo
<1>3. toBridge[j].result \in Results BY DEF JInv, Streams, ServerOnce, ResponsesTo
<1> QED BY <1>2, <1>3, RouterAssumption DEF Results

(* The server answers a call: the contract's Give.                          *)
LEMMA AnswerGives ==
    ASSUME JInv, NEW i \in 1..Len(toServer), NEW r \in Results, SrvAnswer(i, r)
    PROVE  [Contract!Next]_(Contract!vars)
<1> DEFINE m == [type |-> "response", id |-> toServer[i].id, re |-> i, result |-> r]
           n == Len(toBridge) + 1
<1>1. /\ toBridge' = Append(toBridge, m) /\ ~Answered(i)
      /\ toServer[i].type \in {"request", "inlay"}
      /\ UNCHANGED <<toServer, pc, kind, outcome>>
  BY DEF SrvAnswer, callVars
<1>2. toServer[i] \in Inbound /\ toBridge \in Seq(Outbound)
  BY LogEntry DEF JInv, IInv, TypeOK
<1>3. m \in Outbound BY <1>2, LogLength DEF JInv, IInv, TypeOK, Inbound, Outbound, AllResults
<1>4. /\ n \in 1..Len(toBridge') /\ toBridge'[n] = m
      /\ \A j \in 1..Len(toBridge') : j \in 1..Len(toBridge) \/ j = n
  BY <1>1, <1>2, <1>3, Grows, AppendToLog, LogLength
<1>5. [Next]_vars BY DEF Next, Server
<1>6. callOf' = callOf BY <1>1 DEF callOf
<1>7. ASSUME NEW c \in Callers, toServer[i].from # c PROVE givenTo'[c] = givenTo[c]
  <2>1. n \notin ResponsesTo(c)' BY <1>1, <1>4, <1>7 DEF ResponsesTo, RequesterOf
  <2>2. ResponsesTo(c)' \subseteq 1..Len(toBridge)
    BY <1>4, <2>1 DEF ResponsesTo
  <2> QED BY <1>5, <2>2, GivenSame
<1>8. CASE toServer[i].from \notin Callers
  <2>1. givenTo' = givenTo BY <1>7, <1>8 DEF givenTo
  <2> QED BY <1>1, <1>6, <2>1 DEF Contract!vars
<1>9. CASE toServer[i].from \in Callers
  <2>1. PICK c \in Callers : c = toServer[i].from BY <1>9
  <2>2. ResponsesTo(c) = {}
    <3> SUFFICES ASSUME NEW j \in ResponsesTo(c) PROVE FALSE OBVIOUS
    <3>1. /\ j \in 1..Len(toBridge) /\ toBridge[j].type = "response"
          /\ toBridge[j].re \in 1..Len(toServer)
          /\ toServer[toBridge[j].re].type \in {"request", "inlay"}
          /\ toServer[toBridge[j].re].from = c
      BY DEF ResponsesTo, RequesterOf, JInv, IInv, ResponseIds
    <3>2. toServer[toBridge[j].re].id = toServer[i].id
      BY <2>1, <3>1 DEF JInv, IInv, RequestIds
    <3>3. toBridge[j].re = i BY <1>1, <3>1, <3>2, SameRequest DEF JInv, Streams
    <3> QED BY <1>1, <3>1, <3>3 DEF Answered
  <2>3. ResponsesTo(c)' = {n}
    <3>1. n \in ResponsesTo(c)' BY <1>1, <1>4, <2>1 DEF ResponsesTo, RequesterOf
    <3>2. \A j \in 1..Len(toBridge) : j \notin ResponsesTo(c)'
      BY <1>5, <2>2, ResponsesKept
    <3> QED BY <1>4, <3>1, <3>2 DEF ResponsesTo
  <2>4. givenTo[c] = NoResult BY <2>2 DEF givenTo
  <2>5. givenTo'[c] = r
    <3>1. givenTo'[c] = toBridge'[CHOOSE j \in ResponsesTo(c)' : TRUE].result
      BY <2>3 DEF givenTo
    <3>2. (CHOOSE j \in ResponsesTo(c)' : TRUE) = n BY <2>3, ChooseOnly
    <3>3. givenTo'[c] = toBridge'[n].result BY <3>1, <3>2
    <3>4. toBridge'[n].result = r BY <1>4
    <3> QED BY <3>3, <3>4
  <2>6. \A d \in Callers \ {c} : givenTo'[d] = givenTo[d] BY <1>7, <2>1
  <2>7. givenTo' = [givenTo EXCEPT ![c] = r]
    <3>1. /\ givenTo = [d \in Callers |-> givenTo[d]]
          /\ givenTo' = [d \in Callers |-> givenTo'[d]]
      BY DEF givenTo
    <3> QED BY <2>5, <2>6, <3>1
  <2>8. pc[c] # "idle" BY <2>1 DEF JInv, IInv, RequestIds
  <2>9. callOf[c] # "new" BY <2>8 DEF callOf
  <2>10. Contract!Give(c, r) BY <1>1, <1>6, <2>4, <2>7, <2>9 DEF Contract!Give
  <2> QED BY <2>10 DEF Contract!Next, Results
<1> QED BY <1>8, <1>9

(* No other step gives a call anything.                                     *)
LEMMA GivenElsewhere ==
    ASSUME JInv, [Next]_vars,
           \A i \in 1..Len(toServer), r \in Results : ~SrvAnswer(i, r)
    PROVE  givenTo' = givenTo
<1> SUFFICES ASSUME NEW c \in Callers PROVE ResponsesTo(c)' \subseteq 1..Len(toBridge)
  <2>1. \A c \in Callers : givenTo'[c] = givenTo[c] BY GivenSame
  <2> QED BY <2>1 DEF givenTo
<1>1. CASE toBridge' = toBridge BY <1>1 DEF ResponsesTo
<1>2. ASSUME NEW t \in ServerOwn, SrvSend(t)
      PROVE  ResponsesTo(c)' \subseteq 1..Len(toBridge)
  <2> DEFINE m == [type |-> t, id |-> srvSent + 1, re |-> 0, result |-> NoResult]
  <2>1. m \in Outbound BY DEF Outbound, AllResults, ServerOwn, JInv, IInv, TypeOK
  <2>2. toBridge \in Seq(Outbound) BY DEF JInv, IInv, TypeOK
  <2>3. toBridge' = Append(toBridge, m) BY <1>2 DEF SrvSend
  <2>4. \A j \in 1..Len(toBridge') :
           j \in 1..Len(toBridge) \/ (j = Len(toBridge) + 1 /\ toBridge'[j] = m)
    BY <2>1, <2>2, <2>3, Grows
  <2>5. m.type # "response" BY DEF ServerOwn
  <2> QED BY <2>4, <2>5 DEF ResponsesTo
<1>3. CASE UNCHANGED vars BY <1>1, <1>3 DEF vars
<1>4. CASE Zed BY <1>1, <1>4 DEF Zed, ZedSend, ZedReply, ZedClose
<1>5. CASE Stdin
  BY <1>1, <1>5 DEF Stdin, StdinIntercept, StdinForward, StdinBroken, StdinEof
<1>6. CASE \E d \in Callers : Http(d)
  BY <1>1, <1>6 DEF Http, HttpReject, HttpAccept, InsertPending, WriteRequest, WriteFails,
                    Receive, Timeout, RemoveExpired
<1>7. CASE Main
  BY <1>1, <1>7 DEF Main, RouteMalformed, RouteResolve, RouteAck, RouteForward, MainExit
<1>8. CASE SrvRead \/ SrvStop BY <1>1, <1>8 DEF SrvRead, SrvStop
<1> QED BY <1>2, <1>3, <1>4, <1>5, <1>6, <1>7, <1>8 DEF Next, Server

(* The steps of a caller's own thread.                                      *)
LEMMA CallerImplements ==
    ASSUME JInv, NEW c \in Callers, Http(c)
    PROVE  [Contract!Next]_(Contract!vars)
<1>1. /\ pc \in [Callers -> {"idle", "register", "write", "wait", "expired", "done"}]
      /\ kind \in [Callers -> Kinds] /\ outcome \in [Callers -> Outcome]
  BY DEF JInv, IInv, TypeOK
<1>2. [Next]_vars BY DEF Next
<1>3. toBridge' = toBridge
  BY DEF Http, HttpReject, HttpAccept, InsertPending, WriteRequest, WriteFails, Receive,
         Timeout, RemoveExpired
<1>4. givenTo' = givenTo
  <2>1. toBridge' = toBridge BY <1>3
  <2>2. \A d \in Callers : ResponsesTo(d)' \subseteq 1..Len(toBridge)
    BY <2>1 DEF ResponsesTo
  <2>3. \A d \in Callers : givenTo'[d] = givenTo[d] BY <1>2, <2>2, GivenSame
  <2> QED BY <2>3 DEF givenTo
<1>5. ASSUME NEW s \in {"register", "write", "wait", "expired", "done"},
             pc' = [pc EXCEPT ![c] = s]
      PROVE  callOf' = [callOf EXCEPT ![c] = IF s = "done" THEN "closed" ELSE "open"]
  BY <1>1, <1>5 DEF callOf
<1>6. ASSUME pc[c] \in Live, NEW s \in Live, pc' = [pc EXCEPT ![c] = s],
             UNCHANGED <<kind, outcome>>
      PROVE  UNCHANGED Contract!vars
  <2>1. callOf' = callOf BY <1>1, <1>6 DEF callOf, Live
  <2> QED BY <1>4, <1>6, <2>1 DEF Contract!vars
<1>7. ASSUME NEW why \in Contract!Failures,
             pc[c] \in Live \/ (pc[c] = "idle" /\ why = "rejected"),
             why = "writeError" => givenTo[c] = NoResult,
             pc' = [pc EXCEPT ![c] = "done"],
             outcome' = [outcome EXCEPT ![c] = Reply(why, NoResult)], kind' = kind
      PROVE  Contract!Next
  <2>1. callOf[c] = "open" \/ (callOf[c] = "new" /\ why = "rejected")
    BY <1>7 DEF callOf, Live
  <2>2. callOf' = [callOf EXCEPT ![c] = "closed"] BY <1>5, <1>7
  <2>3. Contract!CloseFailed(c, why)
    BY <1>4, <1>7, <2>1, <2>2 DEF Contract!CloseFailed, Reply
  <2> QED BY <2>3 DEF Contract!Next
<1>8. CASE HttpReject(c) BY <1>7, <1>8 DEF HttpReject, Contract!Failures
<1>9. ASSUME NEW k \in Kinds, HttpAccept(c, k) PROVE Contract!Next
  <2>1. callOf[c] = "new" BY <1>9 DEF HttpAccept, callOf
  <2>2. callOf' = [callOf EXCEPT ![c] = "open"] BY <1>5, <1>9 DEF HttpAccept
  <2>3. Contract!Open(c, k) BY <1>4, <1>9, <2>1, <2>2 DEF HttpAccept, Contract!Open
  <2> QED BY <2>3 DEF Contract!Next, Kinds
<1>10. CASE InsertPending(c) BY <1>6, <1>10 DEF InsertPending, Live
<1>11. CASE WriteRequest(c) BY <1>6, <1>11 DEF WriteRequest, Live
<1>12. CASE WriteFails(c)
  <2>1. pc[c] = "write" BY <1>12 DEF WriteFails
  <2>2. ResponsesTo(c) = {}
    BY <2>1 DEF ResponsesTo, RequesterOf, JInv, IInv, RequestIds, ResponseIds
  <2>3. givenTo[c] = NoResult BY <2>2 DEF givenTo
  <2> QED BY <1>7, <1>12, <2>1, <2>3 DEF WriteFails, Live, Contract!Failures
<1>13. CASE Timeout(c) BY <1>6, <1>13 DEF Timeout, Live
<1>14. CASE RemoveExpired(c)
  BY <1>7, <1>14 DEF RemoveExpired, Live, Contract!Failures
<1>15. CASE Receive(c)
  <2>1. /\ pc[c] = "wait" /\ mailbox[c] # NoMessage /\ kind' = kind
        /\ pc' = [pc EXCEPT ![c] = "done"]
        /\ outcome' = [outcome EXCEPT ![c] = Reply("answered", mailbox[c].result)]
    BY <1>15 DEF Receive
  <2>2. PICK j \in 1..mainRead :
           OwnResponse(c, j) /\ mailbox[c] = Delivered(kind[c], toBridge[j])
    BY <2>1 DEF JInv, IInv, Truthful
  <2>3. j \in 1..Len(toBridge) BY LogLength DEF JInv, IInv, TypeOK
  <2>4. j \in ResponsesTo(c) BY <2>2, <2>3 DEF OwnResponse, ResponsesTo
  <2>5. givenTo[c] = toBridge[j].result /\ givenTo[c] # NoResult BY <2>4, GivenIs
  <2>6. toBridge[j] \in Outbound BY <2>3, LogEntry DEF JInv, IInv, TypeOK
  <2>7. mailbox[c].result = Contract!Told(kind[c], givenTo[c])
    BY <2>2, <2>5, <2>6 DEF Delivered, Rewrites, Contract!Told, Outbound
  <2>8. callOf[c] = "open" BY <2>1 DEF callOf
  <2>9. callOf' = [callOf EXCEPT ![c] = "closed"] BY <1>5, <2>1
  <2>10. Contract!CloseAnswered(c)
    BY <1>4, <2>1, <2>5, <2>7, <2>8, <2>9 DEF Contract!CloseAnswered, Reply
  <2> QED BY <2>10 DEF Contract!Next
<1> QED BY <1>8, <1>9, <1>10, <1>11, <1>12, <1>13, <1>14, <1>15 DEF Http

LEMMA StepImplements == JInv /\ [Next]_vars => [Contract!Next]_(Contract!vars)
<1> SUFFICES ASSUME JInv, [Next]_vars PROVE [Contract!Next]_(Contract!vars) OBVIOUS
<1>1. CASE \E c \in Callers : Http(c) BY <1>1, CallerImplements
<1>2. CASE \E i \in 1..Len(toServer), r \in Results : SrvAnswer(i, r)
  BY <1>2, AnswerGives
<1>3. CASE MainExit
  <2>1. /\ pc' = [c \in Callers |-> IF pc[c] = "idle" THEN "idle" ELSE "done"]
        /\ outcome' = [c \in Callers |-> IF pc[c] \in {"idle", "done"} THEN outcome[c]
                                         ELSE Reply("aborted", NoResult)]
        /\ UNCHANGED <<toServer, toBridge, kind>>
    BY <1>3, Zenon DEF MainExit
  <2>2. /\ pc \in [Callers -> {"idle", "register", "write", "wait", "expired", "done"}]
        /\ outcome \in [Callers -> Outcome]
    BY DEF JInv, IInv, TypeOK
  <2>3. callOf' = [c \in Callers |-> IF callOf[c] = "open" THEN "closed" ELSE callOf[c]]
    BY <2>1, <2>2 DEF callOf
  <2>4. outcome' = [c \in Callers |-> IF callOf[c] = "open"
                                      THEN [tag |-> "aborted", result |-> NoResult]
                                      ELSE outcome[c]]
    BY <2>1, <2>2 DEF callOf, Reply
  <2>5. givenTo' = givenTo BY <2>1 DEF givenTo, ResponsesTo, RequesterOf
  <2> QED BY <2>1, <2>3, <2>4, <2>5 DEF Contract!Next, Contract!Abort
<1>4. CASE /\ ~(\E c \in Callers : Http(c)) /\ ~MainExit
           /\ ~(\E i \in 1..Len(toServer), r \in Results : SrvAnswer(i, r))
  <2>1. givenTo' = givenTo BY <1>4, GivenElsewhere
  <2>2. UNCHANGED <<pc, kind, outcome>>
    <3> USE DEF callVars
    <3>1. CASE Zed BY <3>1 DEF Zed, ZedSend, ZedReply, ZedClose
    <3>2. CASE Stdin
      BY <3>2 DEF Stdin, StdinIntercept, StdinForward, StdinBroken, StdinEof
    <3>3. CASE Main
      BY <1>4, <3>3 DEF Main, RouteMalformed, RouteResolve, RouteAck, RouteForward
    <3>4. CASE Server BY <1>4, <3>4 DEF Server, SrvRead, SrvSend, SrvStop
    <3>5. CASE UNCHANGED vars BY <3>5 DEF vars
    <3> QED BY <1>4, <3>1, <3>2, <3>3, <3>4, <3>5 DEF Next
  <2>3. callOf' = callOf BY <2>2 DEF callOf
  <2> QED BY <2>1, <2>2, <2>3 DEF Contract!vars
<1> QED BY <1>1, <1>2, <1>3, <1>4

(* Seen by its HTTP callers the router is the contract: each call is closed *)
(* once, with what the server gave to it and no other, or with a failure,   *)
(* for any number of callers and any interleaving (lsp.rs:12-102,           *)
(* http.rs:71-90).                                                          *)
THEOREM RouterImplementsContract == Spec => ContractHolds
<1>1. Init => Contract!Init
  <2> SUFFICES ASSUME Init PROVE Contract!Init OBVIOUS
  <2>1. /\ toBridge = <<>> /\ pc = [c \in Callers |-> "idle"]
        /\ kind = [c \in Callers |-> "command"]
        /\ outcome = [c \in Callers |-> Reply("none", NoResult)]
    BY Zenon DEF Init
  <2>2. \A c \in Callers : ResponsesTo(c) = {} BY <2>1 DEF ResponsesTo
  <2>3. givenTo = [c \in Callers |-> NoResult] BY <2>2 DEF givenTo
  <2>4. callOf = [c \in Callers |-> "new"] BY <2>1 DEF callOf
  <2> QED BY <2>1, <2>3, <2>4 DEF Contract!Init, Reply
<1> QED BY <1>1, StepImplements, SettledInvariance, PTL DEF Spec, ContractHolds, Contract!Spec

-----------------------------------------------------------------------------
(* A consequence of the contract: a call is closed once. What its caller    *)
(* was told is neither told again nor changed, whatever answer, timeout or  *)
(* end of the bridge comes after it (lsp.rs:39-46, lsp.rs:60-79,            *)
(* main.rs:217-222).                                                        *)
ClosedForGood ==
    [][\A c \in Callers : pc[c] = "done" => pc'[c] = "done" /\ outcome'[c] = outcome[c]]_vars

LEMMA ClosedStays ==
    ASSUME NEW c \in Callers, outcome \in [Callers -> Outcome], callOf[c] = "closed",
           [Contract!Next]_(Contract!vars)
    PROVE  callOf'[c] = "closed" /\ outcome'[c] = outcome[c]
<1>1. callOf = [d \in Callers |-> callOf[d]] BY DEF callOf
<1>2. ASSUME NEW d \in Callers, NEW k, Contract!Open(d, k)
      PROVE  callOf'[c] = "closed" /\ outcome'[c] = outcome[c]
  <2>1. d # c BY <1>2 DEF Contract!Open
  <2> QED BY <1>1, <1>2, <2>1 DEF Contract!Open
<1>3. ASSUME NEW d \in Callers, NEW r, Contract!Give(d, r)
      PROVE  callOf'[c] = "closed" /\ outcome'[c] = outcome[c]
  BY <1>3 DEF Contract!Give
<1>4. ASSUME NEW d \in Callers, Contract!CloseAnswered(d)
      PROVE  callOf'[c] = "closed" /\ outcome'[c] = outcome[c]
  <2>1. d # c BY <1>4 DEF Contract!CloseAnswered
  <2> QED BY <1>1, <1>4, <2>1 DEF Contract!CloseAnswered
<1>5. ASSUME NEW d \in Callers, NEW why, Contract!CloseFailed(d, why)
      PROVE  callOf'[c] = "closed" /\ outcome'[c] = outcome[c]
  <2>1. d # c BY <1>5 DEF Contract!CloseFailed
  <2> QED BY <1>1, <1>5, <2>1 DEF Contract!CloseFailed
<1>6. CASE Contract!Abort BY <1>6 DEF Contract!Abort
<1>7. CASE UNCHANGED Contract!vars BY <1>7 DEF Contract!vars
<1> QED BY <1>2, <1>3, <1>4, <1>5, <1>6, <1>7 DEF Contract!Next

(* For any number of callers and any interleaving, a call that was closed   *)
(* stays closed with what it was told, as the contract has it.              *)
THEOREM CallsCloseOnce == Spec => ClosedForGood
<1> DEFINE Final == \A c \in Callers :
                       pc[c] = "done" => pc'[c] = "done" /\ outcome'[c] = outcome[c]
<1>1. JInv /\ [Next]_vars => [Final]_vars
  <2> SUFFICES ASSUME JInv, [Next]_vars, NEW c \in Callers, pc[c] = "done"
               PROVE  pc'[c] = "done" /\ outcome'[c] = outcome[c]
    OBVIOUS
  <2>1. [Contract!Next]_(Contract!vars) BY StepImplements
  <2>2. outcome \in [Callers -> Outcome] BY DEF JInv, IInv, TypeOK
  <2>3. callOf[c] = "closed" BY DEF callOf
  <2>4. callOf'[c] = "closed" /\ outcome'[c] = outcome[c] BY <2>1, <2>2, <2>3, ClosedStays
  <2>5. pc'[c] = "done"
    <3>1. callOf'[c] = CASE pc'[c] = "idle" -> "new" [] pc'[c] = "done" -> "closed"
                         [] OTHER -> "open"
      BY DEF callOf
    <3> QED BY <2>4, <3>1
  <2> QED BY <2>4, <2>5
<1> QED BY <1>1, SettledInvariance, PTL DEF Spec, ClosedForGood
=============================================================================
