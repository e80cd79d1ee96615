--------------------------- MODULE ControlContract ---------------------------
(***************************************************************************)
(* What the control endpoint of the bridge promises to whoever makes a     *)
(* call, with no ids, table, threads or pipes: a call is made once, the    *)
(* server gives it a result or never does, and the call is closed once,    *)
(* with the result it was given or with a failure. Results may come in any *)
(* order, and after the call was closed.                                   *)
(***************************************************************************)
EXTENDS Integers

CONSTANTS Callers, Ports, Other, NoResult, ProxyPort

VARIABLES
    call,   \* per caller: "new", "open" or "closed"
    sort,   \* per caller: what it asks for
    given,  \* per caller: the result the server gave, or NoResult
    reply   \* per caller: what the call was closed with

vars == <<call, sort, given, reply>>

Failures == {"rejected", "writeError", "timeout", "aborted"}

(* What a caller is told of a result: for start_debug_server, the proxy.   *)
Told(k, r) == IF k = "startDebug" /\ r \in Nat THEN ProxyPort ELSE r

Init ==
    /\ call = [c \in Callers |-> "new"]
    /\ sort = [c \in Callers |-> "command"]
    /\ given = [c \in Callers |-> NoResult]
    /\ reply = [c \in Callers |-> [tag |-> "none", result |-> NoResult]]

Open(c, k) ==
    /\ call[c] = "new"
    /\ call' = [call EXCEPT ![c] = "open"]
    /\ sort' = [sort EXCEPT ![c] = k]
    /\ UNCHANGED <<given, reply>>

Give(c, r) ==
    /\ call[c] # "new" /\ given[c] = NoResult
    /\ given' = [given EXCEPT ![c] = r]
    /\ UNCHANGED <<call, sort, reply>>

CloseAnswered(c) ==
    /\ call[c] = "open" /\ given[c] # NoResult
    /\ call' = [call EXCEPT ![c] = "closed"]
    /\ reply' = [reply EXCEPT ![c] = [tag |-> "answered",
                                      result |-> Told(sort[c], given[c])]]
    /\ UNCHANGED <<sort, given>>

(* A request that could not be written was never given a result.           *)
CloseFailed(c, why) ==
    /\ call[c] = "open" \/ (call[c] = "new" /\ why = "rejected")
    /\ why = "writeError" => given[c] = NoResult
    /\ call' = [call EXCEPT ![c] = "closed"]
    /\ reply' = [reply EXCEPT ![c] = [tag |-> why, result |-> NoResult]]
    /\ UNCHANGED <<sort, given>>

(* The bridge goes away with every call still open.                        *)
Abort ==
    /\ call' = [c \in Callers |-> IF call[c] = "open" THEN "closed" ELSE call[c]]
    /\ reply' = [c \in Callers |-> IF call[c] = "open"
                                   THEN [tag |-> "aborted", result |-> NoResult]
                                   ELSE reply[c]]
    /\ UNCHANGED <<sort, given>>

Next ==
    \/ \E c \in Callers :
          \/ \E k \in {"startDebug", "command"} : Open(c, k)
          \/ \E r \in Ports \cup {Other} : Give(c, r)
          \/ CloseAnswered(c)
          \/ \E why \in Failures : CloseFailed(c, why)
    \/ Abort

Spec == Init /\ [][Next]_vars
=============================================================================
