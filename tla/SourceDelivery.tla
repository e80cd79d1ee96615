--------------------------- MODULE SourceDelivery ---------------------------
(***************************************************************************)
(* What the library sources promise to Zed (README.md:35-38, lsp.rs:104-   *)
(* 107): every message of the server reaches Zed unless its bridge is      *)
(* killed, and on the way each URI Zed cannot open is replaced by that of  *)
(* a file. A replaced URI is one of an archive on this machine, its file   *)
(* exists, and none of those is left as it is unless writing the file has  *)
(* failed. Refined by SourceCache.                                         *)
(***************************************************************************)
EXTENDS Naturals

CONSTANTS Bridges, Uris

VARIABLES
    archived,     \* URIs an archive of this machine has the source of
    files,        \* URIs there is a file for
    failed,       \* URIs whose file could not be written, once at least
    transit,      \* per bridge: {}, or the URIs of the message it works on
    told,         \* per bridge: URIs whose files Zed has been told of
    sent, lost    \* per bridge: messages that went to Zed, and died with it

disk == <<archived, files, failed>>
vars == <<disk, transit, told, sent, lost>>

Init ==
    /\ archived \subseteq Uris /\ files = {} /\ failed = {}
    /\ transit = [b \in Bridges |-> {}]
    /\ told = [b \in Bridges |-> {}]
    /\ sent = [b \in Bridges |-> 0] /\ lost = [b \in Bridges |-> 0]

(* Files come and stay.                                                    *)
Extract ==
    /\ files \subseteq files' /\ files' \subseteq archived
    /\ failed \subseteq failed' /\ failed' \subseteq archived
    /\ UNCHANGED archived

Receive(b) ==
    /\ transit[b] = {}
    /\ \E us \in SUBSET Uris : transit' = [transit EXCEPT ![b] = {us}]
    /\ UNCHANGED <<disk, told, sent, lost>>

Deliver(b) ==
    /\ \E us \in transit[b], given \in SUBSET (Uris \cap files) :
          /\ given \subseteq us
          /\ (us \cap archived) \ failed \subseteq given
          /\ told' = [told EXCEPT ![b] = @ \cup given]
    /\ transit' = [transit EXCEPT ![b] = {}]
    /\ sent' = [sent EXCEPT ![b] = @ + 1]
    /\ UNCHANGED <<disk, lost>>

(* The bridge is killed, maybe while it writes a file.                     *)
Lose(b) ==
    /\ transit[b] # {}
    /\ transit' = [transit EXCEPT ![b] = {}]
    /\ lost' = [lost EXCEPT ![b] = @ + 1]
    /\ Extract
    /\ UNCHANGED <<told, sent>>

Next == \/ Extract /\ UNCHANGED <<transit, told, sent, lost>>
        \/ \E b \in Bridges : Receive(b) \/ Deliver(b) \/ Lose(b)

SafeSpec == Init /\ [][Next]_vars
Spec     == SafeSpec /\ \A b \in Bridges : WF_vars(Deliver(b))
=============================================================================
