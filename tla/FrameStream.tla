----------------------------- MODULE FrameStream -----------------------------
(***************************************************************************)
(* What a framed byte stream promises its reader, and what LspRouter and   *)
(* DapProxy take for granted when they model pipes message by message: the *)
(* bodies the writer sent are delivered one by one, in order, each once    *)
(* and whole, and the reader does not go back for more bytes before it has *)
(* delivered every body that has arrived. Refined by FrameReader.          *)
(***************************************************************************)
EXTENDS Naturals, Sequences

CONSTANT Bodies

VARIABLES
    bodies,     \* what the writer has sent
    arrived,    \* how many of them have arrived whole
    delivered

vars == <<bodies, arrived, delivered>>

Init == bodies = <<>> /\ arrived = 0 /\ delivered = <<>>

Send ==
    /\ \E b \in Bodies : bodies' = Append(bodies, b)
    /\ UNCHANGED <<arrived, delivered>>

Read ==
    /\ arrived = Len(delivered)
    /\ arrived' \in (arrived + 1)..Len(bodies)
    /\ UNCHANGED <<bodies, delivered>>

Deliver ==
    /\ Len(delivered) < arrived
    /\ delivered' = Append(delivered, bodies[Len(delivered) + 1])
    /\ UNCHANGED <<bodies, arrived>>

Next == Send \/ Read \/ Deliver

SafeSpec == Init /\ [][Next]_vars
Spec == SafeSpec /\ WF_vars(Read \/ Deliver)
=============================================================================
