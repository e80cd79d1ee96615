----------------------------- MODULE FrameReader -----------------------------
(***************************************************************************)
(* Content-Length framing (bridge/src/framing.rs) and the three loops that *)
(* use it: main.rs:157-214 on both stdio pipes and dap.rs:64-80 on the     *)
(* adapter's socket. A read returns any part of what the writer has sent   *)
(* so far; it is pushed, and next_frame is called until it returns none.   *)
(*                                                                         *)
(* The stream is a sequence of symbols: a header line that gives a length, *)
(* a header line that does not, a line end "\r\n", and a unit of a body.   *)
(* Lengths count symbols. Bodies may hold line ends, and header lines too. *)
(***************************************************************************)
EXTENDS Integers, Sequences

CONSTANTS
    Bodies,      \* what a message may say, in symbols
    MaxMessages  \* bound: messages in a stream

VARIABLES
    written,  \* messages the writer has sent: a sequence of [header, body]
    stream,   \* their symbols
    ends,     \* history: where in the stream each message ends, of those in
              \* front of the first header without a length
    fed,      \* symbols of the stream the loop has read
    buf,      \* FrameReader.buf
    loop,     \* "reading", or "draining" in the `while let`
    out       \* bodies next_frame has returned

writerVars == <<written, stream, ends>>
frameVars  == <<writerVars, fed, buf, loop, out>>

-----------------------------------------------------------------------------
(* The stream.                                                             *)

LengthLine(n) == <<"length", n>>
OtherLine     == <<"other", 0>>
LineEnd       == <<"crlf", 0>>
Unit          == <<"unit", 0>>
Symbols == {"length", "other", "crlf", "unit"} \X Nat

ASSUME FramingAssumption == Bodies \subseteq Seq(Symbols) /\ MaxMessages \in Nat

(* "bad" is a header without a readable length: no line of it is           *)
(* Content-Length in one of the two spellings, or it is not UTF-8.         *)
Headers == {"plain", "typeFirst", "typeLast", "bad"}
Written == [header: Headers, body: Bodies]

(* encode_frame writes the plain header; a peer may add other lines.       *)
HeaderLines(header, n) ==
    CASE header = "plain"     -> <<LengthLine(n)>>
      [] header = "typeFirst" -> <<OtherLine, LineEnd, LengthLine(n)>>
      [] header = "typeLast"  -> <<LengthLine(n), LineEnd, OtherLine>>
      [] header = "bad"       -> <<OtherLine>>

EncodeFrame(m) ==
    HeaderLines(m.header, Len(m.body)) \o <<LineEnd, LineEnd>> \o m.body

-----------------------------------------------------------------------------
(* next_frame.                                                             *)

IsTerminator(b, i) == i + 1 <= Len(b) /\ b[i] = LineEnd /\ b[i + 1] = LineEnd

(* find_subslice: the place of the first terminator.                       *)
FirstTerminator(b, i) ==
    IsTerminator(b, i) /\ \A j \in 1..(i - 1) : ~IsTerminator(b, j)

(* content_length: what the first line with a length says. Mutant: the     *)
(* length is expected in the first line.                                   *)
FirstLineIsLength(b, i, n) == i = 1 /\ b[i] = LengthLine(n)
GivesLength(b, i, n) == /\ b[i] = LengthLine(n)
                        /\ \A j \in 1..(i - 1) : b[j][1] # "length"

(* Mutant: a body that ends where the buffer ends is waited for.           *)
MoreThanBuffered(b, start, n) == Len(b) > start + n - 1
FullyBuffered(b, start, n)    == Len(b) >= start + n - 1

(* `header_end + 4`. Mutant: half of the terminator stays in the body.     *)
BodyStartEarly(end) == end + 1
BodyStart(end)      == end + 2

(* drain(..body_start + len).                                              *)
Drain(b, start, n) == SubSeq(b, start + n, Len(b))

(* The frame next_frame finds: the first symbol of its body, and its       *)
(* length.                                                                 *)
IsFrame(b, start, n) ==
    \E end \in 1..Len(b) :
        /\ FirstTerminator(b, end) /\ start = BodyStart(end)
        /\ \E i \in 1..(end - 1) : GivesLength(b, i, n)
        /\ FullyBuffered(b, start, n)
FoundFrames(b) == {f \in (1..(Len(b) + 1)) \X (0..Len(b)) : IsFrame(b, f[1], f[2])}

-----------------------------------------------------------------------------
FrameInit ==
    /\ written = <<>> /\ stream = <<>> /\ ends = <<>>
    /\ fed = 0 /\ buf = <<>> /\ loop = "reading" /\ out = <<>>

(* The writer sends a message (environment).                               *)
Write(m) ==
    /\ Len(written) < MaxMessages
    /\ written' = Append(written, m)
    /\ stream' = stream \o EncodeFrame(m)
    /\ ends' = IF Len(ends) = Len(written) /\ m.header # "bad"
               THEN Append(ends, Len(stream')) ELSE ends
    /\ UNCHANGED <<fed, buf, loop, out>>

Unread == Len(stream) - fed

(* read and push                                                           *)
Push(k) ==
    /\ loop = "reading" /\ k <= Unread
    /\ fed' = fed + k
    /\ buf' = buf \o SubSeq(stream, fed + 1, fed + k)
    /\ loop' = "draining"
    /\ UNCHANGED <<writerVars, out>>

NextFrame ==
    /\ loop = "draining"
    /\ \E f \in FoundFrames(buf) :
          /\ out' = Append(out, SubSeq(buf, f[1], f[1] + f[2] - 1))
          /\ buf' = Drain(buf, f[1], f[2])
    /\ UNCHANGED <<writerVars, fed, loop>>

NoFrame ==
    /\ loop = "draining" /\ FoundFrames(buf) = {}
    /\ loop' = "reading"
    /\ UNCHANGED <<writerVars, fed, buf, out>>

Reader == (\E k \in 1..Unread : Push(k)) \/ NextFrame \/ NoFrame

FrameNext == (\E m \in Written : Write(m)) \/ Reader

FrameSpec == FrameInit /\ [][FrameNext]_frameVars
(* The loop runs. Nothing is asked of the writer.                          *)
FairFrameSpec == FrameSpec /\ WF_frameVars(Reader)

-----------------------------------------------------------------------------
(* Type invariant.                                                         *)
FrameTypeOK ==
    /\ written \in Seq(Written) /\ stream \in Seq(Symbols) /\ ends \in Seq(Nat)
    /\ fed \in 0..Len(stream)
    /\ buf \in Seq(Symbols)
    /\ loop \in {"reading", "draining"}
    /\ out \in Seq(Bodies)

(* k messages end within the first n symbols of the stream, and no more.   *)
Arrived(k, n) == /\ k > 0 => ends[k] <= n
                 /\ k < Len(ends) => ends[k + 1] > n

(* Up to the first header it cannot read, the loop delivers what was sent: *)
(* no body is lost, repeated, cut or joined, and when the loop goes back   *)
(* to read, none that has arrived waits for bytes that are not its own     *)
(* (framing.rs:25-37, main.rs:202-211).                                    *)
Messages == INSTANCE FrameStream WITH
    bodies    <- [i \in 1..Len(ends) |-> written[i].body],
    arrived   <- CHOOSE k \in 0..Len(ends) : Arrived(k, fed),
    delivered <- out
IsAFrameStream == Messages!Spec
=============================================================================
