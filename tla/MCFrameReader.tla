---------------------------- MODULE MCFrameReader ----------------------------
(* FrameReader over every stream of a few messages and every way to cut it *)
(* into reads.                                                             *)
EXTENDS FrameReader

(* Empty, plain, and one that itself reads like a frame.                   *)
MCBodies == {<<>>, <<Unit>>, <<LengthLine(0), LineEnd, LineEnd>>}
=============================================================================
