---------------------------- MODULE MCSourceCache ----------------------------
(* SourceCache on small instances: two URIs of one entry, and one of the   *)
(* JDK's module image.                                                     *)
EXTENDS SourceCache

CONSTANTS b1, b2

MCTargets  == {"Lists", "String"}
MCUris     == {"jar:Lists", "file:Lists", "jrt:String"}
MCTargetOf == [u \in Uris |-> IF u = "jrt:String" THEN "String" ELSE "Lists"]
MCSchemeOf == [u \in Uris |-> CASE u = "jar:Lists"  -> "jar"
                                [] u = "file:Lists" -> "file"
                                [] OTHER            -> "jrt"]
=============================================================================
