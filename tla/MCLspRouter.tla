----------------------------- MODULE MCLspRouter -----------------------------
(* LspRouter on small instances. The callers are interchangeable.          *)
EXTENDS LspRouter, TLC

CONSTANTS c1, c2

(* A result that does not fit the sixteen bits of a port.                  *)
MCPorts == {70000}
CallerSymmetry == Permutations(Callers)
=============================================================================
