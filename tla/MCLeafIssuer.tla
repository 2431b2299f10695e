---------------------------- MODULE MCLeafIssuer -----------------------------
(****************************************************************************)
(* Two spellings of one host, two other hosts and a blank name.             *)
(****************************************************************************)
EXTENDS LeafIssuer

MCHost(name) == CASE name \in {"x", "X."} -> "x" [] name \in {"y", "z"} -> name [] OTHER -> ""
=============================================================================
