----------------------------- MODULE MCIdentity ------------------------------
(****************************************************************************)
(* Two pods that use one address one after the other, the first of them     *)
(* with a second address, the second perhaps on its node's network instead.*)
(****************************************************************************)
EXTENDS Identity, TLC

CONSTANTS p1, p2

Net(ips, host) == [ips |-> ips, ip |-> CHOOSE a \in ips : a # "b", host |-> host]
OnNode == Net({"n"}, TRUE)
MCNetworks == p1 :> {Net({"a", "b"}, FALSE)} @@ p2 :> {Net({"a"}, FALSE), OnNode}
=============================================================================
