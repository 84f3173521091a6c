----------------------------- MODULE MCMediaGw -----------------------------
(* MediaGw with two PDU sessions, two workers and IPv6 configured on both sides. *)
EXTENDS MediaGw, TLC
CONSTANTS n3, n3upf, n3v6

Locals == [l \in Legs |-> CASE l = "gnb" -> n3 [] l = "upf" -> n3upf [] OTHER -> n3v6]
\* The exploration stops where a handler worked on a freed node.
Symmetric == Permutations(Sigs) \cup Permutations(Workers) \cup Permutations(GnbPeers)
Orderly == ~overtaken
=============================================================================
