------------------------------- MODULE MCPduSess -------------------------------
(* Small instances of PduSess for TLC. *)
EXTENDS PduSess, TLC

\* Addresses, media ids, endpoints and PDU session ids are interchangeable.
Sym == Permutations(Objects) \cup Permutations(MediaIds) \cup Permutations(Pdus)
         \cup Permutations(GnbEnds)
===============================================================================
