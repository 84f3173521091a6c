----------------------------- MODULE MCNgapProxy ------------------------------
(* Small instances of NgapProxy for TLC. *)
EXTENDS NgapProxy, TLC

\* gNBs and UEs are interchangeable.
Sym == Permutations(Gnbs) \cup Permutations(Ues) \cup Permutations(Ids)

\* Nothing follows once a number is doubtful.
Certain == doubtful = {}
===============================================================================
