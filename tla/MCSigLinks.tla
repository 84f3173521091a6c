----------------------------- MODULE MCSigLinks -----------------------------
(* SigLinks with one AMF link and one gNB link. *)
EXTENDS SigLinks, TLC
CONSTANTS a1, g1, l1

Table == [r \in Ids |->
    CASE r = 1 -> [idx |-> 0, work |-> "client", local |-> None, peer |-> a1]
      [] r = 2 -> [idx |-> 1, work |-> "server", local |-> l1, peer |-> g1]
      [] OTHER -> None]
Homes  == [g \in Gnbs |-> l1]
NewLinks == {[work |-> "server", local |-> l1, peer |-> g1],
             [work |-> "client", local |-> None, peer |-> a1]}
=============================================================================
