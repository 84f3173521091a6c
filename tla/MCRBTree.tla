------------------------------- MODULE MCRBTree -------------------------------
(* The tree on its own, under every sequence of insertions and deletions. *)
EXTENDS RBTree

\* Two nodes share a key and the keys go round the end of the key space.  A node
\* always has the same key: other assignments only rename the nodes.
Key(a) == (12 + (a \div 2)) % KEY_SPACE

TreeNext == \E a \in Node : DeleteNode(a) \/ InsertNode(a, Key(a))

TreeSpec == TreeInit /\ [][TreeNext]_<<tree, members>>
===============================================================================
