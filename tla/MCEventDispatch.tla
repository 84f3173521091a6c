--------------------------- MODULE MCEventDispatch ---------------------------
(* Small instances of EventDispatch for TLC. *)
EXTENDS EventDispatch, TLC

\* Subscription nodes, and callbacks, are interchangeable.
SubscriberSym == Permutations(Nodes) \cup Permutations(Callbacks)
===============================================================================
