------------------------------- MODULE MCTimer -------------------------------
(* Small instances of Timer for TLC. *)
EXTENDS Timer

\* Once an owner came too late, what follows is explored while the tree is empty.
Unraced == raced => members = {} /\ main = "up"
===============================================================================
