------------------------------ MODULE MCNgapSess ------------------------------
(* Small instances of NgapSess for TLC. *)
EXTENDS NgapSess
===============================================================================
