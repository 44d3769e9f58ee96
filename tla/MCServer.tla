------------------------------ MODULE MCServer ------------------------------
(***************************************************************************)
(* Server, and with it Persistence, for TLC: the cfg files give the bounds. *)
(***************************************************************************)
EXTENDS Server
=============================================================================
