---------------------------- MODULE MCConnection ----------------------------
(***************************************************************************)
(* Connection for TLC: the cfg files give the bounds.                      *)
(***************************************************************************)
EXTENDS Connection
=============================================================================
