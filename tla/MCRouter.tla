------------------------------- MODULE MCRouter -------------------------------
(* Small instances of Router for TLC.                                      *)
EXTENDS Router
=============================================================================
