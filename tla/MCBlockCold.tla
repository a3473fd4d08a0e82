----------------------------- MODULE MCBlockCold -----------------------------
(* Small instances of BlockCold for TLC.                                   *)
EXTENDS BlockCold
=============================================================================
