----------------------------- MODULE MCLogQueue -----------------------------
(* Instances of LogQueue for TLC; all constants are given in the .cfg.      *)
EXTENDS LogQueue
=============================================================================
