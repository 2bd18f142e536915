------------------------------ MODULE MCCodex ------------------------------
(* Instances of Codex for TLC; the constants are in the .cfg.               *)
EXTENDS Codex
=============================================================================
