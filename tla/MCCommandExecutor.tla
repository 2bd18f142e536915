------------------------- MODULE MCCommandExecutor -------------------------
(* Instances of CommandExecutor for TLC; the constants are in the .cfg.     *)
EXTENDS CommandExecutor
=============================================================================
