---------------------------- MODULE MCKillProcess ----------------------------
(* Small instances of KillProcess for TLC. *)
EXTENDS KillProcess, TLC
==============================================================================
