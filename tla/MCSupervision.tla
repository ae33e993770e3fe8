-------------------------- MODULE MCSupervision --------------------------
(***************************************************************************)
(* One run of `brain start`, one restartDaemon and one `brain stop`, with  *)
(* enough processes for two daemons at once and a successor.               *)
(***************************************************************************)
EXTENDS Supervision, TLC

CONSTANT s1
===========================================================================
