-------------------------- MODULE MCGovernance --------------------------
(***************************************************************************)
(* A small instance of Governance.  Days are two ticks long, so a cooldown *)
(* of one tick can end today or tomorrow; the window of two reviews lets   *)
(* throttles fall out of it.                                               *)
(***************************************************************************)
EXTENDS Governance

MCManualCooldowns == {2}

MCMaxOfType ==
  [t \in ActionTypes |-> IF t \in {"throttle", "cooldown"} THEN 2 ELSE 1]
===========================================================================
