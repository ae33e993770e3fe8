-------------------------- MODULE MCTradingBrain --------------------------
(***************************************************************************)
(* Two actions, one feedback cycle and the operator; two symbols of which  *)
(* one may be held at a time.                                              *)
(***************************************************************************)
EXTENDS TradingBrain, TLC

CONSTANTS w1, s1, s2, execute_trade, create_goal

MCKinds == {<<execute_trade, TRUE>>, <<execute_trade, FALSE>>, <<create_goal, TRUE>>}

MCGains == {-1}
===========================================================================
