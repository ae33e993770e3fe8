---------------------------- MODULE MCMissions ----------------------------
(***************************************************************************)
(* Two topics, each similar to itself only; a limit of one mission at a    *)
(* time and of one launch a day, a day being two ticks.  Two missions are  *)
(* enough for one that is cancelled, replaced and comes back.              *)
(***************************************************************************)
EXTENDS Missions, TLC

CONSTANTS t1, t2

MCWorking == <<"decomposing", "synthesizing">>

MCSimilar == {<<t1, t1>>, <<t2, t2>>}
===========================================================================
