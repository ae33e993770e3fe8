---------------------------- MODULE MCBorgSync ----------------------------
(***************************************************************************)
(* Two brains, one of which learns: its peer has nothing to push and goes  *)
(* straight to its pull.  Two mishaps let a request time out in a brain    *)
(* that then dies, or two requests of one cycle time out.  One updateConfig*)
(* leaves an interval behind or closes a filter, which a crash opens again.*)
(***************************************************************************)
EXTENDS BorgSync, TLC

CONSTANTS b1, b2, s1, i1

MCOwner == i1 :> b1
=============================================================================
