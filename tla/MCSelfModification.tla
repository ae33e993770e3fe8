------------------------ MODULE MCSelfModification ------------------------
(***************************************************************************)
(* Two modifications that share a file: the first patches a file with text *)
(* and an empty one, the second writes the latter, without any text.  The  *)
(* empty file is absent once a test of either is over.                     *)
(***************************************************************************)
EXTENDS SelfModification

CONSTANTS m1, m2, f1, f2

MCMods == {m1, m2}

MCFiles == {f1, f2}

MCAtFirst == [f \in MCFiles |-> IF f = f1 THEN Original ELSE Empty]

MCHollow == {<<m2, f2>>}

MCDiff == [m \in MCMods |-> IF m = m1 THEN <<f1, f2>> ELSE <<f2>>]
===========================================================================
