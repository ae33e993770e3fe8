--------------------------- MODULE MCLLMService ---------------------------
(***************************************************************************)
(* An engine with a budget makes the same call three times; one without    *)
(* makes another, which drives their answer out of the cache.  A paid      *)
(* provider and a free one.                                                *)
(***************************************************************************)
EXTENDS LLMService, TLC

CONSTANTS c1, c2, c3, c4, e1, e2, k1, k2, local, cloud

MCCalls == {c1, c2, c3, c4}

MCEngine == [c \in MCCalls |-> IF c = c4 THEN e2 ELSE e1]

MCEstimate == [c \in MCCalls |-> 2]

MCKey == [c \in MCCalls |-> IF c = c4 THEN k2 ELSE k1]

MCRoute == [c \in MCCalls |-> IF c = c4 THEN <<local>> ELSE <<cloud, local>>]

MCLimit == [e \in {e1} |-> [hourly |-> 4, daily |-> 5]]

MCSpan == [hourly |-> 1, daily |-> 2]

MCSymmetry == Permutations({c1, c2, c3})

MCTokensPer == [hourly |-> 4, daily |-> 5]
===========================================================================
