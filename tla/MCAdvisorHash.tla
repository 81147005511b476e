--------------------------- MODULE MCAdvisorHash ----------------------------
(* An instance of AdvisorHash for TLC: with HashSize = 4 the first and the *)
(* last key share a home slot, and the second one's is the slot after it.  *)
(* Seven references are enough for two keys to fill the table with copies, *)
(* so that the third is refused.                                           *)
EXTENDS AdvisorHash

Pred(r, a) == [relid |-> r, attnum |-> a, usage_type |-> USAGE_PREDICATE]

CollidingKeys == {Pred(1, 1), Pred(2, 1), Pred(2, 2)}
=============================================================================
