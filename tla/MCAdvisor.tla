----------------------------- MODULE MCAdvisor ------------------------------
(* Instances of Advisor for TLC.  With HashSize = 4 the home slot of a     *)
(* predicate column (r, a) is (r - a) % 4.                                 *)
EXTENDS Advisor

Pred(r, a) == [relid |-> r, attnum |-> a, usage_type |-> USAGE_PREDICATE]
Query(cols, cost) == [cols |-> cols, cost |-> cost]

Buy2 == [r \in 1 .. 2 |-> 2]

Names ==
  (<<1, 1>> :> "autoindex_t_a") @@ (<<1, 2>> :> "autoindex_t_b") @@
  (<<2, 2>> :> "autoindex_u_b")

\* A user's index whose name matches LIKE 'autoindex_%', where _ stands for any
\* character.
LookAlike == {[name |-> "autoindexes_pick", relid |-> 1, attnum |-> 3]}
LikeNames == Range(Names) \union {"autoindexes_pick"}

\* Two columns of one table, with home slots of their own.
TwoColumns == {Query(<<Pred(1, 1)>>, 1), Query(<<Pred(1, 2)>>, 1)}

\* The same, the first column referred to twice (as in a > 1 AND a < 5), next
\* to a column of a table of another database, 3.
WithForeign ==
  {Query(<<Pred(1, 1), Pred(1, 1)>>, 1), Query(<<Pred(1, 2)>>, 1), Query(<<Pred(3, 1)>>, 2)}

\* Two columns of one table and one of another; the first and the last share
\* their home slot.
ThreeColumns ==
  {Query(<<Pred(1, 1)>>, 4), Query(<<Pred(1, 2)>>, 3), Query(<<Pred(2, 2)>>, 2)}
=============================================================================
