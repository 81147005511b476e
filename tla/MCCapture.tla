----------------------------- MODULE MCCapture ------------------------------
(* Instances of Capture for TLC: a range table with two tables, a subquery *)
(* and a system catalog, and plans of the shapes the planner leaves behind *)
(* (scan quals with varnos of the range table, special varnos above).      *)
(* The first columns of the two tables share their home slot in a hash     *)
(* table of 4 slots.                                                       *)
EXTENDS Capture

CONSTANTS p1, p2   \* server processes

TwoProcesses == {p1, p2}
ProcessSymmetry == Permutations(TwoProcesses)

T == 16385
U == 16389
pg_class == 1259

Rtable == <<[rtekind |-> "RELATION", relid |-> T], [rtekind |-> "RELATION", relid |-> U],
            [rtekind |-> "SUBQUERY", relid |-> 0], [rtekind |-> "RELATION", relid |-> pg_class]>>

Node(tag) == [tag |-> tag, total_cost |-> 1, scanrelid |-> 0, qual |-> <<>>, joinqual |-> <<>>,
              clauses |-> <<>>, sortColIdx |-> <<>>, targetlist |-> <<>>, indextlist |-> <<>>,
              lefttree |-> NullPlan, righttree |-> NullPlan, members |-> <<>>]

\* A scan of the n-th range table entry that tests attributes and returns two.
Scan(tag, n, attnos) ==
  [Node(tag) EXCEPT !.scanrelid = n, !.qual = [i \in DOMAIN attnos |-> Var(n, attnos[i])],
                    !.targetlist = <<Var(n, 1), Var(n, 2)>>]

Above(tag, left) ==
  [Node(tag) EXCEPT !.lefttree = left, !.targetlist = <<Var(OUTER_VAR, 1), Var(OUTER_VAR, 2)>>]

Join(tag, left, right) ==
  [Above(tag, left) EXCEPT !.righttree = right,
                           !.targetlist = <<Var(OUTER_VAR, 1), Var(INNER_VAR, 1)>>]

Stmt(plan) == [commandType |-> "SELECT", planTree |-> plan, rtable |-> Rtable,
               gathered |-> NullPlan]

\* WHERE a = 1
OneFilter == Stmt(Scan("SeqScan", 1, <<1>>))

\* WHERE a > 1 AND a < 5 on t, joined with the rows of u that pass a filter: one
\* reference more than an entry has room for.
TwoFilters ==
  Stmt([Join("HashJoin", Scan("SeqScan", 1, <<1, 1>>),
             Above("Hash", Scan("IndexScan", 2, <<1>>)))
          EXCEPT !.clauses = <<Var(OUTER_VAR, 2), Var(INNER_VAR, 2)>>])

\* A join with a condition of its own, sorted, over a foreign table.
SortedJoin ==
  Stmt([Above("Sort", [Join("NestLoop", Scan("SeqScan", 1, <<>>), Scan("ForeignScan", 2, <<1>>))
                         EXCEPT !.joinqual = <<Var(OUTER_VAR, 1), Var(INNER_VAR, 2)>>])
          EXCEPT !.sortColIdx = <<1, 2>>])

\* A parallel scan.
Parallel ==
  LET scan == Scan("SeqScan", 2, <<1>>)
  IN  [Stmt(Above("Gather", scan)) EXCEPT !.gathered = scan]

\* HAVING on a group key; an index-only scan with a filter on an index column.
Having ==
  Stmt([Above("Agg", [Scan("IndexOnlyScan", 1, <<>>) EXCEPT
                        !.qual = <<Var(INDEX_VAR, 1)>>, !.indextlist = <<Var(1, 1)>>])
          EXCEPT !.qual = <<Var(OUTER_VAR, 2)>>])

\* Filters in the members of an Append, and on top of a subquery.
Partitioned ==
  Stmt([Above("Append", NullPlan) EXCEPT
          !.members = <<Scan("SeqScan", 1, <<1>>),
                        [Scan("SubqueryScan", 3, <<2>>) EXCEPT
                           !.members = <<Scan("SeqScan", 2, <<>>)>>]>>])

Catalog == Stmt(Scan("SeqScan", 4, <<2>>))

Utility == [Stmt(NullPlan) EXCEPT !.commandType = "UTILITY"]

AllStatements ==
  {OneFilter, TwoFilters, SortedJoin, Parallel, Having, Partitioned, Catalog, Utility}
=============================================================================
