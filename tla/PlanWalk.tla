------------------------------ MODULE PlanWalk ------------------------------
(***************************************************************************)
(* What the ExecutorEnd hook reads out of a finished query's plan          *)
(* (extract_vars_from_expr and walk_plan_tree, workload_capture.c).        *)
(*                                                                         *)
(* A plan node is a record.  An expression is the sequence of Vars that    *)
(* pull_var_clause finds in it, a Var is [varno, varattno], and an item of *)
(* a target list is a Var or NotAVar.  members are the children a node     *)
(* keeps in fields of its own (Append, SubqueryScan), not in lefttree and  *)
(* righttree.                                                              *)
(***************************************************************************)
EXTENDS Integers, SequencesExt

CONSTANTS
  MaxCols,      \* AUTOINDEX_MAX_COLS
  MaxRels,      \* AUTOINDEX_MAX_RELS
  IndexRange    \* the number of values of the unsigned type Index

ASSUME WalkAssumption ==
  /\ MaxCols \in Nat \ {0}
  /\ MaxRels \in Nat \ {0}
  /\ IndexRange \in Nat

FirstNormalObjectId == 16384

\* The special varnos that the planner leaves in a finished plan.
INNER_VAR == -1
OUTER_VAR == -2
INDEX_VAR == -3

Var(varno, varattno) == [varno |-> varno, varattno |-> varattno]
NotAVar == Var(0, 0)

NullPlan == [tag |-> "NULL"]

ScanTags == {"SeqScan", "IndexScan", "IndexOnlyScan", "BitmapHeapScan", "TidScan",
             "TidRangeScan"}
JoinTags == {"HashJoin", "MergeJoin", "NestLoop"}
SortTags == {"Sort", "IncrementalSort"}

-----------------------------------------------------------------------------
(* Range table entries and Vars. *)

\* varno is an int and is read into an Index: the special ones become large.
AsIndex(varno) == varno % IndexRange

\* The varno stands for a table that is not a system catalog.
UserRelation(varno, rtable) ==
  LET i == AsIndex(varno)
  IN  /\ 0 < i /\ i <= Len(rtable)
      /\ rtable[i].rtekind = "RELATION"
      /\ rtable[i].relid >= FirstNormalObjectId

\* list_nth counts from 0: varno is not reduced by one, and the last entry of
\* the range table stands for the one after it.
MutantColumnOf(var, rtable) ==
  [relid |-> rtable[IF AsIndex(var.varno) < Len(rtable) THEN AsIndex(var.varno) + 1
                    ELSE Len(rtable)].relid,
   attnum |-> var.varattno]

ColumnOf(var, rtable) ==
  [relid |-> rtable[AsIndex(var.varno)].relid, attnum |-> var.varattno]

\* The room is tested with <= instead of <.
MutantExtract(vars, rtable, cols) ==
  FoldLeft(LAMBDA cs, v :
             IF UserRelation(v.varno, rtable) /\ Len(cs) <= MaxCols
             THEN Append(cs, ColumnOf(v, rtable)) ELSE cs,
           cols, vars)

\* extract_vars_from_expr: the columns found are appended while there is room.
extract_vars_from_expr(vars, rtable, cols) ==
  FoldLeft(LAMBDA cs, v :
             IF UserRelation(v.varno, rtable) /\ Len(cs) < MaxCols
             THEN Append(cs, ColumnOf(v, rtable)) ELSE cs,
           cols, vars)

-----------------------------------------------------------------------------
(* The walk. *)

\* The memset entry.
ZeroEntry == [pred |-> <<>>, sort |-> <<>>, join |-> <<>>, relids |-> <<>>]

\* The columns of a Sort: the items of the target list at sortColIdx.
SortColumns(plan, rtable, cols) ==
  FoldLeft(LAMBDA cs, attno :
             IF /\ Len(cs) < MaxCols
                /\ 0 < attno /\ attno <= Len(plan.targetlist)
                /\ UserRelation(plan.targetlist[attno].varno, rtable)
             THEN Append(cs, ColumnOf(plan.targetlist[attno], rtable)) ELSE cs,
           cols, plan.sortColIdx)

\* The first switch: which list the node adds to.
VisitColumns(plan, rtable, entry) ==
  CASE plan.tag \in JoinTags ->
         [entry EXCEPT !.join = extract_vars_from_expr(plan.joinqual, rtable, @)]
    [] plan.tag \in SortTags ->
         [entry EXCEPT !.sort = SortColumns(plan, rtable, @)]
    [] OTHER ->
         [entry EXCEPT !.pred = extract_vars_from_expr(plan.qual, rtable, @)]

\* The second switch: the table of a scan, once.
VisitRelation(plan, rtable, entry) ==
  IF /\ plan.tag \in ScanTags
     /\ UserRelation(plan.scanrelid, rtable)
     /\ Len(entry.relids) < MaxRels
     /\ \A j \in DOMAIN entry.relids : entry.relids[j] # rtable[plan.scanrelid].relid
  THEN [entry EXCEPT !.relids = Append(@, rtable[plan.scanrelid].relid)]
  ELSE entry

\* The node, then lefttree, then righttree.
RECURSIVE walk_plan_tree(_, _, _)
walk_plan_tree(plan, rtable, entry) ==
  IF plan = NullPlan THEN entry
  ELSE walk_plan_tree(plan.righttree, rtable,
         walk_plan_tree(plan.lefttree, rtable,
           VisitRelation(plan, rtable, VisitColumns(plan, rtable, entry))))

-----------------------------------------------------------------------------
(* What a plan means, independently of the walk. *)

\* A Var of a scan, by the numbering of the range table from 1.
TableColumn(var, rtable) == [relid |-> rtable[var.varno].relid, attnum |-> var.varattno]

\* The nodes that run in the query, each before its children.
RECURSIVE AllNodes(_)
AllNodes(plan) ==
  IF plan = NullPlan THEN <<>>
  ELSE <<plan>> \o AllNodes(plan.lefttree) \o AllNodes(plan.righttree)
         \o FlattenSeq([m \in DOMAIN plan.members |-> AllNodes(plan.members[m])])

\* Those that hang on lefttree and righttree.
RECURSIVE TreeNodes(_)
TreeNodes(plan) ==
  IF plan = NullPlan THEN <<>>
  ELSE <<plan>> \o TreeNodes(plan.lefttree) \o TreeNodes(plan.righttree)

\* The table columns that a Var of the node reads: a special varno reads an item
\* of the child's target list, or a column of the index that is scanned.
RECURSIVE Reads(_, _, _)
Reads(plan, var, rtable) ==
  LET Through(child) == Reads(child, child.targetlist[var.varattno], rtable)
  IN  CASE var.varno = INNER_VAR -> Through(plan.righttree)
        [] var.varno = OUTER_VAR /\ plan.lefttree # NullPlan -> Through(plan.lefttree)
        [] var.varno = OUTER_VAR /\ plan.lefttree = NullPlan ->
             UNION {Through(plan.members[m]) : m \in DOMAIN plan.members}
        [] var.varno = INDEX_VAR ->
             Reads(plan, plan.indextlist[var.varattno], rtable)
        [] var = NotAVar -> {}
        [] OTHER ->
             CASE rtable[var.varno].rtekind = "SUBQUERY" ->
                    UNION {Through(plan.members[m]) : m \in DOMAIN plan.members}
               [] rtable[var.varno].rtekind = "RELATION" -> {TableColumn(var, rtable)}

AllRead(plan, vars, rtable) ==
  {c \in UNION {Reads(plan, vars[n], rtable) : n \in DOMAIN vars} :
     c.relid >= FirstNormalObjectId}

\* The columns that the quals of the query test, below the joins.
TestedBy(plan, rtable) ==
  UNION {AllRead(p, p.qual, rtable) : p \in Range(AllNodes(plan))}

\* The columns that its joins compare, in the hash or merge clauses and in the
\* rest of the join condition.
JoinedBy(plan, rtable) ==
  UNION {AllRead(p, p.joinqual \o p.clauses, rtable) : p \in Range(AllNodes(plan))}

\* The columns that it sorts by.
SortedBy(plan, rtable) ==
  UNION {AllRead(p, [n \in DOMAIN p.sortColIdx |-> p.targetlist[p.sortColIdx[n]]], rtable) :
           p \in Range(AllNodes(plan))}

\* The references that the scans on lefttree and righttree make, in their quals,
\* to columns of the table they scan.
ScanFilters(plan, rtable) ==
  FlattenSeq([n \in DOMAIN TreeNodes(plan) |->
    LET p == TreeNodes(plan)[n]
        vars == SelectSeq(p.qual, LAMBDA v : p.scanrelid > 0 /\ v.varno = p.scanrelid
                                               /\ rtable[v.varno].rtekind = "RELATION")
    IN  SelectSeq([m \in DOMAIN vars |-> TableColumn(vars[m], rtable)],
                  LAMBDA c : c.relid >= FirstNormalObjectId)])
=============================================================================
