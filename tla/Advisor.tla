------------------------------ MODULE Advisor -------------------------------
(***************************************************************************)
(* The advisor pass (autoindex_run_advisor, index_advisor.c) and the       *)
(* lifecycle pass (autoindex_run_lifecycle, index_lifecycle.c), each in    *)
(* its transaction (AutoIndexMain, autoindex.c), against the catalog, the  *)
(* statistics and the other sessions of the server.                        *)
(*                                                                         *)
(* SPI queries that are read-only see the snapshot pushed when the pass    *)
(* began; CREATE INDEX and the name lookups see the current catalog.  The  *)
(* ring buffer is the sequence of captured queries not yet drained (the    *)
(* module WorkloadRing has its details).                                   *)
(***************************************************************************)
EXTENDS AdvisorTable, SequencesExt, FiniteSetsExt

CONSTANTS
  Tables,        \* relids of the tables of the worker's database
  Foreign,       \* relids of tables of other databases
  Queries,       \* captured queries: [cols |-> sequence of keys, cost |-> plan cost]
  BuyCost,       \* C_buy of each table
  FloorCost,     \* the floor of C_buy, also the estimate for an unknown table
  IndexName,     \* name of the auto-index on <<relid, attnum>>
  UserIndexes,   \* indexes that users have created
  AutoLike,      \* the index names that match LIKE 'autoindex_%'
  MinExec,       \* autoindex.min_exec_freq
  MaxPerTable,   \* autoindex.max_indexes_per_table
  Events,        \* what else happens: subset of {"drop", "error", "exit", "crash", "use"}
  MaxQueries     \* bound on the number of captured queries

Columns == {<<k.relid, k.attnum>> : k \in UNION {Range(q.cols) : q \in Queries}}

ASSUME AdvisorAssumption ==
  /\ \A r \in Tables : BuyCost[r] >= FloorCost
  /\ MinExec \in Nat \ {0} /\ MaxPerTable \in Nat \ {0}
  /\ Tables \intersect Foreign = {}
  /\ IsFiniteSet(UserIndexes)

VARIABLES
  ring,      \* captured queries, oldest first, each with its age
  tbl,       \* advisor_hash
  wpc,       \* the worker: "wait", "create" (in the creation loop), "drop"
  cands,     \* the candidates still to be handled
  snap,      \* the indexes in the snapshot of the pass
  mine,      \* indexes created by the transaction of the pass
  victims,   \* rows of the lifecycle query
  catalog,   \* committed indexes
  live,      \* tables of the worker's database that exist
  scanned,   \* names of the indexes with idx_scan > 0
  late,      \* history: the ones first scanned after the lifecycle query
  ran,       \* history: how often each query was captured
  bought,    \* history: committed purchases per column
  due        \* history: columns the current or last pass had to index

passVars == <<wpc, cands, snap, mine, victims, due>>
stats == <<scanned, late>>
vars == <<ring, tbl, passVars, catalog, live, stats, ran, bought>>

Init ==
  /\ ring = <<>>
  /\ tbl = EmptyTable
  /\ wpc = "wait" /\ cands = <<>> /\ snap = {} /\ mine = {} /\ victims = {}
  /\ catalog = UserIndexes
  /\ live = Tables
  /\ scanned = {} /\ late = {}
  /\ ran = [q \in Queries |-> 0]
  /\ bought = [c \in Columns |-> 0]
  /\ due = {}

-----------------------------------------------------------------------------
(* The advisor pass. *)

Drained(T, entries) ==
  FoldLeft(LAMBDA U, e : FoldLeft(LAMBDA V, k : Credit(V, k, e.cost, e.age), U, e.cols),
           T, entries)

estimate_index_build_cost(r) == IF r \in live THEN BuyCost[r] ELSE FloorCost

\* C_buy without what the planner estimates for the table.
MutantTriggers(e) ==
  /\ e.key.usage_type \in {USAGE_PREDICATE, USAGE_JOIN}
  /\ e.key.attnum > 0
  /\ e.exec_count >= MinExec
  /\ e.cumulative_rent >= FloorCost

\* The ski-rental trigger for an entry of the table.
Triggers(e) ==
  /\ e.key.usage_type \in {USAGE_PREDICATE, USAGE_JOIN}
  /\ e.key.attnum > 0
  /\ e.exec_count >= MinExec
  /\ e.cumulative_rent >= estimate_index_build_cost(e.key.relid)

\* The evaluation loop: the entries that trigger, in the order of their slots.
Candidates(T) ==
  SelectSeq([n \in 1 .. HashSize |-> T[n - 1]], LAMBDA e : e.key # NoKey /\ Triggers(e))

\* The exchange sort by cumulative_rent, descending.
SortCandidates(s) ==
  LET pairs == SetToSortSeq({p \in (1 .. Len(s)) \X (1 .. Len(s)) : p[1] < p[2]},
                            LAMBDA p, q : p[1] < q[1] \/ (p[1] = q[1] /\ p[2] < q[2]))
      Exchange(t, p) ==
        IF t[p[2]].cumulative_rent > t[p[1]].cumulative_rent
        THEN [t EXCEPT ![p[1]] = t[p[2]], ![p[2]] = t[p[1]]] ELSE t
  IN  FoldLeft(Exchange, s, pairs)

AutoNamed(i) == i.name \in AutoLike

AutoIndexes(indexes, r) == {i \in indexes : i.relid = r /\ AutoNamed(i)}

count_auto_indexes(r) == Cardinality(AutoIndexes(snap, r))

\* The cap is tested with > instead of >=.
MutantAtCap(r) == count_auto_indexes(r) > MaxPerTable

AtCap(r) == count_auto_indexes(r) >= MaxPerTable

index_already_exists(r, a) == \E i \in snap : i.relid = r /\ i.attnum = a

Indexed(indexes, c) == \E i \in indexes : <<i.relid, i.attnum>> = c

\* Evict, drain, evaluate and sort.  Nothing tracked: the pass is over.
StartPass ==
  /\ wpc = "wait"
  /\ LET T == Drained(advisor_hash_evict_stale(tbl), ring)
     IN  /\ tbl' = T
         /\ cands' = SortCandidates(Candidates(T))
         /\ wpc' = IF T = EmptyTable THEN "wait" ELSE "create"
  /\ ring' = <<>>
  /\ snap' = catalog
  /\ mine' = {}
  /\ due' = {c \in {<<e.key.relid, e.key.attnum>> : e \in Range(cands')} :
               /\ c[1] \in live
               /\ Cardinality(AutoIndexes(catalog, c[1])) < MaxPerTable}
  /\ UNCHANGED <<victims, catalog, live, stats, ran, bought>>

\* The error path of the pass: the transaction is rolled back.
Abort ==
  /\ wpc' = "wait" /\ cands' = <<>> /\ mine' = {} /\ victims' = {}
  /\ late' = {}
  /\ UNCHANGED <<snap, due, catalog, live, scanned>>

NewIndex(r, a) == [name |-> IndexName[<<r, a>>], relid |-> r, attnum |-> a]

\* CREATE INDEX with a name the server chooses: a number makes it a new one.
MutantCreated(r, a) ==
  {[NewIndex(r, a) EXCEPT !.name =
      IF \E i \in catalog \union mine : i.name = @ THEN @ \o "1" ELSE @]}

\* What CREATE INDEX IF NOT EXISTS adds to the catalog.
Created(r, a) ==
  IF \E i \in catalog \union mine : i.name = IndexName[<<r, a>>]
  THEN {} ELSE {NewIndex(r, a)}

\* The loop is left, not continued, when a table is at its cap.
MutantHandleCandidate ==
  /\ wpc = "create" /\ cands # <<>>
  /\ LET k == Head(cands).key
         capped == AtCap(k.relid)
         exists == index_already_exists(k.relid, k.attnum)
     IN  /\ capped \/ exists \/ k.relid \in live
         /\ mine' = IF capped \/ exists THEN mine ELSE mine \union Created(k.relid, k.attnum)
         /\ tbl' = IF capped THEN tbl ELSE advisor_hash_remove(tbl, k)
         /\ cands' = IF capped THEN <<>> ELSE Tail(cands)
  /\ UNCHANGED <<ring, wpc, snap, victims, due, catalog, live, stats, ran, bought>>

\* One round of the creation loop that does not fail.
HandleCandidate ==
  /\ wpc = "create" /\ cands # <<>>
  /\ LET k == Head(cands).key
         capped == AtCap(k.relid)
         exists == index_already_exists(k.relid, k.attnum)
     IN  /\ capped \/ exists \/ k.relid \in live
         /\ mine' = IF capped \/ exists THEN mine ELSE mine \union Created(k.relid, k.attnum)
         /\ tbl' = IF capped THEN tbl ELSE advisor_hash_remove(tbl, k)
  /\ cands' = Tail(cands)
  /\ UNCHANGED <<ring, wpc, snap, victims, due, catalog, live, stats, ran, bought>>

\* get_attname finds no column: the table is gone or of another database.
UnknownColumn ==
  /\ wpc = "create" /\ cands # <<>>
  /\ LET k == Head(cands).key
     IN  /\ ~AtCap(k.relid)
         /\ ~index_already_exists(k.relid, k.attnum)
         /\ k.relid \notin live
  /\ Abort
  /\ UNCHANGED <<ring, tbl, ran, bought>>

\* Purchases are counted up to one more than there are queries to pay for them.
OneMore(n) == IF n <= MaxQueries THEN n + 1 ELSE n

\* The indexes of the pass stay in its books after the commit.
MutantFinishPass ==
  /\ wpc = "create" /\ cands = <<>>
  /\ wpc' = "wait"
  /\ catalog' = catalog \union mine
  /\ bought' = [c \in Columns |-> IF Indexed(mine, c) THEN OneMore(bought[c]) ELSE bought[c]]
  /\ UNCHANGED <<ring, tbl, mine, cands, snap, victims, due, live, stats, ran>>

\* The loop is done and the transaction commits.
FinishPass ==
  /\ wpc = "create" /\ cands = <<>>
  /\ wpc' = "wait"
  /\ catalog' = catalog \union mine
  /\ mine' = {}
  /\ bought' = [c \in Columns |-> IF Indexed(mine, c) THEN OneMore(bought[c]) ELSE bought[c]]
  /\ UNCHANGED <<ring, tbl, cands, snap, victims, due, live, stats, ran>>

-----------------------------------------------------------------------------
(* The lifecycle pass. *)

\* The query does not ask for idx_scan = 0.
MutantStartLifecycle ==
  /\ wpc = "wait"
  /\ victims' = {i \in catalog : AutoNamed(i)}
  /\ wpc' = IF victims' = {} THEN "wait" ELSE "drop"
  /\ UNCHANGED <<ring, tbl, cands, snap, mine, due, catalog, live, stats, ran, bought>>

\* The query for auto-indexes without scans.
StartLifecycle ==
  /\ wpc = "wait"
  /\ victims' = {i \in catalog : AutoNamed(i) /\ i.name \notin scanned}
  /\ wpc' = IF victims' = {} THEN "wait" ELSE "drop"
  /\ UNCHANGED <<ring, tbl, cands, snap, mine, due, catalog, live, stats, ran, bought>>

\* The loop starts at the second row.
MutantDropVictim ==
  /\ wpc = "drop"
  /\ \E v \in victims :
       LET w == IF victims = {v} THEN {} ELSE {CHOOSE u \in victims \ {v} : TRUE}
       IN  /\ catalog' = {i \in catalog : \A u \in w : i.name # u.name}
           /\ scanned' = scanned \ {u.name : u \in w}
  /\ wpc' = "wait"
  /\ victims' = {} /\ late' = {}
  /\ UNCHANGED <<ring, tbl, cands, snap, mine, due, live, ran, bought>>

\* DROP INDEX IF EXISTS for the first row.  SPI_execute resets SPI_processed,
\* the bound of the loop, so that the loop ends here; the transaction commits.
DropVictim ==
  /\ wpc = "drop"
  /\ \E v \in victims :
       /\ catalog' = {i \in catalog : i.name # v.name}
       /\ scanned' = scanned \ {v.name}
  /\ wpc' = "wait"
  /\ victims' = {} /\ late' = {}
  /\ UNCHANGED <<ring, tbl, cands, snap, mine, due, live, ran, bought>>

-----------------------------------------------------------------------------
(* The rest of the server. *)

\* A query is captured.
Capture(q) ==
  /\ MapThenSumSet(LAMBDA p : ran[p], Queries) < MaxQueries
  /\ ran' = [ran EXCEPT ![q] = @ + 1]
  /\ ring' = Append(ring, [cols |-> q.cols, cost |-> q.cost, age |-> 0])
  /\ UNCHANGED <<tbl, passVars, catalog, live, stats, bought>>

\* Time passes between two passes.
Tick ==
  /\ wpc = "wait"
  /\ ring' = [n \in DOMAIN ring |-> [ring[n] EXCEPT !.age = Older(@)]]
  /\ tbl' = AgeTable(tbl)
  /\ UNCHANGED <<passVars, catalog, live, stats, ran, bought>>

\* A query scans an index, and the count is reported.
UseIndex(i) ==
  /\ "use" \in Events
  /\ i \in catalog
  /\ scanned' = scanned \union {i.name}
  /\ late' = IF wpc = "drop" /\ i.name \notin scanned THEN late \union {i.name} ELSE late
  /\ UNCHANGED <<ring, tbl, passVars, catalog, live, ran, bought>>

\* A session drops a table; it waits for the locks of CREATE INDEX.
DropTable(r) ==
  /\ "drop" \in Events
  /\ r \in live
  /\ ~\E i \in mine : i.relid = r
  /\ live' = live \ {r}
  /\ catalog' = {i \in catalog : i.relid # r}
  /\ scanned' = {n \in scanned : \E i \in catalog' : i.name = n}
  /\ UNCHANGED <<ring, tbl, passVars, late, ran, bought>>

\* CREATE INDEX fails: a deadlock or lock timeout, a cancelled query, no space.
CreateFails ==
  /\ "error" \in Events
  /\ wpc = "create" /\ cands # <<>>
  /\ Abort
  /\ UNCHANGED <<ring, tbl, ran, bought>>

\* The worker exits and is restarted by the postmaster: its table is lost.
WorkerExits ==
  /\ "exit" \in Events
  /\ tbl' = EmptyTable
  /\ Abort
  /\ UNCHANGED <<ring, ran, bought>>

\* A server process crashes: shared memory is initialised again, and recovery
\* discards the statistics.
ServerCrashes ==
  /\ "crash" \in Events
  /\ ring' = <<>>
  /\ tbl' = EmptyTable
  /\ wpc' = "wait" /\ cands' = <<>> /\ mine' = {} /\ victims' = {}
  /\ scanned' = {} /\ late' = {}
  /\ UNCHANGED <<snap, due, catalog, live, ran, bought>>

Worker == StartPass \/ HandleCandidate \/ UnknownColumn \/ FinishPass
            \/ StartLifecycle \/ DropVictim

Next ==
  \/ Worker
  \/ \E q \in Queries : Capture(q)
  \/ \E i \in catalog : UseIndex(i)
  \/ \E r \in Tables : DropTable(r)
  \/ Tick \/ CreateFails \/ WorkerExits \/ ServerCrashes

Spec == Init /\ [][Next]_vars

\* The worker finishes the passes it starts, and lifecycle_interval keeps
\* elapsing between advisor passes.
FairSpec ==
  /\ Spec
  /\ WF_vars(HandleCandidate \/ UnknownColumn \/ FinishPass \/ DropVictim)
  /\ SF_vars(StartLifecycle)

-----------------------------------------------------------------------------
Refs(q, c) ==
  Cardinality({n \in DOMAIN q.cols : <<q.cols[n].relid, q.cols[n].attnum>> = c})

\* The rent captured for a column: the plan cost, once per reference to it.
Rent(c) == MapThenSumSet(LAMBDA q : ran[q] * q.cost * Refs(q, c), Queries)

IndexRecord == [name : STRING, relid : Nat, attnum : Int]

\* The worker's state and the catalog are well-formed, and a transaction is open
\* only inside a pass.
TypeOK ==
  /\ \A s \in HashSlots : tbl[s].age \in Ages /\ (Used(tbl, s) <=> tbl[s].exec_count > 0)
  /\ wpc \in {"wait", "create", "drop"}
  /\ wpc # "create" => cands = <<>> /\ mine = {}
  /\ wpc # "drop" => victims = {}
  /\ catalog \union mine \union snap \union victims \subseteq IndexRecord
  /\ live \subseteq Tables

\* Ski rental: every purchase of an index on a column is covered by rent of its
\* own, also when the index was dropped and bought again, after restarts, and
\* after passes that failed.
PaidFor ==
  \A c \in Columns : c[1] \in Tables => bought[c] * BuyCost[c[1]] <= Rent(c)

\* A column has at most one auto-index: a candidate that appears twice in a
\* pass, or comes back while its index exists, creates nothing.
OneIndexPerColumn ==
  \A i, j \in (catalog \union mine) \ UserIndexes :
    i.relid = j.relid /\ i.attnum = j.attnum => i = j

\* What the cap does enforce: a table that has reached it gets no further
\* auto-index before one is dropped, whatever happens between the snapshot in
\* which the pass counts and its commit.
CapStopsGrowth ==
  [][\A r \in Tables : Cardinality(AutoIndexes(catalog, r)) >= MaxPerTable =>
       AutoIndexes(catalog', r) \subseteq AutoIndexes(catalog, r)]_vars

\* An index whose scans the server has counted is kept: the lifecycle pass drops
\* one only if its first scan came after the query of the pass.  After a crash
\* the scans are no longer counted.
ScannedKept ==
  [][\A i \in catalog : i.name \in scanned \ late /\ i.relid \in live' => i \in catalog']_vars

PassEnds == wpc = "create" /\ wpc' = "wait"

\* "As soon as SUM C_rent >= C_buy, the advisor issues CREATE INDEX" (README):
\* at the end of a pass the columns that triggered in a table that exists and
\* was below its cap have an index.
DueServed ==
  [][PassEnds => \A c \in due : c[1] \in live' => Indexed(catalog', c)]_vars

\* "advisor pass failed, will retry" (AutoIndexMain): at the end of a pass a
\* column that triggered has an index, or is still tracked and can be retried.
DueNotForgotten ==
  [][PassEnds =>
       \A c \in due : c[1] \in live' =>
         \/ Indexed(catalog', c)
         \/ \E s \in HashSlots : <<tbl'[s].key.relid, tbl'[s].key.attnum>> = c]_vars

Unscanned(c) ==
  \E i \in catalog : <<i.relid, i.attnum>> = c /\ AutoNamed(i) /\ i.name \notin scanned

\* An auto-index that is never scanned is dropped by the lifecycle passes,
\* although a pass drops one index only, unless indexes are bought again and
\* again.
NeverUsedIsDropped ==
  \A c \in Columns :
    \/ Unscanned(c) ~> ~Unscanned(c)
    \/ []<><<FinishPass /\ mine # {}>>_vars

(* Statements of the documentation and of comments that do not hold. *)

\* "Hard cap on auto-created indexes per table" (autoindex.max_indexes_per_table).
HardCap ==
  \A r \in Tables : Cardinality(AutoIndexes(catalog, r)) <= MaxPerTable
=============================================================================
