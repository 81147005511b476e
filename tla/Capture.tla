------------------------------ MODULE Capture -------------------------------
(***************************************************************************)
(* From a finished query to the worker's table, in time: the ExecutorEnd   *)
(* hook in every process that ran a part of the query                      *)
(* (autoindex_workload_capture_hook, workload_capture.c), the ring buffer, *)
(* and the main loop that drains it (AutoIndexMain, autoindex.c, and       *)
(* drain_ring_buffer, index_advisor.c).                                    *)
(*                                                                         *)
(* Composes PlanWalk and AdvisorTable.  The ring is the sequence of its    *)
(* entries: WorkloadRing has the steps of a push, Advisor the choice of    *)
(* the columns that get an index, WorkerProcess the switch                 *)
(* autoindex.enabled, which is on here.  Time is counted in a unit that    *)
(* divides the intervals.                                                  *)
(***************************************************************************)
EXTENDS PlanWalk, AdvisorTable, FiniteSetsExt

CONSTANTS
  Statements,        \* PlannedStmts: [commandType, planTree, rtable, gathered]
  Processes,         \* server processes, each a session or a parallel worker
  RingSize,          \* AUTOINDEX_RING_SIZE
  AnalysisInterval,  \* autoindex.analysis_interval
  AdvisorInterval,   \* autoindex.advisor_interval
  MaxDelay,          \* the longest time spent in the previous ExecutorEnd hook
  RestartTime,       \* bgw_restart_time
  Events,            \* what else may happen: subset of {"fail", "exit"}
  MaxQueries         \* bound on the number of queries started

ASSUME CaptureAssumption ==
  /\ RingSize \in Nat \ {0, 1}
  /\ {AnalysisInterval, AdvisorInterval} \subseteq Nat \ {0}
  /\ {MaxDelay, RestartTime, MaxQueries} \subseteq Nat
  /\ Events \subseteq {"fail", "exit"}

VARIABLES
  proc,      \* what each process does
  ring,      \* entries pushed and not drained, each with its age
  tbl,       \* advisor_hash of the worker
  up,        \* the worker is in its loop
  waited,    \* time since it began to wait, or since it exited
  since,     \* time since last_advisor_run, as far as it matters
  started,   \* history: queries started
  exits,     \* history: the worker has exited at least once
  owed,      \* history: references to each column in the filters of the scans that ended
  lost,      \* history: references dropped, evicted or used up by a purchase
  seen       \* history: ages of the entries pushed that refer to each column, since its
             \* record was used for an index

workerVars == <<tbl, up, waited, since, exits>>
vars == <<proc, ring, workerVars, started, owed, lost, seen>>

Columns == UNION {Range(ScanFilters(s.planTree, s.rtable)) : s \in Statements}

\* The longest time between two passes of a worker that stays up.
MaxSpacing == AdvisorInterval + AnalysisInterval - 1

Idle == [at |-> "idle"]

Init ==
  /\ proc = [p \in Processes |-> Idle]
  /\ ring = <<>>
  /\ tbl = EmptyTable
  /\ up = TRUE /\ waited = 0 /\ since = 0 /\ exits = FALSE
  /\ started = 0
  /\ owed = [c \in Columns |-> 0] /\ lost = [c \in Columns |-> 0]
  /\ seen = [c \in Columns |-> {}]

-----------------------------------------------------------------------------
(* Queries. *)

\* ExecSerializePlan: the statement a parallel worker runs, the plan below Gather.
WorkerStmt(s) == [s EXCEPT !.commandType = "SELECT", !.planTree = s.gathered,
                           !.gathered = NullPlan]

Running(s, leader) == [at |-> "running", stmt |-> s, leader |-> leader]

\* A session runs a query.  A plan with Gather gets the workers that are free.
StartQuery(p, s, W) ==
  /\ started < MaxQueries
  /\ proc[p] = Idle
  /\ W \subseteq {w \in Processes \ {p} : proc[w] = Idle}
  /\ s.gathered = NullPlan => W = {}
  /\ started' = started + 1
  /\ proc' = [q \in Processes |-> IF q = p THEN Running(s, p)
                                  ELSE IF q \in W THEN Running(WorkerStmt(s), p)
                                  ELSE proc[q]]
  /\ UNCHANGED <<ring, workerVars, owed, lost, seen>>

Refs(cols, c) == Cardinality({n \in DOMAIN cols : cols[n] = c})

NotCaptured == [ZeroEntry EXCEPT !.relids = <<0>>]

\* The entry, or NotCaptured for a statement without a plan or without columns.
CapturedEntry(s) ==
  LET e == walk_plan_tree(s.planTree, s.rtable, ZeroEntry)
  IN  IF /\ s.commandType # "UTILITY" /\ s.planTree # NullPlan
         /\ e.pred # <<>> \/ e.sort # <<>> \/ e.join # <<>>
      THEN e ELSE NotCaptured

\* The references the scans of a process made, as far as an entry has room.
FiltersRun(s) ==
  LET f == ScanFilters(s.planTree, s.rtable)
  IN  SubSeq(f, 1, IF Len(f) < MaxCols THEN Len(f) ELSE MaxCols)

\* The hook until it calls the previous one: the plan is walked and the time is
\* taken.  The leader has waited for its workers to end.
EnterHook(p) ==
  /\ proc[p].at = "running"
  /\ proc[p].leader = p => \A q \in Processes \ {p} : proc[q] # Idle => proc[q].leader # p
  /\ proc' = [proc EXCEPT ![p] = [at |-> "ending", stmt |-> proc[p].stmt,
                                  leader |-> proc[p].leader,
                                  entry |-> CapturedEntry(proc[p].stmt), age |-> 0]]
  /\ owed' = [c \in Columns |-> owed[c] + Refs(FiltersRun(proc[p].stmt), c)]
  /\ UNCHANGED <<ring, workerVars, started, lost, seen>>

Loses(cols) == lost' = [c \in Columns |-> lost[c] + Refs(cols, c)]

\* The rest of the hook: ring_buffer_push, which drops the entry when the ring
\* is full.
LeaveHook(p) ==
  /\ proc[p].at = "ending"
  /\ proc' = [proc EXCEPT ![p] = Idle]
  /\ LET e == proc[p].entry
     IN  IF e = NotCaptured
         THEN UNCHANGED <<ring, lost, seen>>
         ELSE IF Len(ring) = RingSize - 1
         THEN Loses(e.pred) /\ UNCHANGED <<ring, seen>>
         ELSE /\ ring' = Append(ring, [entry |-> e, cost |-> proc[p].stmt.planTree.total_cost,
                                       age |-> proc[p].age])
              /\ seen' = [c \in Columns |-> IF Refs(e.pred, c) > 0
                                            THEN seen[c] \union {proc[p].age} ELSE seen[c]]
              /\ UNCHANGED lost
  /\ UNCHANGED <<workerVars, started, owed>>

\* An error: the query ends without ExecutorEnd, or the previous hook raises it.
\* The workers of a session end with it.
QueryFails(p) ==
  /\ "fail" \in Events
  /\ proc[p] # Idle /\ proc[p].leader = p
  /\ LET ends == {q \in Processes : proc[q] # Idle /\ proc[q].leader = p}
     IN  /\ proc' = [q \in Processes |-> IF q \in ends THEN Idle ELSE proc[q]]
         /\ lost' = [c \in Columns |-> lost[c] +
              MapThenSumSet(LAMBDA q : Refs(proc[q].entry.pred, c),
                            {q \in ends : proc[q].at = "ending"})]
  /\ UNCHANGED <<ring, workerVars, started, owed, seen>>

-----------------------------------------------------------------------------
(* The worker. *)

Key(c, usage) == [relid |-> c.relid, attnum |-> c.attnum, usage_type |-> usage]

Keys(e) ==
  [n \in DOMAIN e.pred |-> Key(e.pred[n], USAGE_PREDICATE)]
    \o [n \in DOMAIN e.join |-> Key(e.join[n], USAGE_JOIN)]
    \o [n \in DOMAIN e.sort |-> Key(e.sort[n], USAGE_SORT)]

\* The drain starts one entry late.
MutantDrain(T, entries) ==
  FoldLeft(LAMBDA U, r : FoldLeft(LAMBDA V, k : Credit(V, k, r.cost, r.age), U, Keys(r.entry)),
           T, IF Len(entries) > 1 THEN Tail(entries) ELSE entries)

\* drain_ring_buffer.
drain_ring_buffer(T, entries) ==
  FoldLeft(LAMBDA U, r : FoldLeft(LAMBDA V, k : Credit(V, k, r.cost, r.age), U, Keys(r.entry)),
           T, entries)

\* The references to a column as a predicate that the slots S of a table count.
Counted(T, S, c) ==
  MapThenSumSet(LAMBDA s : T[s].exec_count, {s \in S : T[s].key = Key(c, USAGE_PREDICATE)})

Stale == {s \in HashSlots : Used(tbl, s) /\ tbl[s].age > Window}

\* The entries that can become candidates, whatever the costs are.
Eligible(T) ==
  {s \in HashSlots : T[s].key.usage_type \in {USAGE_PREDICATE, USAGE_JOIN} /\ T[s].key.attnum > 0}

\* autoindex_run_advisor: evict, drain, and remove the entries of the candidates
\* that have an index now, in the order of their rent.
RunAdvisor ==
  LET T == drain_ring_buffer(advisor_hash_evict_stale(tbl), ring)
  IN  \E bought \in SUBSET Eligible(T) : \E order \in SetToSeqs(bought) :
        /\ tbl' = FoldLeft(LAMBDA U, s : advisor_hash_remove(U, T[s].key), T, order)
        /\ lost' = [c \in Columns |-> lost[c] + Counted(tbl, Stale, c)
                      + Counted(T, HashSlots, c) - Counted(tbl', HashSlots, c)]
        /\ seen' = [c \in Columns |->
                      IF \E s \in bought : T[s].key = Key(c, USAGE_PREDICATE) THEN {} ELSE seen[c]]
        /\ ring' = <<>>

\* Every pass of the loop counts as an advisor pass.
MutantWake ==
  /\ up
  /\ waited' = 0
  /\ since' = 0
  /\ IF since >= AdvisorInterval THEN RunAdvisor ELSE UNCHANGED <<tbl, ring, lost, seen>>
  /\ UNCHANGED <<proc, up, exits, started, owed>>

\* WaitLatch returns, by a signal or by its timeout.  The fast loop drains
\* nothing; the advisor runs when advisor_interval has elapsed.
Wake ==
  /\ up
  /\ waited' = 0
  /\ IF since >= AdvisorInterval
     THEN RunAdvisor /\ since' = 0
     ELSE UNCHANGED <<tbl, ring, lost, seen, since>>
  /\ UNCHANGED <<proc, up, exits, started, owed>>

\* The worker exits; its table goes with it, the ring stays.
WorkerExits ==
  /\ "exit" \in Events
  /\ up /\ ~exits
  /\ up' = FALSE /\ exits' = TRUE
  /\ waited' = 0
  /\ tbl' = EmptyTable
  /\ lost' = [c \in Columns |-> lost[c] + Counted(tbl, HashSlots, c)]
  /\ UNCHANGED <<proc, ring, since, started, owed, seen>>

\* The postmaster starts it again, and both intervals begin anew.
Restart ==
  /\ ~up
  /\ up' = TRUE
  /\ waited' = 0 /\ since' = 0
  /\ UNCHANGED <<proc, ring, tbl, exits, started, owed, lost, seen>>

-----------------------------------------------------------------------------
AgedProc(a) == IF a.at = "ending" THEN [a EXCEPT !.age = Older(@)] ELSE a

\* Time passes, while no timeout is due and no process is past its limit.
Tick ==
  /\ waited < (IF up THEN AnalysisInterval ELSE RestartTime)
  /\ \A p \in Processes : proc[p].at = "ending" => proc[p].age < MaxDelay
  /\ waited' = waited + 1
  /\ since' = IF since < AdvisorInterval THEN since + 1 ELSE since
  /\ proc' = [p \in Processes |-> AgedProc(proc[p])]
  /\ ring' = [n \in DOMAIN ring |-> [ring[n] EXCEPT !.age = Older(@)]]
  /\ tbl' = AgeTable(tbl)
  /\ seen' = [c \in Columns |-> {Older(a) : a \in seen[c]} \ {Window + 1}]
  /\ UNCHANGED <<up, exits, started, owed, lost>>

Next ==
  \/ \E p \in Processes, s \in Statements, W \in SUBSET Processes : StartQuery(p, s, W)
  \/ \E p \in Processes : EnterHook(p) \/ LeaveHook(p) \/ QueryFails(p)
  \/ Wake \/ WorkerExits \/ Restart \/ Tick

Spec == Init /\ [][Next]_vars

-----------------------------------------------------------------------------
InHands == {p \in Processes : proc[p].at = "ending"}

Column == [relid : Nat, attnum : Int]

\* The lists of an entry fit its arrays, the ring keeps its gap, and the clocks
\* stay within the intervals.
TypeOK ==
  /\ \A e \in {proc[p].entry : p \in InHands} \union {r.entry : r \in Range(ring)} :
       /\ {e.pred, e.sort, e.join} \subseteq Seq(Column)
       /\ {Len(e.pred), Len(e.sort), Len(e.join)} \subseteq 0 .. MaxCols
       /\ Len(e.relids) <= MaxRels
  /\ Len(ring) < RingSize
  /\ waited \in 0 .. AnalysisInterval \union 0 .. RestartTime
  /\ since \in 0 .. AdvisorInterval

\* A column is charged rent only for a query that tests it: whatever the hook
\* takes for a predicate column is a table column some qual of the plan reads,
\* in sessions and in parallel workers.
CapturedAreTested ==
  \A p \in InHands : Range(proc[p].entry.pred)
                       \subseteq TestedBy(proc[p].stmt.planTree, proc[p].stmt.rtable)

\* Every reference that a scan's filter makes to a table column is counted once
\* for every process that ran the scan: it is with the process, in the ring, in
\* the table, or it was lost in one of the ways the code has (a full ring, an
\* error, an eviction, a purchase, an exit of the worker).
FiltersAccounted ==
  \A c \in Columns :
    owed[c] = MapThenSumSet(LAMBDA p : Refs(proc[p].entry.pred, c), InHands)
                + MapThenSumSet(LAMBDA n : Refs(ring[n].entry.pred, c), DOMAIN ring)
                + Counted(tbl, HashSlots, c) + lost[c]

\* An entry waits in the ring for the advisor and not for the fast loop: it is
\* drained within advisor_interval and analysis_interval, unless the worker was
\* started again, which restarts the interval.
DrainedInTime ==
  ~exits => \A r \in Range(ring) : r.age <= MaxDelay + MaxSpacing

\* A column seen within the window keeps a record that a pass does not evict,
\* although probing may have left older records of it behind, with a margin at
\* both ends: a pass evicts before it drains, so the newest references do not
\* count yet, and last_seen is the time of the entry pushed last, not of the
\* latest one.  A worker that exits takes the records with it.
SeenIsKept ==
  [][since' < since /\ ~exits =>
       \A c \in Columns, a \in Ages :
         a \in seen[c] /\ MaxSpacing + MaxDelay < a /\ a <= Window - MaxDelay =>
           \E s \in HashSlots \ Stale : tbl[s].key = Key(c, USAGE_PREDICATE)]_vars

(* A statement of a comment that does not hold. *)

\* "captures predicate, sort and join columns from every query" (workload_capture.c):
\* the entry of a query has the columns that its plan joins and sorts by, while
\* there is room.
JoinsAndSortsCaptured ==
  \A p \in InHands :
    LET s == proc[p].stmt
        e == proc[p].entry
    IN  /\ Len(e.join) < MaxCols => JoinedBy(s.planTree, s.rtable) \subseteq Range(e.join)
        /\ Len(e.sort) < MaxCols => SortedBy(s.planTree, s.rtable) \subseteq Range(e.sort)
=============================================================================
