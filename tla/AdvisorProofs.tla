--------------------------- MODULE AdvisorProofs ----------------------------
(***************************************************************************)
(* Proofs about Advisor, for every set of tables, queries and indexes,     *)
(* every cap and every mixture of the events.                              *)
(***************************************************************************)
EXTENDS Advisor, FiniteSetTheorems, TLAPS

\* What the steps have in common.  Every step but those of the two passes leaves
\* the pass as it is or ends it, and the catalog only loses indexes in it.
LEMMA Frames ==
  ASSUME Next
  PROVE  \/ StartPass \/ HandleCandidate \/ FinishPass \/ StartLifecycle \/ DropVictim
         \/ /\ catalog' \subseteq catalog
            /\ \/ UNCHANGED <<wpc, snap, mine, victims>>
               \/ wpc' = "wait" /\ mine' = {} /\ victims' = {} /\ snap' = snap
<1>1. CASE Worker
  BY <1>1 DEF Worker, UnknownColumn, Abort
<1>2. ASSUME NEW q \in Queries, Capture(q)
      PROVE  UNCHANGED <<catalog, wpc, snap, mine, victims>>
  BY <1>2 DEF Capture, passVars
<1>3. ASSUME NEW i \in catalog, UseIndex(i)
      PROVE  UNCHANGED <<catalog, wpc, snap, mine, victims>>
  BY <1>3 DEF UseIndex, passVars
<1>4. ASSUME NEW r \in Tables, DropTable(r)
      PROVE  catalog' \subseteq catalog /\ UNCHANGED <<wpc, snap, mine, victims>>
  BY <1>4 DEF DropTable, passVars
<1>5. CASE Tick
  BY <1>5 DEF Tick, passVars
<1>6. CASE CreateFails
  BY <1>6 DEF CreateFails, Abort
<1>7. CASE WorkerExits
  BY <1>7 DEF WorkerExits, Abort
<1>8. CASE ServerCrashes
  BY <1>8 DEF ServerCrashes
<1> QED BY <1>1, <1>2, <1>3, <1>4, <1>5, <1>6, <1>7, <1>8 DEF Next

-----------------------------------------------------------------------------
(* The cap. *)

\* The inductive invariant behind the cap.  While a pass creates, its snapshot
\* has every index of the catalog, since other sessions only drop indexes; and
\* the tables of its new indexes are below the cap in the snapshot.
CapInv ==
  /\ IsFiniteSet(catalog) /\ IsFiniteSet(snap) /\ IsFiniteSet(mine)
  /\ wpc = "create" => catalog \subseteq snap
  /\ wpc # "create" => mine = {}
  /\ \A i \in mine : ~AtCap(i.relid)

\* A round of the creation loop adds at most one index, on a table below its cap.
LEMMA RoundAdds ==
  ASSUME HandleCandidate
  PROVE  /\ wpc = "create" /\ UNCHANGED <<wpc, snap, catalog, victims>>
         /\ \/ mine' = mine
            \/ \E r, a : ~AtCap(r) /\ mine' = mine \union {NewIndex(r, a)}
<1>1. wpc = "create" /\ UNCHANGED <<wpc, snap, catalog, victims>>
  BY DEF HandleCandidate
<1> DEFINE k == Head(cands).key
<1>2. mine' = IF AtCap(k.relid) \/ index_already_exists(k.relid, k.attnum) THEN mine
              ELSE mine \union Created(k.relid, k.attnum)
  BY DEF HandleCandidate
<1>3. Created(k.relid, k.attnum) = {} \/ Created(k.relid, k.attnum) = {NewIndex(k.relid, k.attnum)}
  BY DEF Created
<1> HIDE DEF k
<1> QED BY <1>1, <1>2, <1>3

\* The invariant is kept by every step.
LEMMA CapStep == CapInv /\ [Next]_vars => CapInv'
<1> SUFFICES ASSUME CapInv, [Next]_vars PROVE CapInv'
  OBVIOUS
<1>1. CASE StartPass
  BY <1>1, FS_EmptySet DEF StartPass, CapInv
<1>2. CASE HandleCandidate
  <2>1. CASE mine' = mine
    BY <1>2, <2>1, RoundAdds DEF CapInv, AtCap, count_auto_indexes, AutoIndexes
  <2>2. ASSUME NEW r, NEW a, ~AtCap(r), mine' = mine \union {NewIndex(r, a)}
        PROVE  CapInv'
    <3>1. IsFiniteSet(mine')
      BY <2>2, FS_AddElement DEF CapInv
    <3>2. NewIndex(r, a).relid = r
      BY DEF NewIndex
    <3>3. \A x : AtCap(x)' <=> AtCap(x)
      BY <1>2, RoundAdds DEF AtCap, count_auto_indexes, AutoIndexes
    <3>4. \A i \in mine' : ~AtCap(i.relid)'
      BY <2>2, <3>2, <3>3 DEF CapInv
    <3> QED BY <1>2, <3>1, <3>4, RoundAdds DEF CapInv
  <2> QED BY <1>2, <2>1, <2>2, RoundAdds
<1>3. CASE FinishPass
  BY <1>3, FS_EmptySet, FS_Union DEF FinishPass, CapInv
<1>4. CASE StartLifecycle
  BY <1>4, FS_EmptySet DEF StartLifecycle, CapInv
<1>5. CASE DropVictim
  <2>1. catalog' \subseteq catalog
    BY <1>5 DEF DropVictim
  <2> QED BY <1>5, <2>1, FS_Subset, FS_EmptySet DEF DropVictim, CapInv
<1>6. ASSUME catalog' \subseteq catalog, UNCHANGED <<wpc, snap, mine, victims>>
      PROVE  CapInv'
  BY <1>6, FS_Subset DEF CapInv, AtCap, count_auto_indexes, AutoIndexes
<1>7. ASSUME catalog' \subseteq catalog, wpc' = "wait", mine' = {}, snap' = snap
      PROVE  CapInv'
  BY <1>7, FS_Subset, FS_EmptySet DEF CapInv
<1>8. CASE UNCHANGED vars
  BY <1>8, <1>6 DEF vars, passVars
<1> QED BY <1>1, <1>2, <1>3, <1>4, <1>5, <1>6, <1>7, <1>8, Frames, SMTT(30)

\* A pass that commits adds nothing to a table that is at the cap in the catalog.
LEMMA CommitBelowCap ==
  ASSUME CapInv, FinishPass, NEW r \in Tables,
         Cardinality(AutoIndexes(catalog, r)) >= MaxPerTable
  PROVE  AutoIndexes(catalog', r) \subseteq AutoIndexes(catalog, r)
<1>1. AutoIndexes(catalog, r) \subseteq AutoIndexes(snap, r)
  BY DEF CapInv, FinishPass, AutoIndexes
<1>2. IsFiniteSet(AutoIndexes(snap, r))
  <2>1. AutoIndexes(snap, r) \subseteq snap
    BY DEF AutoIndexes
  <2> QED BY <2>1, FS_Subset DEF CapInv
<1>3. /\ Cardinality(AutoIndexes(catalog, r)) \in Nat
      /\ Cardinality(AutoIndexes(snap, r)) \in Nat
      /\ Cardinality(AutoIndexes(catalog, r)) <= Cardinality(AutoIndexes(snap, r))
  BY <1>1, <1>2, FS_Subset, FS_CardinalityType
<1>4. AtCap(r)
  <2>1. Cardinality(AutoIndexes(snap, r)) >= MaxPerTable
    BY <1>3, AdvisorAssumption, SMT
  <2> QED BY <2>1 DEF AtCap, count_auto_indexes
<1>5. \A i \in mine : i.relid # r
  BY <1>4 DEF CapInv
<1> QED BY <1>5 DEF FinishPass, AutoIndexes

\* What autoindex.max_indexes_per_table enforces (the count in the creation loop
\* of autoindex_run_advisor), for every cap and whatever the other sessions drop:
\* a table at its cap gets no further auto-index.
THEOREM CapHolds == Spec => CapStopsGrowth
<1> DEFINE Growth == \A r \in Tables : Cardinality(AutoIndexes(catalog, r)) >= MaxPerTable =>
                       AutoIndexes(catalog', r) \subseteq AutoIndexes(catalog, r)
<1>1. Init => CapInv
  BY AdvisorAssumption, FS_EmptySet DEF Init, CapInv
<1>2. CapInv /\ [Next]_vars => [Growth]_vars
  <2> SUFFICES ASSUME CapInv, Next PROVE Growth
    OBVIOUS
  <2>1. CASE FinishPass
    BY <2>1, CommitBelowCap
  <2>2. ASSUME catalog' \subseteq catalog PROVE Growth
    BY <2>2 DEF AutoIndexes
  <2>3. CASE DropVictim
    BY <2>2, <2>3, SMTT(30) DEF DropVictim
  <2>4. CASE StartPass \/ HandleCandidate \/ StartLifecycle
    BY <2>2, <2>4 DEF StartPass, HandleCandidate, StartLifecycle
  <2> QED BY <2>1, <2>2, <2>3, <2>4, Frames, SMTT(30)
<1> QED BY <1>1, <1>2, CapStep, PTL DEF Spec, CapStopsGrowth

-----------------------------------------------------------------------------
(* The lifecycle pass. *)

\* The inductive invariant behind the drops: there are rows of the lifecycle
\* query only during the pass, and an index among them was not scanned, or was
\* first scanned after the query.
VictimInv ==
  /\ wpc # "drop" => victims = {}
  /\ \A v \in victims : v.name \notin scanned \ late

\* The invariant is kept by every step.
LEMMA VictimStep == VictimInv /\ [Next]_vars => VictimInv'
<1> SUFFICES ASSUME VictimInv, [Next]_vars PROVE VictimInv'
  OBVIOUS
<1>1. CASE Worker
  BY <1>1 DEF Worker, StartPass, HandleCandidate, UnknownColumn, Abort, FinishPass,
              StartLifecycle, DropVictim, stats, VictimInv
<1>2. ASSUME UNCHANGED <<wpc, victims, scanned, late>> PROVE VictimInv'
  BY <1>2 DEF VictimInv
<1>3. ASSUME NEW q \in Queries, Capture(q) PROVE VictimInv'
  BY <1>2, <1>3 DEF Capture, passVars, stats
<1>4. ASSUME NEW i \in catalog, UseIndex(i) PROVE VictimInv'
  BY <1>4 DEF UseIndex, passVars, VictimInv
<1>5. ASSUME NEW r \in Tables, DropTable(r) PROVE VictimInv'
  BY <1>5 DEF DropTable, passVars, VictimInv
<1>6. CASE Tick
  BY <1>2, <1>6 DEF Tick, passVars, stats
<1>7. CASE CreateFails \/ WorkerExits \/ ServerCrashes
  BY <1>7 DEF CreateFails, WorkerExits, ServerCrashes, Abort, VictimInv
<1>8. CASE UNCHANGED vars
  BY <1>2, <1>8 DEF vars, passVars, stats
<1> QED BY <1>1, <1>3, <1>4, <1>5, <1>6, <1>7, <1>8, SMTT(30) DEF Next

\* The lifecycle pass (autoindex_run_lifecycle) and everything around it drop no
\* index of a live table whose scans were counted when the pass looked.
THEOREM ScannedIsKept == Spec => ScannedKept
<1> DEFINE Kept == \A i \in catalog : i.name \in scanned \ late /\ i.relid \in live' => i \in catalog'
<1>1. Init => VictimInv
  BY DEF Init, VictimInv
<1>2. VictimInv /\ [Next]_vars => [Kept]_vars
  <2> SUFFICES ASSUME VictimInv, Next PROVE Kept
    OBVIOUS
  <2>1. ASSUME catalog \subseteq catalog' PROVE Kept
    BY <2>1
  <2>2. CASE DropVictim
    BY <2>2, SMTT(30) DEF DropVictim, VictimInv
  <2>3. CASE StartPass \/ HandleCandidate \/ UnknownColumn \/ FinishPass \/ StartLifecycle
    BY <2>1, <2>3 DEF StartPass, HandleCandidate, UnknownColumn, Abort, FinishPass, StartLifecycle
  <2>4. ASSUME NEW q \in Queries, Capture(q) PROVE Kept
    BY <2>1, <2>4 DEF Capture
  <2>5. ASSUME NEW i \in catalog, UseIndex(i) PROVE Kept
    BY <2>1, <2>5 DEF UseIndex
  <2>6. ASSUME NEW r \in Tables, DropTable(r) PROVE Kept
    BY <2>6 DEF DropTable
  <2>7. CASE Tick \/ CreateFails \/ WorkerExits \/ ServerCrashes
    BY <2>1, <2>7 DEF Tick, CreateFails, WorkerExits, ServerCrashes, Abort
  <2> QED BY <2>2, <2>3, <2>4, <2>5, <2>6, <2>7, SMTT(30) DEF Next, Worker
<1> QED BY <1>1, <1>2, VictimStep, PTL DEF Spec, ScannedKept

-----------------------------------------------------------------------------
(* One index per column. *)

\* The inductive invariant: what the advisor has created is determined by the
\* column, its name included.
OwnInv ==
  /\ wpc # "create" => mine = {}
  /\ \A i \in (catalog \union mine) \ UserIndexes : i = NewIndex(i.relid, i.attnum)

\* A column never has two auto-indexes (build_index_name and CREATE INDEX IF NOT
\* EXISTS in autoindex_run_advisor), for every assignment of names to columns.
THEOREM AtMostOneIndex == Spec => []OneIndexPerColumn
<1>1. Init => OwnInv
  BY DEF Init, OwnInv
<1>2. OwnInv /\ [Next]_vars => OwnInv'
  <2> SUFFICES ASSUME OwnInv, [Next]_vars PROVE OwnInv'
    OBVIOUS
  <2>1. ASSUME catalog' \subseteq catalog, mine' = mine, wpc' = wpc PROVE OwnInv'
    BY <2>1 DEF OwnInv, NewIndex
  <2>2. ASSUME catalog' \subseteq catalog, mine' = {} PROVE OwnInv'
    BY <2>2 DEF OwnInv, NewIndex
  <2>3. CASE HandleCandidate
    <3>1. \A r, a : LET i == NewIndex(r, a) IN i = NewIndex(i.relid, i.attnum)
      BY DEF NewIndex
    <3>2. \A r, a : NewIndex(r, a)' = NewIndex(r, a)
      BY DEF NewIndex
    <3> QED BY <2>3, <3>1, <3>2, RoundAdds, SMTT(30) DEF OwnInv
  <2>4. CASE FinishPass
    BY <2>4 DEF FinishPass, OwnInv, NewIndex
  <2>5. CASE StartPass
    BY <2>2, <2>5 DEF StartPass
  <2>6. CASE StartLifecycle \/ DropVictim
    <3>1. catalog' \subseteq catalog /\ mine' = {}
      BY <2>6 DEF StartLifecycle, DropVictim, OwnInv
    <3> QED BY <2>2, <3>1
  <2>7. CASE UNCHANGED vars
    BY <2>1, <2>7 DEF vars, passVars
  <2> QED BY <2>1, <2>2, <2>3, <2>4, <2>5, <2>6, <2>7, Frames, SMTT(30)
<1>3. OwnInv => OneIndexPerColumn
  BY DEF OwnInv, OneIndexPerColumn
<1> QED BY <1>1, <1>2, <1>3, PTL DEF Spec
=============================================================================
