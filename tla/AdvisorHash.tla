---------------------------- MODULE AdvisorHash -----------------------------
(***************************************************************************)
(* The column-statistics table under every sequence of the calls the       *)
(* worker makes: a reference is credited, stale entries are evicted, the   *)
(* entry of a column that has been indexed is removed, time passes.        *)
(***************************************************************************)
EXTENDS AdvisorTable, FiniteSetsExt

CONSTANTS
  Keys,         \* the column keys the workload refers to
  MaxCredits    \* bound on the number of references

ASSUME HashAssumption ==
  /\ Keys \subseteq [relid : Nat \ {0}, attnum : Int, usage_type : Nat]
  /\ MaxCredits \in Nat

VARIABLES
  advisor_hash,   \* the table
  credits,        \* history: how often each key was credited or refused
  refused,        \* history: references refused because the table was full
  discarded,      \* history: references in entries that were evicted or removed
  holes           \* history: the slots that have ever been freed

vars == <<advisor_hash, credits, refused, discarded, holes>>

Init ==
  /\ advisor_hash = EmptyTable
  /\ credits = [k \in Keys |-> 0]
  /\ refused = [k \in Keys |-> 0]
  /\ discarded = [k \in Keys |-> 0]
  /\ holes = {}

\* The references counted in the copies of k among the given slots.
Held(T, S, k) == MapThenSumSet(LAMBDA s : T[s].exec_count, {s \in S : T[s].key = k})

\* The slots an operation freed.
Freed(T, U) == {s \in HashSlots : Used(T, s) /\ ~Used(U, s)}

\* drain_ring_buffer meets a reference to k, in an entry that may have waited in
\* the ring for some time.
Reference(k) ==
  /\ MapThenSumSet(LAMBDA j : credits[j], Keys) < MaxCredits
  /\ \E age \in Ages : advisor_hash' = Credit(advisor_hash, k, 1, age)
  /\ credits' = [credits EXCEPT ![k] = @ + 1]
  /\ refused' = [refused EXCEPT ![k] = IF GivesUp(advisor_hash, k) THEN @ + 1 ELSE @]
  /\ UNCHANGED <<discarded, holes>>

\* A call that only frees slots.
Shrink(U) ==
  /\ advisor_hash' = U
  /\ discarded' = [k \in Keys |-> discarded[k] + Held(advisor_hash, Freed(advisor_hash, U), k)]
  /\ holes' = holes \union Freed(advisor_hash, U)
  /\ UNCHANGED <<credits, refused>>

\* An advisor pass begins.
Evict == Shrink(advisor_hash_evict_stale(advisor_hash))

\* An index exists for k, which was a candidate and so is in the table.
RemoveIndexed(k) ==
  /\ \E s \in HashSlots : advisor_hash[s].key = k
  /\ Shrink(advisor_hash_remove(advisor_hash, k))

\* Time passes.
Tick ==
  /\ advisor_hash' = AgeTable(advisor_hash)
  /\ UNCHANGED <<credits, refused, discarded, holes>>

Next ==
  \/ \E k \in Keys : Reference(k) \/ RemoveIndexed(k)
  \/ Evict
  \/ Tick

Spec == Init /\ [][Next]_vars

\* Time passes, and the advisor pass keeps running.
FairSpec == Spec /\ WF_vars(Tick) /\ WF_vars(Evict)

-----------------------------------------------------------------------------
Entry ==
  [key : Keys, exec_count : Nat \ {0}, cumulative_rent : Nat, age : Ages]

\* A slot holds the zeroed entry or the statistics of a key that was seen.
TypeOK ==
  /\ advisor_hash \in [HashSlots -> Entry \union {Free}]
  /\ credits \in [Keys -> Nat] /\ refused \in [Keys -> Nat]
  /\ discarded \in [Keys -> Nat]
  /\ holes \subseteq HashSlots

\* advisor_hash_find_or_create finds the entry of a key, unless a slot before
\* it on the key's probe path has been freed: removal without tombstones is
\* the only thing that makes probing lose an entry or enter a key twice.
LookupFinds ==
  \A i \in HashSlots, k \in Keys :
    advisor_hash[ProbeAt(k, i)].key = k =>
      \/ \A j \in 0 .. i - 1 : ~StopsAt(advisor_hash, k, j)
      \/ \E j \in 0 .. i - 1 : ProbeAt(k, j) \in holes

\* Every reference is counted in exactly one entry until that entry is evicted
\* or removed, also when a key has several entries.
EvidenceConserved ==
  \A k \in Keys :
    credits[k] = Held(advisor_hash, HashSlots, k) + refused[k] + discarded[k]

\* Eviction bounds the table: when references stop, every entry goes, also
\* those that probing can no longer reach.
EventuallyForgotten == <>[](advisor_hash = EmptyTable)

=============================================================================
