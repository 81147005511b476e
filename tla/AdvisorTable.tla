---------------------------- MODULE AdvisorTable ----------------------------
(***************************************************************************)
(* The worker's table of column statistics: the static array advisor_hash  *)
(* with advisor_hash_used, and the functions on it (index_advisor.c).      *)
(*                                                                         *)
(* A table is a function from slots to entries.  A slot that is not used   *)
(* holds Free, the zeroed entry the code leaves there.  last_seen is kept  *)
(* as the entry's age, now - last_seen, counted in some unit of time and   *)
(* no further than the first age that is past the workload window.         *)
(***************************************************************************)
EXTENDS Integers

CONSTANTS
  HashSize,   \* ADVISOR_HASH_SIZE, a power of two
  Window      \* autoindex.workload_window_days, in that unit: the last age kept

ASSUME TableAssumption ==
  /\ HashSize \in Nat \ {0}
  /\ Window \in Nat

\* ColUsageType: the character codes take part in the hash.
USAGE_PREDICATE == 112
USAGE_SORT == 115
USAGE_JOIN == 106

HashSlots == 0 .. HashSize - 1

\* The ages that the eviction tells apart.
Ages == 0 .. Window + 1

Older(age) == IF age > Window THEN age ELSE age + 1

NoKey == [relid |-> 0, attnum |-> 0, usage_type |-> 0]

Free == [key |-> NoKey, exec_count |-> 0, cumulative_rent |-> 0, age |-> 0]

EmptyTable == [s \in HashSlots |-> Free]

Used(T, s) == T[s].key # NoKey

\* The code computes modulo 2^32, of which HashSize is a divisor.
advisor_hash_fn(k) == ((k.relid * 31 + k.attnum) * 31 + k.usage_type) % HashSize

-----------------------------------------------------------------------------
(* Linear probing. *)

\* The slot probed after i steps from the key's home slot.
ProbeAt(k, i) == (advisor_hash_fn(k) + i) % HashSize

\* The probe loops stop at a slot that is not used or holds the key.
StopsAt(T, k, i) == ~Used(T, ProbeAt(k, i)) \/ T[ProbeAt(k, i)].key = k

\* The loops give up when they are back at the home slot.
GivesUp(T, k) == \A i \in HashSlots : ~StopsAt(T, k, i)

\* A probe that starts one slot after the home slot.
MutantProbe(T, k) ==
  LET n == CHOOSE i \in HashSlots :
             /\ StopsAt(T, k, (i + 1) % HashSize)
             /\ \A j \in 0 .. i - 1 : ~StopsAt(T, k, (j + 1) % HashSize)
  IN  ProbeAt(k, (n + 1) % HashSize)

\* The slot at which they stop: the first on the way.
Probe(T, k) ==
  ProbeAt(k, CHOOSE i \in HashSlots :
               StopsAt(T, k, i) /\ \A j \in 0 .. i - 1 : ~StopsAt(T, k, j))

-----------------------------------------------------------------------------
(* The operations. *)

\* An entry found in use is started afresh.
MutantCredit(T, k, cost, age) ==
  IF GivesUp(T, k) THEN T
  ELSE [T EXCEPT ![Probe(T, k)] = [key |-> k, exec_count |-> 1,
                                   cumulative_rent |-> cost, age |-> age]]

\* last_seen is set only when the entry is created.
MutantCreditSeen(T, k, cost, age) ==
  IF GivesUp(T, k) THEN T
  ELSE LET s == Probe(T, k)
       IN  [T EXCEPT ![s] = [key |-> k,
                             exec_count |-> @.exec_count + 1,
                             cumulative_rent |-> @.cumulative_rent + cost,
                             age |-> IF Used(T, s) THEN @.age ELSE age]]

\* advisor_hash_find_or_create, and what drain_ring_buffer does with the entry
\* it returns.  A full table returns NULL and the reference is not counted.
Credit(T, k, cost, age) ==
  IF GivesUp(T, k) THEN T
  ELSE LET s == Probe(T, k)
       IN  [T EXCEPT ![s] = [key |-> k,
                             exec_count |-> @.exec_count + 1,
                             cumulative_rent |-> @.cumulative_rent + cost,
                             age |-> age]]

\* The used flag is cleared without the memset: the slot keeps the old counts,
\* which the next entry in it starts from.
MutantRemove(T, k) ==
  IF GivesUp(T, k) THEN T
  ELSE [T EXCEPT ![Probe(T, k)] = [@ EXCEPT !.key = NoKey]]

\* advisor_hash_remove: frees the first copy on the probe path, if any.
advisor_hash_remove(T, k) ==
  IF GivesUp(T, k) THEN T ELSE [T EXCEPT ![Probe(T, k)] = Free]

\* advisor_hash_evict_stale that looks keys up instead of walking over slots.
MutantEvictStale(T) ==
  [s \in HashSlots |->
     IF Used(T, s) /\ T[s].age > Window /\ Probe(T, T[s].key) = s THEN Free ELSE T[s]]

\* advisor_hash_evict_stale.  last_seen is never 0 in a used entry.
advisor_hash_evict_stale(T) ==
  [s \in HashSlots |-> IF Used(T, s) /\ T[s].age > Window THEN Free ELSE T[s]]

\* Time passes.
AgeTable(T) ==
  [s \in HashSlots |->
     IF Used(T, s) THEN [T[s] EXCEPT !.age = Older(@)] ELSE T[s]]
=============================================================================
