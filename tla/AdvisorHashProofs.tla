------------------------- MODULE AdvisorHashProofs --------------------------
(***************************************************************************)
(* Proofs about AdvisorHash, for tables of every size, every set of keys   *)
(* and every sequence of calls.                                            *)
(***************************************************************************)
EXTENDS AdvisorHash, Remainders, WellFoundedInduction, TLAPS

\* A non-empty set of natural numbers has a least element.
LEMMA LeastElement ==
  ASSUME NEW S, S \subseteq Nat, S # {}
  PROVE  \E x \in S : \A y \in S : x <= y
<1>1. PICK x \in S : \A y \in S : <<y, x>> \notin OpToRel(<, Nat)
  BY WFMin, NatLessThanWellFounded
<1>2. \A y \in S : ~(y < x)
  BY <1>1 DEF OpToRel
<1> QED BY <1>2

-----------------------------------------------------------------------------
(* The probe. *)

\* Every step of a probe is at a slot.
LEMMA ProbeRange ==
  ASSUME NEW k \in Keys, NEW i \in HashSlots
  PROVE  advisor_hash_fn(k) \in HashSlots /\ ProbeAt(k, i) \in HashSlots
<1>1. \A n \in Int : n % HashSize \in HashSlots
  BY TableAssumption, SMT DEF HashSlots
<1>2. (k.relid * 31 + k.attnum) * 31 + k.usage_type \in Int
  BY HashAssumption, SMT
<1>3. advisor_hash_fn(k) \in HashSlots
  BY <1>1, <1>2 DEF advisor_hash_fn
<1>4. advisor_hash_fn(k) + i \in Int
  BY <1>3, TableAssumption DEF HashSlots
<1> QED BY <1>1, <1>3, <1>4 DEF ProbeAt

\* Two steps of a probe are at different slots.
LEMMA ProbeInjective ==
  ASSUME NEW k \in Keys, NEW i \in HashSlots, NEW j \in HashSlots, i # j
  PROVE  ProbeAt(k, i) # ProbeAt(k, j)
<1> DEFINE h == advisor_hash_fn(k)
<1>1. h \in Nat /\ i \in 0 .. HashSize - 1 /\ j \in 0 .. HashSize - 1
  BY ProbeRange, TableAssumption DEF HashSlots
<1> HIDE DEF h
<1>2. CASE i < j
  <2>1. h + i \in Nat /\ h + j \in Nat /\ h + i < h + j /\ (h + j) - (h + i) < HashSize
    BY <1>1, <1>2, TableAssumption
  <2>2. (h + i) % HashSize # (h + j) % HashSize
    BY <2>1, ModShort, TableAssumption
  <2> QED BY <2>2 DEF ProbeAt, h
<1>3. CASE j < i
  <2>1. h + i \in Nat /\ h + j \in Nat /\ h + j < h + i /\ (h + i) - (h + j) < HashSize
    BY <1>1, <1>3, TableAssumption
  <2>2. (h + j) % HashSize # (h + i) % HashSize
    BY <2>1, ModShort, TableAssumption
  <2> QED BY <2>2 DEF ProbeAt, h
<1> QED BY <1>1, <1>2, <1>3

\* A probe that does not give up ends at the first slot at which it can stop.
LEMMA ProbeStops ==
  ASSUME NEW T, NEW k \in Keys, ~GivesUp(T, k)
  PROVE  \E n \in HashSlots : /\ Probe(T, k) = ProbeAt(k, n)
                              /\ StopsAt(T, k, n)
                              /\ \A j \in 0 .. n - 1 : ~StopsAt(T, k, j)
<1> DEFINE S == {i \in HashSlots : StopsAt(T, k, i)}
<1>1. S # {}
  BY DEF GivesUp
<1>2. S \subseteq Nat
  BY TableAssumption DEF HashSlots
<1> HIDE DEF S
<1>3. PICK n \in S : \A y \in S : n <= y
  BY <1>1, <1>2, LeastElement
<1>4. n \in HashSlots /\ StopsAt(T, k, n)
  BY <1>3 DEF S
<1>5. ASSUME NEW j \in 0 .. n - 1 PROVE ~StopsAt(T, k, j)
  <2>1. j \in HashSlots /\ ~(n <= j)
    BY <1>4, <1>5, TableAssumption DEF HashSlots
  <2> QED BY <1>3, <2>1 DEF S
<1> DEFINE First(i) == StopsAt(T, k, i) /\ \A j \in 0 .. i - 1 : ~StopsAt(T, k, j)
<1>6. First(n)
  BY <1>4, <1>5
<1> HIDE DEF First
<1>7. First(CHOOSE i \in HashSlots : First(i)) /\ (CHOOSE i \in HashSlots : First(i)) \in HashSlots
  BY <1>4, <1>6
<1> QED BY <1>7 DEF First, Probe

-----------------------------------------------------------------------------
(* What the calls do to the slots. *)

\* The table, apart from the history variables.
TableInv == advisor_hash \in [HashSlots -> Entry \union {Free}]

\* A slot that is not used holds the zeroed entry, whose key is that of no column.
LEMMA KeyOrFree ==
  ASSUME NEW e \in Entry \union {Free}
  PROVE  /\ NoKey \notin Keys /\ Free.key = NoKey
         /\ e.key = NoKey => e = Free
         /\ e.key # NoKey => e.key \in Keys
<1>1. NoKey \notin Keys
  BY HashAssumption DEF NoKey
<1> QED BY <1>1 DEF Entry, Free

\* Crediting a reference leaves the table as it is or writes the key into one
\* slot, the first on its way that was not used or held the key.
LEMMA CreditWrites ==
  ASSUME TableInv, NEW k \in Keys, NEW age \in Ages
  PROVE  LET T == advisor_hash
             U == Credit(T, k, 1, age)
         IN  \/ U = T
             \/ \E n \in HashSlots :
                  /\ StopsAt(T, k, n) /\ \A j \in 0 .. n - 1 : ~StopsAt(T, k, j)
                  /\ U \in [HashSlots -> Entry \union {Free}]
                  /\ U[ProbeAt(k, n)].key = k
                  /\ \A s \in HashSlots : s # ProbeAt(k, n) => U[s] = T[s]
<1> DEFINE T == advisor_hash
           U == Credit(T, k, 1, age)
<1>1. CASE GivesUp(T, k)
  BY <1>1 DEF Credit
<1>2. CASE ~GivesUp(T, k)
  <2>1. PICK n \in HashSlots : /\ Probe(T, k) = ProbeAt(k, n)
                               /\ StopsAt(T, k, n)
                               /\ \A j \in 0 .. n - 1 : ~StopsAt(T, k, j)
    BY <1>2, ProbeStops
  <2> DEFINE s == ProbeAt(k, n)
             e == [key |-> k, exec_count |-> T[s].exec_count + 1,
                   cumulative_rent |-> T[s].cumulative_rent + 1, age |-> age]
  <2>2. s \in HashSlots
    BY ProbeRange
  <2>3. U = [T EXCEPT ![s] = e]
    BY <1>2, <2>1 DEF Credit
  <2>4. e \in Entry
    <3>1. T[s] \in Entry \union {Free}
      BY <2>2 DEF TableInv
    <3>2. T[s].exec_count \in Nat /\ T[s].cumulative_rent \in Nat
      BY <3>1 DEF Entry, Free
    <3>3. T[s].exec_count + 1 \in Nat \ {0} /\ T[s].cumulative_rent + 1 \in Nat
      BY <3>2
    <3> QED BY <3>3 DEF Entry
  <2>5. e.key = k
    OBVIOUS
  <2> HIDE DEF e, s, U
  <2>6. U[s].key = k /\ \A t \in HashSlots : t # s => U[t] = T[t]
    BY <2>2, <2>3, <2>5 DEF TableInv
  <2>7. U \in [HashSlots -> Entry \union {Free}]
    BY <2>2, <2>3, <2>4 DEF TableInv
  <2> QED BY <2>1, <2>6, <2>7 DEF s, U
<1> QED BY <1>1, <1>2

\* A table that another one follows by freeing slots.
Smaller(T, U) ==
  /\ U \in [HashSlots -> Entry \union {Free}]
  /\ \A s \in HashSlots : U[s] = T[s] \/ U[s] = Free

\* Removal only frees slots.
LEMMA RemoveFrees ==
  ASSUME TableInv, NEW k \in Keys
  PROVE  Smaller(advisor_hash, advisor_hash_remove(advisor_hash, k))
<1>1. CASE GivesUp(advisor_hash, k)
  BY <1>1 DEF advisor_hash_remove, Smaller, TableInv
<1>2. CASE ~GivesUp(advisor_hash, k)
  <2>1. Probe(advisor_hash, k) \in HashSlots
    BY <1>2, ProbeStops, ProbeRange
  <2>2. advisor_hash_remove(advisor_hash, k) = [advisor_hash EXCEPT ![Probe(advisor_hash, k)] = Free]
    BY <1>2 DEF advisor_hash_remove
  <2> QED BY <2>1, <2>2 DEF Smaller, TableInv
<1> QED BY <1>1, <1>2

\* So does eviction.
LEMMA EvictFrees ==
  ASSUME TableInv
  PROVE  Smaller(advisor_hash, advisor_hash_evict_stale(advisor_hash))
BY DEF advisor_hash_evict_stale, Smaller, TableInv

\* The passage of time changes no key.
LEMMA AgeKeeps ==
  ASSUME TableInv
  PROVE  /\ AgeTable(advisor_hash) \in [HashSlots -> Entry \union {Free}]
         /\ \A s \in HashSlots : AgeTable(advisor_hash)[s].key = advisor_hash[s].key
<1>1. ASSUME NEW s \in HashSlots, Used(advisor_hash, s)
      PROVE  /\ [advisor_hash[s] EXCEPT !.age = Older(@)] \in Entry
             /\ [advisor_hash[s] EXCEPT !.age = Older(@)].key = advisor_hash[s].key
  <2>1. advisor_hash[s] \in Entry
    BY <1>1, KeyOrFree DEF TableInv, Used
  <2>2. Older(advisor_hash[s].age) \in Ages
    BY <2>1, TableAssumption DEF Entry, Older, Ages
  <2> QED BY <2>1, <2>2 DEF Entry
<1> QED BY <1>1 DEF AgeTable, TableInv

-----------------------------------------------------------------------------
(* Lookup. *)

\* What LookupFinds says of one step of the probe for one key.
Found(T, H, k, i) ==
  \/ \A j \in 0 .. i - 1 : ~StopsAt(T, k, j)
  \/ \E j \in 0 .. i - 1 : ProbeAt(k, j) \in H

\* A reference is credited: the slot that is written was not used, and then the
\* probe has just passed everything before it, or it held the key already.
LEMMA CreditKeepsLookup ==
  ASSUME TableInv, LookupFinds, NEW q \in Keys, NEW age \in Ages,
         advisor_hash' = Credit(advisor_hash, q, 1, age), holes' = holes
  PROVE  TableInv' /\ LookupFinds'
<1> DEFINE T == advisor_hash
           U == advisor_hash'
<1>1. CASE U = T
  BY <1>1 DEF TableInv, LookupFinds, StopsAt, Used
<1>2. ASSUME NEW n \in HashSlots,
             StopsAt(T, q, n), \A j \in 0 .. n - 1 : ~StopsAt(T, q, j),
             U \in [HashSlots -> Entry \union {Free}],
             U[ProbeAt(q, n)].key = q,
             \A s \in HashSlots : s # ProbeAt(q, n) => U[s] = T[s]
      PROVE  TableInv' /\ LookupFinds'
  <2> DEFINE w == ProbeAt(q, n)
  <2>1. w \in HashSlots
    BY ProbeRange
  <2>2. q # NoKey
    BY KeyOrFree, <2>1 DEF TableInv
  <2>3. ASSUME NEW k \in Keys, NEW j \in HashSlots, ~StopsAt(T, k, j), ProbeAt(k, j) # w
        PROVE  ~StopsAt(U, k, j)
    BY <1>2, <2>3, ProbeRange DEF StopsAt, Used
  <2>4. ASSUME NEW k \in Keys, NEW j \in HashSlots, ~StopsAt(T, k, j), ProbeAt(k, j) = w
        PROVE  ~StopsAt(U, k, j)
    <3>1. T[w].key # NoKey /\ T[w].key # k
      BY <2>4 DEF StopsAt, Used
    <3>2. T[w].key = q
      BY <1>2, <3>1 DEF StopsAt, Used
    <3> QED BY <1>2, <2>2, <2>4, <3>1, <3>2 DEF StopsAt, Used
  <2>5. ASSUME NEW k \in Keys, NEW i \in HashSlots, U[ProbeAt(k, i)].key = k
        PROVE  Found(U, holes, k, i)
    <3>1. \A j \in 0 .. i - 1 : j \in HashSlots
      BY TableAssumption DEF HashSlots
    <3>2. CASE T[ProbeAt(k, i)].key = k
      <4>1. Found(T, holes, k, i)
        BY <3>2 DEF LookupFinds, Found
      <4> QED BY <2>3, <2>4, <3>1, <4>1 DEF Found
    <3>3. CASE T[ProbeAt(k, i)].key # k
      <4>1. ProbeAt(k, i) = w /\ k = q
        BY <1>2, <2>5, <3>3, ProbeRange
      <4>2. i = n
        BY <4>1, ProbeInjective
      <4> QED BY <1>2, <2>3, <2>4, <3>1, <4>1, <4>2 DEF Found
    <3> QED BY <3>2, <3>3
  <2> QED BY <1>2, <2>5 DEF TableInv, LookupFinds, Found
<1> QED BY <1>1, <1>2, CreditWrites

\* Slots are freed: the ones a probe passes are used still, or are holes now.
LEMMA ShrinkKeepsLookup ==
  ASSUME TableInv, LookupFinds, NEW U, Smaller(advisor_hash, U), Shrink(U)
  PROVE  TableInv' /\ LookupFinds'
<1> DEFINE T == advisor_hash
<1>1. advisor_hash' = U /\ holes' = holes \union Freed(T, U)
  BY DEF Shrink
<1>2. ASSUME NEW k \in Keys, NEW j \in HashSlots, ~StopsAt(T, k, j)
      PROVE  ~StopsAt(U, k, j) \/ ProbeAt(k, j) \in Freed(T, U)
  <2>1. ProbeAt(k, j) \in HashSlots
    BY ProbeRange
  <2>2. U[ProbeAt(k, j)] = T[ProbeAt(k, j)] \/ U[ProbeAt(k, j)].key = NoKey
    BY <2>1 DEF Smaller, Free
  <2> QED BY <1>2, <2>1, <2>2 DEF StopsAt, Used, Freed
<1>3. ASSUME NEW k \in Keys, NEW i \in HashSlots, U[ProbeAt(k, i)].key = k
      PROVE  Found(U, holes \union Freed(T, U), k, i)
  <2>1. T[ProbeAt(k, i)].key = k
    <3>1. ProbeAt(k, i) \in HashSlots
      BY ProbeRange
    <3>2. k # NoKey /\ Free.key = NoKey
      BY <3>1, KeyOrFree DEF TableInv
    <3> QED BY <1>3, <3>1, <3>2 DEF Smaller
  <2>2. Found(T, holes, k, i)
    BY <2>1 DEF LookupFinds, Found
  <2>3. \A j \in 0 .. i - 1 : j \in HashSlots
    BY TableAssumption DEF HashSlots
  <2> QED BY <1>2, <2>2, <2>3 DEF Found
<1> QED BY <1>1, <1>3 DEF Smaller, TableInv, LookupFinds, Found

\* advisor_hash_find_or_create finds the entry of a key, in a table of any size
\* and after any sequence of calls, unless a slot before it on the probe path was
\* freed: the missing tombstones are the only flaw of the probing.
THEOREM LookupAlwaysFinds == Spec => []LookupFinds
<1>1. Init => TableInv /\ LookupFinds
  <2> SUFFICES ASSUME Init PROVE TableInv /\ LookupFinds
    OBVIOUS
  <2>1. TableInv
    BY DEF Init, EmptyTable, TableInv
  <2>2. \A s \in HashSlots : advisor_hash[s].key = NoKey
    BY DEF Init, EmptyTable, Free
  <2>3. ASSUME NEW k \in Keys, NEW i \in HashSlots PROVE advisor_hash[ProbeAt(k, i)].key # k
    <3>1. ProbeAt(k, i) \in HashSlots
      BY ProbeRange
    <3> QED BY <2>1, <2>2, <3>1, KeyOrFree DEF TableInv
  <2> QED BY <2>1, <2>3 DEF LookupFinds
<1>2. TableInv /\ LookupFinds /\ [Next]_vars => TableInv' /\ LookupFinds'
  <2> SUFFICES ASSUME TableInv, LookupFinds, [Next]_vars PROVE TableInv' /\ LookupFinds'
    OBVIOUS
  <2>1. ASSUME NEW k \in Keys, Reference(k) PROVE TableInv' /\ LookupFinds'
    <3>1. PICK age \in Ages : advisor_hash' = Credit(advisor_hash, k, 1, age)
      BY <2>1 DEF Reference
    <3>2. holes' = holes
      BY <2>1 DEF Reference
    <3> QED BY <3>1, <3>2, CreditKeepsLookup
  <2>2. ASSUME NEW k \in Keys, RemoveIndexed(k) PROVE TableInv' /\ LookupFinds'
    BY <2>2, RemoveFrees, ShrinkKeepsLookup DEF RemoveIndexed
  <2>3. CASE Evict
    BY <2>3, EvictFrees, ShrinkKeepsLookup DEF Evict
  <2>4. CASE Tick
    <3>1. advisor_hash' = AgeTable(advisor_hash) /\ holes' = holes
      BY <2>4 DEF Tick
    <3>2. TableInv' /\ \A s \in HashSlots : advisor_hash'[s].key = advisor_hash[s].key
      BY <3>1, AgeKeeps DEF TableInv
    <3>3. \A k \in Keys, j \in HashSlots : StopsAt(advisor_hash, k, j)' <=> StopsAt(advisor_hash, k, j)
      BY <3>2, ProbeRange DEF StopsAt, Used
    <3>4. \A i \in HashSlots : \A j \in 0 .. i - 1 : j \in HashSlots
      BY TableAssumption DEF HashSlots
    <3> QED BY <3>1, <3>2, <3>3, <3>4, ProbeRange DEF LookupFinds
  <2>5. CASE UNCHANGED vars
    BY <2>5 DEF vars, TableInv, LookupFinds, StopsAt, Used
  <2> QED BY <2>1, <2>2, <2>3, <2>4, <2>5 DEF Next
<1> QED BY <1>1, <1>2, PTL DEF Spec
=============================================================================
