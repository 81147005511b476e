------------------------ MODULE WorkloadRingProofs --------------------------
(***************************************************************************)
(* Proofs about WorkloadRing, for every ring size, every set of backends   *)
(* and every number of pushes.                                             *)
(***************************************************************************)
EXTENDS WorkloadRing, Remainders, FiniteSetTheorems, TLAPS

-----------------------------------------------------------------------------
(* Type correctness. *)

\* A remainder of a natural number is a slot of the ring.
LEMMA SlotRange ==
  ASSUME NEW n \in Nat
  PROVE  Slot(n) \in 0 .. RingSize - 1
  BY RingAssumption, SMT DEF Slot

\* The counters, slots and locals of the ring keep their types in every
\* behaviour, with loads in either order.
THEOREM TypeCorrect == Spec => []TypeOK
<1>1. Init => TypeOK
  BY RingAssumption DEF Init, TypeOK, Fields, Zeroed
<1>2. TypeOK /\ [Next]_vars => TypeOK'
  <2> SUFFICES ASSUME TypeOK, [Next]_vars PROVE TypeOK'
    OBVIOUS
  <2> USE DEF TypeOK, ringVars, pushVars, drainVars
  <2>1. ASSUME NEW b \in Backends, BeginPush(b) PROVE TypeOK'
    BY <2>1, RingAssumption DEF BeginPush
  <2>2. ASSUME NEW b \in Backends, LoadTail(b) PROVE TypeOK'
    BY <2>2 DEF LoadTail
  <2>3. ASSUME NEW b \in Backends, LoadHead(b) PROVE TypeOK'
    BY <2>3 DEF LoadHead, Verdict
  <2>4. ASSUME NEW b \in Backends, LoadHeadEarly(b) PROVE TypeOK'
    BY <2>4 DEF LoadHeadEarly
  <2>5. ASSUME NEW b \in Backends, LoadTailLate(b) PROVE TypeOK'
    BY <2>5 DEF LoadTailLate, Verdict
  <2>6. ASSUME NEW b \in Backends, DropEntry(b) PROVE TypeOK'
    BY <2>6 DEF DropEntry
  <2>7. ASSUME NEW b \in Backends, ClaimSlot(b) PROVE TypeOK'
    BY <2>7 DEF ClaimSlot
  <2>8. ASSUME NEW b \in Backends, RetryClaim(b) PROVE TypeOK'
    BY <2>8 DEF RetryClaim
  <2>9. ASSUME NEW b \in Backends, CopyField(b) PROVE TypeOK'
    <3>1. Slot(myTail[b]) \in 0 .. RingSize - 1
      BY SlotRange
    <3> QED BY <2>9, <3>1 DEF CopyField
  <2>10. ASSUME NEW b \in Backends, CountWritten(b) PROVE TypeOK'
    BY <2>10 DEF CountWritten
  <2>11. CASE DrainStart
    BY <2>11 DEF DrainStart
  <2>12. CASE DrainCols
    <3>1. Slot(drainHead) \in 0 .. RingSize - 1
      BY SlotRange, SMTT(30)
    <3> QED BY <2>12, <3>1 DEF DrainCols, Fields
  <2>13. CASE DrainCost
    <3>1. Slot(drainHead) \in 0 .. RingSize - 1
      BY SlotRange, SMTT(30)
    <3>2. <<gotCols, entries[Slot(drainHead)]["cost"]>> \in Int \X Int
      BY <3>1 DEF Fields
    <3> QED BY <2>13, <3>2 DEF DrainCost
  <2>14. CASE DrainFinish
    BY <2>14 DEF DrainFinish
  <2>15. CASE UNCHANGED vars
    BY <2>15 DEF vars
  <2> QED
    BY <2>1, <2>2, <2>3, <2>4, <2>5, <2>6, <2>7, <2>8, <2>9, <2>10, <2>11,
       <2>12, <2>13, <2>14, <2>15 DEF Next, Push, Drain
<1> QED BY <1>1, <1>2, PTL DEF Spec

-----------------------------------------------------------------------------
(* The ring is never overfilled, when loads happen in program order. *)

\* What a backend in the middle of ring_buffer_push knows.  Its tail is at most
\* the shared one; if it is still the shared one, so that the compare-and-swap
\* would succeed, the full test it passed is still good: head only advances.
PushInv ==
  \A b \in Backends :
    /\ pc[b] # "loadTail"
    /\ pc[b] \in {"loadHead", "drop", "cas"} => myTail[b] <= tail
    /\ pc[b] = "cas" =>
         /\ myHead[b] <= head
         /\ myTail[b] = tail => tail + 1 - myHead[b] < RingSize
    /\ pc[b] = "copy" => myTail[b] < tail

\* What drain_ring_buffer knows: the positions it walks over have been claimed.
DrainInv ==
  drainPc # "idle" =>
    /\ head <= drainHead /\ drainHead <= drainTail /\ drainTail <= tail
    /\ drainPc = "cost" => drainHead < drainTail

\* The inductive invariant.
CountersInv == TypeOK /\ RingBound /\ PushInv /\ DrainInv

\* The full test is right: it fails only if there is room for one more.
LEMMA FullTest ==
  ASSUME NEW t \in Nat, NEW h \in Nat, h <= t, t - h < RingSize, ~LooksFull(t, h)
  PROVE  t + 1 - h < RingSize
<1>1. SUFFICES ASSUME t + 1 = h + RingSize PROVE FALSE
  BY RingAssumption, SMT
<1>2. (h + RingSize) % RingSize = h % RingSize
  BY ModShift, RingAssumption
<1> QED BY <1>1, <1>2 DEF LooksFull, Slot

\* CountersInv is preserved by every step of push and drain.
LEMMA CountersStep ==
  ASSUME LoadsInOrder, CountersInv, TypeOK', [Next]_vars
  PROVE  CountersInv'
<1> USE DEF CountersInv, RingBound, PushInv, DrainInv, TypeOK, ringVars, pushVars, drainVars
<1>1. ASSUME NEW b \in Backends, BeginPush(b) PROVE CountersInv'
  BY <1>1 DEF BeginPush
<1>2. ASSUME NEW b \in Backends, LoadTail(b) PROVE CountersInv'
  BY <1>2 DEF LoadTail
<1>3. ASSUME NEW b \in Backends, LoadHead(b) PROVE CountersInv'
  <2>1. myTail[b] = tail /\ ~LooksFull(tail, head) => tail + 1 - head < RingSize
    BY FullTest
  <2>2. RingBound' /\ DrainInv'
    BY <1>3 DEF LoadHead
  <2>3. PushInv'
    BY <1>3, <2>1 DEF LoadHead, Verdict
  <2> QED BY <2>2, <2>3
<1>4. ASSUME NEW b \in Backends, LoadHeadEarly(b) PROVE CountersInv'
  BY <1>4 DEF LoadHeadEarly
<1>5. ASSUME NEW b \in Backends, LoadTailLate(b) PROVE CountersInv'
  BY <1>5 DEF LoadTailLate
<1>6. ASSUME NEW b \in Backends, DropEntry(b) PROVE CountersInv'
  BY <1>6 DEF DropEntry
<1>7. ASSUME NEW b \in Backends, ClaimSlot(b) PROVE CountersInv'
  <2>1. RingBound'
    BY <1>7, RingAssumption DEF ClaimSlot
  <2>2. PushInv'
    <3>1. tail \in Nat /\ tail' = tail + 1 /\ UNCHANGED <<head, myTail, myHead>>
      BY <1>7 DEF ClaimSlot
    <3>2. \A c \in Backends : pc'[c] = (IF c = b THEN "copy" ELSE pc[c]) /\ myTail[c] \in Nat
      BY <1>7 DEF ClaimSlot
    <3>3. myTail[b] = tail
      BY <1>7 DEF ClaimSlot
    <3>4. PushInv
      BY DEF CountersInv
    <3> HIDE DEF CountersInv, RingBound, DrainInv, TypeOK
    <3> QED BY <3>1, <3>2, <3>3, <3>4
  <2>3. DrainInv'
    BY <1>7 DEF ClaimSlot
  <2> QED BY <2>1, <2>2, <2>3
<1>8. ASSUME NEW b \in Backends, RetryClaim(b) PROVE CountersInv'
  BY <1>8 DEF RetryClaim
<1>9. ASSUME NEW b \in Backends, CopyField(b) PROVE CountersInv'
  BY <1>9 DEF CopyField
<1>10. ASSUME NEW b \in Backends, CountWritten(b) PROVE CountersInv'
  BY <1>10 DEF CountWritten
<1>11. CASE DrainStart
  BY <1>11 DEF DrainStart
<1>12. CASE DrainCols
  BY <1>12 DEF DrainCols
<1>13. CASE DrainCost
  BY <1>13 DEF DrainCost
<1>14. CASE DrainFinish
  <2>1. RingBound' /\ DrainInv'
    BY <1>14, RingAssumption DEF DrainFinish
  <2>2. PushInv'
    BY <1>14, RingAssumption DEF DrainFinish
  <2> QED BY <2>1, <2>2
<1>15. CASE UNCHANGED vars
  BY <1>15 DEF vars
<1> QED
  BY <1>1, <1>2, <1>3, <1>4, <1>5, <1>6, <1>7, <1>8, <1>9, <1>10, <1>11,
     <1>12, <1>13, <1>14, <1>15 DEF Next, Push, Drain

\* CountersInv holds initially.
LEMMA CountersInit == Init => CountersInv
  BY RingAssumption
     DEF Init, CountersInv, RingBound, PushInv, DrainInv, TypeOK, Fields, Zeroed

\* The inductive invariant holds in every behaviour.
LEMMA CountersAlways ==
  ASSUME LoadsInOrder
  PROVE  Spec => []CountersInv
<1>1. CountersInv /\ TypeOK' /\ [Next]_vars => CountersInv'
  BY CountersStep
<1> QED BY <1>1, CountersInit, TypeCorrect, PTL DEF Spec

\* With loads in program order ring_buffer_push and drain_ring_buffer keep
\* at most RingSize - 1 positions outstanding, for any number of backends.
THEOREM RingNeverOverfull ==
  ASSUME LoadsInOrder
  PROVE  Spec => []RingBound
<1>1. CountersInv => RingBound
  BY DEF CountersInv
<1> QED BY <1>1, CountersAlways, PTL

-----------------------------------------------------------------------------
(* The compare-and-swap hands every position to one backend only. *)

\* A position being copied was handed out before.
ClaimInv ==
  /\ ClaimsExclusive
  /\ \A b \in Backends : pc[b] = "copy" => myTail[b] < tail

\* No two backends copy for the same position, whatever the order of loads.
THEOREM ClaimsAlwaysExclusive == Spec => []ClaimsExclusive
<1>1. Init => ClaimInv
  BY DEF Init, ClaimInv, ClaimsExclusive
<1>2. TypeOK /\ ClaimInv /\ [Next]_vars => ClaimInv'
  <2> SUFFICES ASSUME TypeOK, ClaimInv, [Next]_vars PROVE ClaimInv'
    OBVIOUS
  <2> USE DEF TypeOK, ClaimInv, ClaimsExclusive, ringVars, pushVars, drainVars
  <2>1. ASSUME NEW b \in Backends, BeginPush(b) PROVE ClaimInv'
    BY <2>1 DEF BeginPush
  <2>2. ASSUME NEW b \in Backends, LoadTail(b) PROVE ClaimInv'
    BY <2>2 DEF LoadTail
  <2>3. ASSUME NEW b \in Backends, LoadHead(b) PROVE ClaimInv'
    BY <2>3 DEF LoadHead, Verdict
  <2>4. ASSUME NEW b \in Backends, LoadHeadEarly(b) PROVE ClaimInv'
    BY <2>4 DEF LoadHeadEarly
  <2>5. ASSUME NEW b \in Backends, LoadTailLate(b) PROVE ClaimInv'
    BY <2>5 DEF LoadTailLate, Verdict
  <2>6. ASSUME NEW b \in Backends, DropEntry(b) PROVE ClaimInv'
    BY <2>6 DEF DropEntry
  <2>7. ASSUME NEW b \in Backends, ClaimSlot(b) PROVE ClaimInv'
    BY <2>7 DEF ClaimSlot
  <2>8. ASSUME NEW b \in Backends, RetryClaim(b) PROVE ClaimInv'
    BY <2>8 DEF RetryClaim
  <2>9. ASSUME NEW b \in Backends, CopyField(b) PROVE ClaimInv'
    BY <2>9 DEF CopyField
  <2>10. ASSUME NEW b \in Backends, CountWritten(b) PROVE ClaimInv'
    BY <2>10 DEF CountWritten
  <2>11. CASE Drain \/ UNCHANGED vars
    BY <2>11, SMTT(30) DEF Drain, DrainStart, DrainCols, DrainCost, DrainFinish, vars
  <2> QED
    BY <2>1, <2>2, <2>3, <2>4, <2>5, <2>6, <2>7, <2>8, <2>9, <2>10, <2>11
       DEF Next, Push
<1>3. ClaimInv => ClaimsExclusive
  BY DEF ClaimInv
<1> QED BY <1>1, <1>2, <1>3, TypeCorrect, PTL DEF Spec

\* Backends copying for positions that are not retired copy into different
\* slots: the positions differ by less than RingSize.
THEOREM LiveSlotsAlwaysExclusive ==
  ASSUME LoadsInOrder
  PROVE  Spec => []LiveSlotsExclusive
<1>1. CountersInv /\ ClaimsExclusive => LiveSlotsExclusive
  <2> SUFFICES ASSUME CountersInv, ClaimsExclusive,
                      NEW b \in Backends, NEW c \in Backends, b # c,
                      Copying(b), Copying(c),
                      myTail[b] >= head, myTail[c] >= head
               PROVE  Slot(myTail[b]) # Slot(myTail[c])
    BY DEF LiveSlotsExclusive
  <2>1. /\ myTail[b] \in Nat /\ myTail[c] \in Nat
        /\ head \in Nat /\ tail \in Nat /\ RingSize \in Nat \ {0}
    BY RingAssumption DEF CountersInv, TypeOK
  <2>2. myTail[b] < tail /\ myTail[c] < tail /\ myTail[b] # myTail[c]
    BY DEF CountersInv, PushInv, ClaimsExclusive, Copying
  <2>3. tail - head < RingSize
    BY DEF CountersInv, RingBound
  <2>4. CASE myTail[b] < myTail[c]
    BY <2>1, <2>2, <2>3, <2>4, ModShort DEF Slot
  <2>5. CASE myTail[c] < myTail[b]
    BY <2>1, <2>2, <2>3, <2>5, ModShort DEF Slot
  <2> QED BY <2>1, <2>2, <2>4, <2>5
<1> QED BY <1>1, CountersAlways, ClaimsAlwaysExclusive, PTL

-----------------------------------------------------------------------------
(* The statistics counters add up. *)

\* total_written and the pushes in the middle of their memcpy make up tail.
THEOREM WrittenAlwaysAccounted == Spec => []WrittenAccounting
<1> DEFINE InCopy == {b \in Backends : pc[b] = "copy"}
<1>1. Init => WrittenAccounting
  <2> SUFFICES ASSUME Init PROVE WrittenAccounting
    OBVIOUS
  <2>1. InCopy = {}
    BY DEF Init
  <2> QED BY <2>1, FS_EmptySet DEF Init, WrittenAccounting
<1>2. TypeOK /\ WrittenAccounting /\ [Next]_vars => WrittenAccounting'
  <2> SUFFICES ASSUME TypeOK, WrittenAccounting, [Next]_vars
               PROVE  WrittenAccounting'
    OBVIOUS
  <2>1. IsFiniteSet(InCopy) /\ Cardinality(InCopy) \in Nat
    BY RingAssumption, FS_Subset, FS_CardinalityType
  <2> USE DEF TypeOK, ringVars, pushVars, drainVars
  <2>2. ASSUME NEW b \in Backends, ClaimSlot(b) PROVE WrittenAccounting'
    <3>1. InCopy' = InCopy \union {b} /\ b \notin InCopy
      BY <2>2 DEF ClaimSlot
    <3>2. Cardinality(InCopy') = Cardinality(InCopy) + 1
      BY <2>1, <3>1, FS_AddElement
    <3> QED BY <2>1, <2>2, <3>2 DEF ClaimSlot, WrittenAccounting
  <2>3. ASSUME NEW b \in Backends, CountWritten(b) PROVE WrittenAccounting'
    <3>1. InCopy' = InCopy \ {b} /\ b \in InCopy
      BY <2>3 DEF CountWritten
    <3>2. Cardinality(InCopy \ {b}) = Cardinality(InCopy) - 1
      <4> HIDE DEF InCopy
      <4>1. Cardinality(InCopy \ {b}) =
              IF b \in InCopy THEN Cardinality(InCopy) - 1 ELSE Cardinality(InCopy)
        BY <2>1, FS_RemoveElement, Zenon
      <4> QED BY <3>1, <4>1
    <3>3. Cardinality(InCopy') = Cardinality(InCopy) - 1
      <4> HIDE DEF InCopy
      <4> QED BY <3>1, <3>2
    <3> QED BY <2>1, <2>3, <3>3 DEF CountWritten, WrittenAccounting
  <2>4. ASSUME NEW b \in Backends,
               BeginPush(b) \/ LoadTail(b) \/ LoadHead(b) \/ LoadHeadEarly(b)
                 \/ LoadTailLate(b) \/ DropEntry(b) \/ RetryClaim(b) \/ CopyField(b)
        PROVE  WrittenAccounting'
    <3>1. ASSUME NEW c \in Backends PROVE pc'[c] = "copy" <=> pc[c] = "copy"
      BY <2>4 DEF BeginPush, LoadTail, LoadHead, LoadHeadEarly, LoadTailLate,
                  DropEntry, RetryClaim, CopyField, Verdict
    <3>2. tail' = tail /\ total_written' = total_written
      BY <2>4 DEF BeginPush, LoadTail, LoadHead, LoadHeadEarly, LoadTailLate,
                  DropEntry, RetryClaim, CopyField
    <3>3. InCopy' = InCopy
      BY <3>1
    <3> QED BY <3>2, <3>3 DEF WrittenAccounting
  <2>5. CASE Drain \/ UNCHANGED vars
    BY <2>5 DEF Drain, DrainStart, DrainCols, DrainCost, DrainFinish, vars,
                WrittenAccounting
  <2> QED BY <2>2, <2>3, <2>4, <2>5 DEF Next, Push
<1> QED BY <1>1, <1>2, TypeCorrect, PTL DEF Spec

-----------------------------------------------------------------------------
(* The counters implement TicketWindow. *)

\* Every step of push and drain is a step of the window or leaves it alone:
\* a claim is made only while there is room, and head never passes tail.
THEOREM RingImplementsWindow ==
  ASSUME LoadsInOrder
  PROVE  Spec => RefinesWindow
<1>1. Init => Window!WindowInit
  BY DEF Init, Window!WindowInit
<1>2. CountersInv /\ [Next]_vars => [Window!WindowNext]_(Window!windowVars)
  <2> SUFFICES ASSUME CountersInv, [Next]_vars
               PROVE  [Window!WindowNext]_(Window!windowVars)
    OBVIOUS
  <2> USE DEF Window!windowVars, ringVars, pushVars, drainVars
  <2>1. ASSUME NEW b \in Backends, ClaimSlot(b) PROVE Window!HandOut
    <3>1. tail - head < RingSize - 1
      BY <2>1, RingAssumption DEF ClaimSlot, CountersInv, PushInv, TypeOK
    <3> QED BY <2>1, <3>1 DEF ClaimSlot, Window!HandOut
  <2>2. ASSUME NEW b \in Backends, DropEntry(b) PROVE Window!TurnAway
    BY <2>2 DEF DropEntry, Window!TurnAway
  <2>3. CASE DrainFinish
    <3>1. drainHead \in head .. tail /\ head \in Nat /\ tail \in Nat
      BY <2>3 DEF DrainFinish, CountersInv, DrainInv, TypeOK
    <3>2. CASE drainHead = head
      BY <2>3, <3>2 DEF DrainFinish
    <3>3. CASE drainHead # head
      BY <2>3, <3>1, <3>3 DEF DrainFinish, Window!WindowNext, Window!Retire
    <3> QED BY <3>2, <3>3
  <2>4. ASSUME NEW b \in Backends,
               BeginPush(b) \/ LoadTail(b) \/ LoadHead(b) \/ LoadHeadEarly(b)
                 \/ LoadTailLate(b) \/ RetryClaim(b) \/ CopyField(b) \/ CountWritten(b)
        PROVE  UNCHANGED Window!windowVars
    BY <2>4 DEF BeginPush, LoadTail, LoadHead, LoadHeadEarly, LoadTailLate,
                RetryClaim, CopyField, CountWritten
  <2>5. CASE DrainStart \/ DrainCols \/ DrainCost \/ UNCHANGED vars
    BY <2>5 DEF DrainStart, DrainCols, DrainCost, vars
  <2> QED
    BY <2>1, <2>2, <2>3, <2>4, <2>5 DEF Next, Push, Drain, Window!WindowNext
<1> QED
  BY <1>1, <1>2, CountersAlways, PTL DEF Spec, RefinesWindow, Window!WindowSpec

-----------------------------------------------------------------------------
(* Misreading is always a consequence of overtaking a producer. *)

\* The number of positions the drain has credited so far.
Credited == IF drainPc = "idle" THEN head ELSE drainHead

\* Position p shares its slot with a position, p or an earlier one, that the
\* drain read too early.
Tainted(p) == \E j \in overtaken : j <= p /\ Slot(j) = Slot(p)

\* The bytes of a claimed position that is not yet credited are in its slot,
\* or are still to be copied, or the slot is tainted.
SlotInv ==
  \A p \in 0 .. tail, f \in Fields :
    (Credited <= p /\ p < tail) =>
      \/ entries[Slot(p)][f] = p
      \/ \E b \in Backends : pc[b] = "copy" /\ myTail[b] = p /\ f \notin copied[b]
      \/ Tainted(p)

\* A producer still copying for a position the drain has read was overtaken.
OvertakenInv ==
  \A b \in Backends :
    /\ Copying(b) /\ myTail[b] < Credited => myTail[b] \in overtaken
    /\ Copying(b) /\ drainPc = "cost" /\ myTail[b] = drainHead => drainHead \in overtaken

\* What has been credited, and the columns just read, are right or tainted.
CreditInv ==
  /\ Len(fed) = Credited
  /\ drainPc = "cost" => gotCols = drainHead \/ Tainted(drainHead)
  /\ MisreadsAreOvertakes

MisreadInv == SlotInv /\ OvertakenInv /\ CreditInv

\* Steps that leave the slots, the counters, the drain and all backends inside
\* the memcpy alone preserve MisreadInv.
LEMMA MisreadFrame ==
  ASSUME MisreadInv,
         UNCHANGED <<head, tail, entries, drainVars>>,
         \A c \in Backends :
           /\ pc'[c] = "copy" <=> pc[c] = "copy"
           /\ pc[c] = "copy" => myTail'[c] = myTail[c] /\ copied'[c] = copied[c]
  PROVE  MisreadInv'
<1> USE DEF drainVars
<1>1. Credited' = Credited /\ \A p : Tainted(p)' <=> Tainted(p)
  BY DEF Credited, Tainted
<1>2. SlotInv'
  BY <1>1 DEF MisreadInv, SlotInv
<1>3. OvertakenInv'
  BY <1>1 DEF MisreadInv, OvertakenInv, Copying
<1>4. CreditInv'
  BY <1>1 DEF MisreadInv, CreditInv, MisreadsAreOvertakes
<1> QED BY <1>2, <1>3, <1>4 DEF MisreadInv

\* The drain has credited no more than what was claimed, and at least what it
\* has published.
LEMMA CreditedRange ==
  ASSUME CountersInv
  PROVE  /\ Credited \in Nat /\ head <= Credited /\ Credited <= tail
         /\ drainPc = "cost" => Credited < tail
  BY DEF CountersInv, TypeOK, RingBound, DrainInv, Credited

\* A claim adds a position whose bytes are all still to be copied.
LEMMA MisreadClaim ==
  ASSUME CountersInv, MisreadInv, NEW b \in Backends, ClaimSlot(b)
  PROVE  MisreadInv'
<1> USE DEF ringVars, pushVars, drainVars, TypeOK
<1>1. Credited' = Credited /\ \A p : Tainted(p)' <=> Tainted(p)
  BY DEF Credited, Tainted, ClaimSlot
<1>2. /\ pc'[b] = "copy" /\ myTail'[b] = tail /\ copied'[b] = {}
      /\ tail' = tail + 1 /\ tail \in Nat /\ entries' = entries
      /\ \A c \in Backends \ {b} :
            pc'[c] = pc[c] /\ myTail'[c] = myTail[c] /\ copied'[c] = copied[c]
      /\ pc[b] # "copy"
  BY DEF ClaimSlot, CountersInv
<1>3. SlotInv'
  <2> SUFFICES ASSUME NEW p \in 0 .. tail', NEW f \in Fields,
                      Credited' <= p, p < tail'
               PROVE  \/ entries'[Slot(p)][f] = p
                      \/ \E c \in Backends : pc'[c] = "copy" /\ myTail'[c] = p /\ f \notin copied'[c]
                      \/ Tainted(p)'
    BY DEF SlotInv
  <2>1. CASE p = tail
    BY <1>2, <2>1
  <2>2. CASE p # tail
    <3>1. p \in 0 .. tail /\ p < tail
      BY <1>2, <2>2
    <3>2. \/ entries[Slot(p)][f] = p
          \/ \E c \in Backends : pc[c] = "copy" /\ myTail[c] = p /\ f \notin copied[c]
          \/ Tainted(p)
      BY <1>1, <3>1 DEF MisreadInv, SlotInv
    <3> QED BY <1>1, <1>2, <3>2
  <2> QED BY <2>1, <2>2
<1>4. OvertakenInv'
  <2>1. drainPc' = drainPc /\ drainHead' = drainHead /\ overtaken' = overtaken
    BY DEF ClaimSlot
  <2>2. ~(tail < Credited) /\ (drainPc = "cost" => tail # drainHead)
    BY CreditedRange DEF Credited, CountersInv
  <2> QED BY <1>1, <1>2, <2>1, <2>2 DEF MisreadInv, OvertakenInv, Copying
<1>5. CreditInv'
  <2>1. UNCHANGED <<fed, drainPc, drainHead, gotCols, overtaken>>
    BY DEF ClaimSlot
  <2> QED BY <1>1, <2>1 DEF MisreadInv, CreditInv, MisreadsAreOvertakes
<1> QED BY <1>3, <1>4, <1>5 DEF MisreadInv

\* A piece of memcpy lands in the slot of another uncredited position only if
\* the copying backend was overtaken before.
LEMMA MisreadCopy ==
  ASSUME CountersInv, ClaimsExclusive, MisreadInv, NEW b \in Backends, CopyField(b)
  PROVE  MisreadInv'
<1> USE DEF ringVars, pushVars, drainVars, TypeOK
<1>1. Credited' = Credited /\ \A p : Tainted(p)' <=> Tainted(p)
  BY DEF Credited, Tainted, CopyField
<1>2. PICK g \in Fields \ copied[b] :
        /\ pc[b] = "copy"
        /\ entries' = [entries EXCEPT ![Slot(myTail[b])][g] = myTail[b]]
        /\ copied' = [copied EXCEPT ![b] = @ \union {g}]
        /\ UNCHANGED <<head, tail, total_written, total_dropped>>
        /\ UNCHANGED <<pc, myTail, myHead, pushes, drainVars>>
  BY DEF CopyField
<1>3. myTail[b] \in Nat /\ myTail[b] < tail /\ tail \in Nat /\ head \in Nat
      /\ RingSize \in Nat \ {0} /\ tail - head < RingSize
  BY <1>2, RingAssumption DEF CountersInv, PushInv, RingBound
<1>4. SlotInv'
  <2> SUFFICES ASSUME NEW p \in 0 .. tail, NEW f \in Fields,
                      Credited <= p, p < tail
               PROVE  \/ entries'[Slot(p)][f] = p
                      \/ \E c \in Backends : pc[c] = "copy" /\ myTail[c] = p /\ f \notin copied'[c]
                      \/ Tainted(p)
    BY <1>1, <1>2 DEF SlotInv
  <2>1. \/ entries[Slot(p)][f] = p
        \/ \E c \in Backends : pc[c] = "copy" /\ myTail[c] = p /\ f \notin copied[c]
        \/ Tainted(p)
    BY DEF MisreadInv, SlotInv
  <2>2. Slot(p) \in 0 .. RingSize - 1 /\ Slot(myTail[b]) \in 0 .. RingSize - 1
    BY <1>3, SlotRange
  <2>3. CASE myTail[b] = p
    <3>1. CASE f = g
      BY <1>2, <2>2, <2>3, <3>1 DEF CountersInv
    <3>2. CASE f # g
      BY <1>2, <2>1, <2>2, <3>2 DEF CountersInv
    <3> QED BY <3>1, <3>2
  <2>4. CASE myTail[b] # p /\ Slot(myTail[b]) # Slot(p)
    BY <1>2, <2>1, <2>2, <2>4 DEF CountersInv
  <2>5. CASE myTail[b] # p /\ Slot(myTail[b]) = Slot(p)
    <3>1. myTail[b] < Credited
      <4> SUFFICES ASSUME myTail[b] >= Credited PROVE FALSE
        BY <1>3, CreditedRange
      <4>1. Credited \in Nat /\ head <= Credited /\ p \in Nat
        BY CreditedRange, <1>3
      <4>2. CASE myTail[b] < p
        <5>1. p - myTail[b] < RingSize
          BY <1>3, <4>1
        <5> QED BY <1>3, <2>5, <4>1, <4>2, <5>1, ModShort DEF Slot
      <4>3. CASE p < myTail[b]
        <5>1. myTail[b] - p < RingSize
          BY <1>3, <4>1
        <5> QED BY <1>3, <2>5, <4>1, <4>3, <5>1, ModShort DEF Slot
      <4> QED BY <1>3, <2>5, <4>1, <4>2, <4>3
    <3>2. myTail[b] \in overtaken
      BY <1>2, <3>1 DEF MisreadInv, OvertakenInv, Copying
    <3>3. myTail[b] <= p
      BY <1>3, <3>1, CreditedRange
    <3> QED BY <2>5, <3>2, <3>3 DEF Tainted
  <2> QED BY <2>3, <2>4, <2>5
<1>5. OvertakenInv'
  <2>1. \A c \in Backends : Copying(c)' => Copying(c)
    BY <1>2 DEF Copying, CountersInv
  <2> QED BY <1>1, <1>2, <2>1 DEF MisreadInv, OvertakenInv
<1>6. CreditInv'
  BY <1>1, <1>2 DEF MisreadInv, CreditInv, MisreadsAreOvertakes
<1> QED BY <1>4, <1>5, <1>6 DEF MisreadInv

\* Reading the columns records whether the producer was overtaken; reading the
\* cost credits the position.
LEMMA MisreadDrain ==
  ASSUME CountersInv, MisreadInv, DrainCols \/ DrainCost
  PROVE  MisreadInv'
<1> USE DEF ringVars, pushVars, drainVars, TypeOK
<1>1. /\ drainHead \in Nat /\ tail \in Nat /\ drainHead < tail
      /\ drainHead = Credited /\ fed \in Seq(Int \X Int)
      /\ "cols" \in Fields /\ "cost" \in Fields
  BY DEF CountersInv, DrainInv, DrainCols, DrainCost, Credited, Fields
<1>2. CASE DrainCols
  <2>1. /\ drainPc' = "cost" /\ Credited' = Credited /\ drainHead' = drainHead
        /\ UNCHANGED <<ringVars, pushVars, fed>> /\ overtaken \subseteq overtaken'
        /\ gotCols' = entries[Slot(drainHead)]["cols"]
        /\ drainPc = "read"
    BY <1>2 DEF DrainCols, Credited
  <2>2. \A p : Tainted(p) => Tainted(p)'
    BY <2>1 DEF Tainted
  <2>3. ASSUME NEW b \in Backends, Copying(b), myTail[b] = drainHead
        PROVE  drainHead \in overtaken'
    BY <1>2, <2>3 DEF DrainCols
  <2>4. SlotInv'
    BY <2>1, <2>2 DEF MisreadInv, SlotInv
  <2>5. OvertakenInv'
    BY <2>1, <2>3 DEF MisreadInv, OvertakenInv, Copying
  <2>6. gotCols' = drainHead \/ Tainted(drainHead)'
    <3>1. CASE \E b \in Backends :
                 pc[b] = "copy" /\ myTail[b] = drainHead /\ "cols" \notin copied[b]
      <4>1. drainHead \in overtaken'
        BY <1>1, <2>3, <3>1 DEF Copying
      <4> QED BY <1>1, <2>1, <4>1 DEF Tainted
    <3>2. CASE entries[Slot(drainHead)]["cols"] = drainHead \/ Tainted(drainHead)
      BY <2>1, <2>2, <3>2
    <3> QED BY <1>1, <3>1, <3>2 DEF MisreadInv, SlotInv
  <2>7. CreditInv'
    <3>1. MisreadsAreOvertakes'
      BY <2>1 DEF MisreadInv, CreditInv, MisreadsAreOvertakes
    <3> QED BY <2>1, <2>6, <3>1 DEF MisreadInv, CreditInv
  <2> QED BY <2>4, <2>5, <2>7 DEF MisreadInv
<1>3. CASE DrainCost
  <2> DEFINE got == <<gotCols, entries[Slot(drainHead)]["cost"]>>
  <2>1. /\ drainPc' = "read" /\ Credited' = drainHead + 1 /\ drainHead' = drainHead + 1
        /\ UNCHANGED <<ringVars, pushVars, overtaken>>
        /\ fed' = Append(fed, got)
        /\ drainPc = "cost"
    BY <1>3 DEF DrainCost, Credited
  <2>2. \A p : Tainted(p)' <=> Tainted(p)
    BY <2>1 DEF Tainted
  <2>3. SlotInv'
    BY <1>1, <2>1, <2>2 DEF MisreadInv, SlotInv
  <2>4. OvertakenInv'
    BY <1>1, <2>1 DEF MisreadInv, OvertakenInv, Copying, CountersInv
  <2>5. entries[Slot(drainHead)]["cost"] = drainHead \/ Tainted(drainHead)
    <3>1. CASE \E b \in Backends :
                 pc[b] = "copy" /\ myTail[b] = drainHead /\ "cost" \notin copied[b]
      <4>1. drainHead \in overtaken
        BY <1>1, <2>1, <3>1 DEF MisreadInv, OvertakenInv, Copying
      <4> QED BY <1>1, <4>1 DEF Tainted
    <3> QED BY <1>1, <3>1, SMTT(30) DEF MisreadInv, SlotInv
  <2>6. got = <<drainHead, drainHead>> \/ Tainted(drainHead)
    BY <2>1, <2>5 DEF MisreadInv, CreditInv
  <2>7. Len(fed) = drainHead
    BY <1>1 DEF MisreadInv, CreditInv
  <2>8. /\ DOMAIN fed' = 1 .. drainHead + 1 /\ DOMAIN fed = 1 .. drainHead
        /\ fed'[drainHead + 1] = got
        /\ \A i \in 1 .. drainHead : fed'[i] = fed[i]
        /\ Len(fed') = drainHead + 1
    <3>1. got \in Int \X Int
      <4>1. Slot(drainHead) \in 0 .. RingSize - 1
        BY <1>1, SlotRange
      <4> QED BY <1>1, <4>1 DEF CountersInv
    <3> HIDE DEF got
    <3> QED BY <1>1, <2>1, <2>7, <3>1
  <2>9. MisreadsAreOvertakes'
    <3> HIDE DEF got
    <3> SUFFICES ASSUME NEW i \in 1 .. drainHead + 1, fed'[i] # <<i - 1, i - 1>>
                 PROVE  Tainted(i - 1)
      BY <2>1, <2>8 DEF MisreadsAreOvertakes, Tainted
    <3>1. CASE i = drainHead + 1
      <4>1. i - 1 = drainHead
        BY <1>1, <3>1
      <4> QED BY <2>6, <2>8, <3>1, <4>1
    <3>2. CASE i # drainHead + 1
      <4>1. i \in 1 .. drainHead /\ fed[i] # <<i - 1, i - 1>>
        BY <1>1, <2>8, <3>2
      <4> QED BY <2>8, <4>1, Zenon DEF MisreadInv, CreditInv, MisreadsAreOvertakes, Tainted
    <3> QED BY <3>1, <3>2
  <2>10. CreditInv'
    BY <2>1, <2>8, <2>9 DEF CreditInv
  <2> QED BY <2>3, <2>4, <2>10 DEF MisreadInv
<1> QED BY <1>2, <1>3

\* The inductive step, assembled from the lemmas above.
LEMMA MisreadStep ==
  ASSUME CountersInv, ClaimsExclusive, MisreadInv, [Next]_vars
  PROVE  MisreadInv'
<1> USE DEF ringVars, pushVars, drainVars
<1>1. ASSUME NEW b \in Backends,
             BeginPush(b) \/ LoadTail(b) \/ LoadHead(b) \/ LoadHeadEarly(b)
               \/ LoadTailLate(b) \/ DropEntry(b) \/ RetryClaim(b)
      PROVE  MisreadInv'
  <2>1. UNCHANGED <<head, tail, entries, drainVars>>
    BY <1>1, SMTT(30) DEF BeginPush, LoadTail, LoadHead, LoadHeadEarly, LoadTailLate,
                DropEntry, RetryClaim
  <2>2. ASSUME NEW c \in Backends
        PROVE  /\ pc'[c] = "copy" <=> pc[c] = "copy"
               /\ pc[c] = "copy" => myTail'[c] = myTail[c] /\ copied'[c] = copied[c]
    BY <1>1 DEF BeginPush, LoadTail, LoadHead, LoadHeadEarly, LoadTailLate,
                DropEntry, RetryClaim, Verdict, CountersInv, TypeOK
  <2> QED BY <2>1, <2>2, MisreadFrame
<1>2. ASSUME NEW b \in Backends, CountWritten(b) PROVE MisreadInv'
  <2>1. /\ UNCHANGED <<head, tail, entries, drainVars, myTail, copied>>
        /\ copied[b] = Fields
        /\ \A c \in Backends : pc'[c] = "copy" => pc[c] = "copy"
        /\ \A c \in Backends \ {b} : pc'[c] = pc[c]
    BY <1>2 DEF CountWritten, CountersInv, TypeOK
  <2>2. Credited' = Credited /\ \A p : Tainted(p)' <=> Tainted(p)
    BY <2>1 DEF Credited, Tainted
  <2>3. SlotInv'
    BY <2>1, <2>2 DEF MisreadInv, SlotInv
  <2>4. OvertakenInv'
    BY <2>1, <2>2 DEF MisreadInv, OvertakenInv, Copying
  <2>5. CreditInv'
    BY <2>1, <2>2 DEF MisreadInv, CreditInv, MisreadsAreOvertakes
  <2> QED BY <2>3, <2>4, <2>5 DEF MisreadInv
<1>3. CASE DrainStart \/ DrainFinish
  <2>1. /\ UNCHANGED <<tail, entries, pushVars, fed, overtaken>>
        /\ drainPc' # "cost"
    BY <1>3 DEF DrainStart, DrainFinish
  <2>2. Credited' = Credited
    BY <1>3 DEF DrainStart, DrainFinish, Credited
  <2>3. \A p : Tainted(p)' <=> Tainted(p)
    BY <2>1 DEF Tainted
  <2>4. SlotInv'
    BY <2>1, <2>2, <2>3 DEF MisreadInv, SlotInv
  <2>5. OvertakenInv'
    BY <2>1, <2>2 DEF MisreadInv, OvertakenInv, Copying
  <2>6. CreditInv'
    BY <2>1, <2>2 DEF MisreadInv, CreditInv, MisreadsAreOvertakes
  <2> QED BY <2>4, <2>5, <2>6 DEF MisreadInv
<1>4. CASE UNCHANGED vars
  BY <1>4, MisreadFrame DEF vars
<1> QED
  BY <1>1, <1>2, <1>3, <1>4, MisreadClaim, MisreadCopy, MisreadDrain
     DEF Next, Push, Drain

\* drain_ring_buffer credits a stale or torn entry only for a slot on which it
\* overtook a producer in the middle of its memcpy.
THEOREM MisreadsAlwaysOvertakes ==
  ASSUME LoadsInOrder
  PROVE  Spec => []MisreadsAreOvertakes
<1>1. Init => MisreadInv
  <2> SUFFICES ASSUME Init PROVE MisreadInv
    OBVIOUS
  <2>1. SlotInv /\ OvertakenInv
    BY DEF Init, SlotInv, OvertakenInv, Credited, Copying
  <2>2. CreditInv
    BY DEF Init, CreditInv, Credited, MisreadsAreOvertakes
  <2> QED BY <2>1, <2>2 DEF MisreadInv
<1>2. CountersInv /\ ClaimsExclusive /\ MisreadInv /\ [Next]_vars => MisreadInv'
  BY MisreadStep
<1>3. MisreadInv => MisreadsAreOvertakes
  BY DEF MisreadInv, CreditInv
<1> QED
  BY <1>1, <1>2, <1>3, CountersAlways, ClaimsAlwaysExclusive, PTL DEF Spec
=============================================================================
