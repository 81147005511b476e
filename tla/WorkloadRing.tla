---------------------------- MODULE WorkloadRing ----------------------------
(***************************************************************************)
(* The workload ring buffer: ring_buffer_push (workload_capture.c), run by *)
(* every backend at ExecutorEnd, against drain_ring_buffer                 *)
(* (index_advisor.c), run by the single background worker.                 *)
(*                                                                         *)
(* Every access to shared memory is a step of its own: the two counter     *)
(* loads, the compare-and-swap, the memcpy (field by field, in no fixed    *)
(* order), the two fetch_adds, the drain's reads and its store of head.    *)
(*                                                                         *)
(* An entry is identified by the position at which its push claimed a      *)
(* slot; a slot records, per field, whose bytes it holds, so that stale    *)
(* and torn reads are visible.  The uint64 counters are naturals: RingSize *)
(* divides 2^64 and the code only compares counters for equality, so the   *)
(* wrap-around, 2^64 pushes away, would change nothing.                    *)
(***************************************************************************)
EXTENDS Integers, Sequences, FiniteSets

CONSTANTS
  Backends,      \* processes that run queries
  RingSize,      \* AUTOINDEX_RING_SIZE
  MaxPushes,     \* bound on the number of captured queries
  LoadsInOrder   \* TRUE: loads happen in program order (x86-64).  FALSE: the
                 \* two unfenced pg_atomic_read_u64 may be swapped (ARM64).

ASSUME RingAssumption ==
  /\ RingSize \in Nat \ {0}
  /\ MaxPushes \in Nat
  /\ LoadsInOrder \in BOOLEAN
  /\ IsFiniteSet(Backends)

VARIABLES
  head,            \* ring->head, consumer position
  tail,            \* ring->tail, producer position
  entries,         \* ring->entries: per slot and field, whose bytes are there
  total_written,   \* shared counter
  total_dropped,   \* shared counter
  pc,              \* where each backend is in ring_buffer_push
  myTail,          \* its local variable tail
  myHead,          \* its local variable head
  copied,          \* the fields its memcpy has stored so far
  pushes,          \* number of pushes begun (bounds the model)
  drainPc,         \* where the worker is in drain_ring_buffer
  drainHead,       \* its local variable head
  drainTail,       \* its local variable tail
  gotCols,         \* whose columns it read for the current position
  fed,             \* history: what was credited for positions 0, 1, 2, ...
  overtaken        \* history: positions read before their producer was done

ringVars == <<head, tail, entries, total_written, total_dropped>>
pushVars == <<pc, myTail, myHead, copied, pushes>>
drainVars == <<drainPc, drainHead, drainTail, gotCols, fed, overtaken>>
vars == <<ringVars, pushVars, drainVars>>

\* The parts of a WorkloadEntry the drain reads one after the other: the
\* column lists with their lengths, and plan_cost (with ts).
Fields == {"cols", "cost"}

\* Shared memory is zeroed at start: no position's bytes.
Zeroed == -1

\* n & AUTOINDEX_RING_MASK, for a power of two.
Slot(n) == n % RingSize

-----------------------------------------------------------------------------
Init ==
  /\ head = 0
  /\ tail = 0
  /\ entries = [s \in 0 .. RingSize - 1 |-> [f \in Fields |-> Zeroed]]
  /\ total_written = 0
  /\ total_dropped = 0
  /\ pc = [b \in Backends |-> "idle"]
  /\ myTail = [b \in Backends |-> 0]
  /\ myHead = [b \in Backends |-> 0]
  /\ copied = [b \in Backends |-> {}]
  /\ pushes = 0
  /\ drainPc = "idle"
  /\ drainHead = 0
  /\ drainTail = 0
  /\ gotCols = Zeroed
  /\ fed = <<>>
  /\ overtaken = {}

-----------------------------------------------------------------------------
(* The producers. *)

\* The ExecutorEnd hook has captured columns and calls ring_buffer_push.
BeginPush(b) ==
  /\ pc[b] = "idle"
  /\ pushes < MaxPushes
  /\ pushes' = pushes + 1
  /\ pc' = [pc EXCEPT ![b] = "load"]
  /\ UNCHANGED <<ringVars, myTail, myHead, copied, drainVars>>

LoadTail(b) ==
  /\ pc[b] = "load"
  /\ myTail' = [myTail EXCEPT ![b] = tail]
  /\ pc' = [pc EXCEPT ![b] = "loadHead"]
  /\ UNCHANGED <<ringVars, myHead, copied, pushes, drainVars>>

\* No test for a full ring.
MutantNeverFull(t, h) == FALSE

\* The test for a full ring, on the values loaded.
LooksFull(t, h) == Slot(t + 1) = Slot(h)

Verdict(t, h) == IF LooksFull(t, h) THEN "drop" ELSE "cas"

LoadHead(b) ==
  /\ pc[b] = "loadHead"
  /\ myHead' = [myHead EXCEPT ![b] = head]
  /\ pc' = [pc EXCEPT ![b] = Verdict(myTail[b], head)]
  /\ UNCHANGED <<ringVars, myTail, copied, pushes, drainVars>>

\* The same two loads, performed in the opposite order by the processor.
LoadHeadEarly(b) ==
  /\ ~LoadsInOrder
  /\ pc[b] = "load"
  /\ myHead' = [myHead EXCEPT ![b] = head]
  /\ pc' = [pc EXCEPT ![b] = "loadTail"]
  /\ UNCHANGED <<ringVars, myTail, copied, pushes, drainVars>>

LoadTailLate(b) ==
  /\ pc[b] = "loadTail"
  /\ myTail' = [myTail EXCEPT ![b] = tail]
  /\ pc' = [pc EXCEPT ![b] = Verdict(tail, myHead[b])]
  /\ UNCHANGED <<ringVars, myHead, copied, pushes, drainVars>>

DropEntry(b) ==
  /\ pc[b] = "drop"
  /\ total_dropped' = total_dropped + 1
  /\ pc' = [pc EXCEPT ![b] = "idle"]
  /\ UNCHANGED <<head, tail, entries, total_written>>
  /\ UNCHANGED <<myTail, myHead, copied, pushes, drainVars>>

\* A plain store of tail instead of the compare-and-swap.
MutantBlindClaim(b) ==
  /\ pc[b] = "cas"
  /\ tail' = myTail[b] + 1
  /\ pc' = [pc EXCEPT ![b] = "copy"]
  /\ copied' = [copied EXCEPT ![b] = {}]
  /\ UNCHANGED <<head, entries, total_written, total_dropped>>
  /\ UNCHANGED <<myTail, myHead, pushes, drainVars>>

\* pg_atomic_compare_exchange_u64 succeeds: the slot at myTail[b] is claimed.
ClaimSlot(b) ==
  /\ pc[b] = "cas"
  /\ tail = myTail[b]
  /\ tail' = tail + 1
  /\ pc' = [pc EXCEPT ![b] = "copy"]
  /\ copied' = [copied EXCEPT ![b] = {}]
  /\ UNCHANGED <<head, entries, total_written, total_dropped>>
  /\ UNCHANGED <<myTail, myHead, pushes, drainVars>>

\* A lost compare-and-swap that does not go back to the loads.
MutantNoRetry(b) ==
  /\ pc[b] = "cas"
  /\ tail # myTail[b]
  /\ UNCHANGED vars

\* It fails: another backend moved tail, and the loop starts over.
RetryClaim(b) ==
  /\ pc[b] = "cas"
  /\ tail # myTail[b]
  /\ pc' = [pc EXCEPT ![b] = "load"]
  /\ UNCHANGED <<ringVars, myTail, myHead, copied, pushes, drainVars>>

\* memcpy into the slot of next instead of the slot of tail.
MutantCopyNextSlot(b) ==
  \E f \in Fields \ copied[b] :
    /\ pc[b] = "copy"
    /\ entries' = [entries EXCEPT ![Slot(myTail[b] + 1)][f] = myTail[b]]
    /\ copied' = [copied EXCEPT ![b] = @ \union {f}]
    /\ UNCHANGED <<head, tail, total_written, total_dropped>>
    /\ UNCHANGED <<pc, myTail, myHead, pushes, drainVars>>

\* One piece of the memcpy into the claimed slot.
CopyField(b) ==
  \E f \in Fields \ copied[b] :
    /\ pc[b] = "copy"
    /\ entries' = [entries EXCEPT ![Slot(myTail[b])][f] = myTail[b]]
    /\ copied' = [copied EXCEPT ![b] = @ \union {f}]
    /\ UNCHANGED <<head, tail, total_written, total_dropped>>
    /\ UNCHANGED <<pc, myTail, myHead, pushes, drainVars>>

\* total_written counted with a load and a store that another backend's
\* increment can fall between: the increment is lost.
MutantLostIncrement(b) ==
  /\ pc[b] = "copy"
  /\ copied[b] = Fields
  /\ total_written' = IF \E c \in Backends \ {b} : copied[c] = Fields /\ pc[c] = "copy"
                      THEN total_written ELSE total_written + 1
  /\ pc' = [pc EXCEPT ![b] = "idle"]
  /\ UNCHANGED <<head, tail, entries, total_dropped>>
  /\ UNCHANGED <<myTail, myHead, copied, pushes, drainVars>>

\* The memcpy is complete; the write is counted and the push returns.
CountWritten(b) ==
  /\ pc[b] = "copy"
  /\ copied[b] = Fields
  /\ total_written' = total_written + 1
  /\ pc' = [pc EXCEPT ![b] = "idle"]
  /\ UNCHANGED <<head, tail, entries, total_dropped>>
  /\ UNCHANGED <<myTail, myHead, copied, pushes, drainVars>>

-----------------------------------------------------------------------------
(* The consumer. *)

\* b has claimed its slot and its memcpy is not complete.
Copying(b) == pc[b] = "copy" /\ copied[b] # Fields

\* Both counters are loaded.  Only the worker stores head, so loading the
\* two in one step loses no interleaving.
DrainStart ==
  /\ drainPc = "idle"
  /\ drainHead' = head
  /\ drainTail' = tail
  /\ drainPc' = "read"
  /\ UNCHANGED <<ringVars, pushVars, gotCols, fed, overtaken>>

DrainCols ==
  /\ drainPc = "read"
  /\ drainHead # drainTail
  /\ gotCols' = entries[Slot(drainHead)]["cols"]
  /\ overtaken' = IF \E b \in Backends : Copying(b) /\ myTail[b] = drainHead
                  THEN overtaken \union {drainHead} ELSE overtaken
  /\ drainPc' = "cost"
  /\ UNCHANGED <<ringVars, pushVars, drainHead, drainTail, fed>>

\* The drain loop without its head++.
MutantNoAdvance ==
  /\ drainPc = "cost"
  /\ drainPc' = "read"
  /\ UNCHANGED <<ringVars, pushVars, drainHead, drainTail, gotCols, fed, overtaken>>

DrainCost ==
  /\ drainPc = "cost"
  /\ fed' = Append(fed, <<gotCols, entries[Slot(drainHead)]["cost"]>>)
  /\ drainHead' = drainHead + 1
  /\ drainPc' = "read"
  /\ UNCHANGED <<ringVars, pushVars, drainTail, gotCols, overtaken>>

\* head published one short: the last entry drained is kept as a sentinel.
MutantFinishShort ==
  /\ drainPc = "read"
  /\ drainHead = drainTail
  /\ head' = drainHead - 1
  /\ drainPc' = "idle"
  /\ UNCHANGED <<tail, entries, total_written, total_dropped>>
  /\ UNCHANGED <<pushVars, drainHead, drainTail, gotCols, fed, overtaken>>

DrainFinish ==
  /\ drainPc = "read"
  /\ drainHead = drainTail
  /\ head' = drainHead
  /\ drainPc' = "idle"
  /\ UNCHANGED <<tail, entries, total_written, total_dropped>>
  /\ UNCHANGED <<pushVars, drainHead, drainTail, gotCols, fed, overtaken>>

-----------------------------------------------------------------------------
Push(b) ==
  \/ LoadTail(b) \/ LoadHead(b) \/ LoadHeadEarly(b) \/ LoadTailLate(b)
  \/ DropEntry(b) \/ ClaimSlot(b) \/ RetryClaim(b)
  \/ CopyField(b) \/ CountWritten(b)

Drain == DrainStart \/ DrainCols \/ DrainCost \/ DrainFinish

Next ==
  \/ \E b \in Backends : BeginPush(b) \/ Push(b)
  \/ Drain

Spec == Init /\ [][Next]_vars

\* A running backend, and the worker once it has begun a drain, are scheduled.
Fairness ==
  /\ \A b \in Backends : WF_vars(Push(b))
  /\ WF_vars(DrainCols \/ DrainCost \/ DrainFinish)

FairSpec == Spec /\ Fairness

-----------------------------------------------------------------------------
(* Properties. *)

\* Types of the shared counters and slots (WorkloadRingBuffer and the two
\* statistics counters) and of the locals of the two functions.
TypeOK ==
  /\ head \in Nat /\ tail \in Nat
  /\ entries \in [0 .. RingSize - 1 -> [Fields -> Int]]
  /\ total_written \in Nat /\ total_dropped \in Nat
  /\ pc \in [Backends -> {"idle", "load", "loadHead", "loadTail", "drop", "cas", "copy"}]
  /\ myTail \in [Backends -> Nat] /\ myHead \in [Backends -> Nat]
  /\ copied \in [Backends -> SUBSET Fields]
  /\ pushes \in 0 .. MaxPushes
  /\ drainPc \in {"idle", "read", "cost"}
  /\ drainHead \in Nat /\ drainTail \in Nat
  /\ gotCols \in Int
  /\ fed \in Seq(Int \X Int)
  /\ overtaken \subseteq Nat

\* The ring never holds more than RingSize - 1 positions.  ring_buffer_push
\* decides on values of tail and head that are stale by the time of the
\* compare-and-swap; the compare-and-swap must make the decision good.
RingBound ==
  /\ head <= tail
  /\ tail - head < RingSize

\* Two backends inside the memcpy of ring_buffer_push never claimed the same
\* position, however old the tail was on which they based the claim.
ClaimsExclusive ==
  \A b, c \in Backends :
    (b # c /\ pc[b] = "copy" /\ pc[c] = "copy") => myTail[b] # myTail[c]

\* Among the positions that the drain has not retired, no two backends copy
\* into the same slot: the modulo of ring_buffer_push does not alias.
LiveSlotsExclusive ==
  \A b, c \in Backends :
    (b # c /\ Copying(b) /\ Copying(c) /\ myTail[b] >= head /\ myTail[c] >= head)
      => Slot(myTail[b]) # Slot(myTail[c])

\* total_written lags tail by exactly the pushes that are still copying: no
\* claimed position is ever forgotten or counted twice.
WrittenAccounting ==
  tail = total_written + Cardinality({b \in Backends : pc[b] = "copy"})

\* The drain credits a wrong or torn entry for a position only if it, or an
\* earlier position on the same slot, was read while its producer was still
\* between compare-and-swap and the end of memcpy: overtaking a slow producer
\* is the only way drain_ring_buffer can misread.
MisreadsAreOvertakes ==
  \A i \in DOMAIN fed :
    fed[i] # <<i - 1, i - 1>> =>
      \E j \in overtaken : j <= i - 1 /\ Slot(j) = Slot(i - 1)

\* The two counters behave as a window of at most RingSize - 1 tickets, handed
\* out and retired in order, whatever the interleaving of push and drain.
Window == INSTANCE TicketWindow
            WITH Capacity <- RingSize - 1, first <- head, next <- tail,
                 turned <- total_dropped

RefinesWindow == Window!WindowSpec

\* Every push returns: the retry loop of ring_buffer_push ends once the other
\* backends stop winning the compare-and-swap.
PushReturns == \A b \in Backends : pc[b] # "idle" ~> pc[b] = "idle"

\* Every drain ends although backends keep pushing: tail is loaded once.
DrainReturns == drainPc # "idle" ~> drainPc = "idle"
=============================================================================
