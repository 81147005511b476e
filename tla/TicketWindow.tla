---------------------------- MODULE TicketWindow ----------------------------
(***************************************************************************)
(* What the workload ring buffer promises about its two counters, with the *)
(* slots, the local copies of the counters and the retries left out.       *)
(*                                                                         *)
(* Positions ("tickets") are handed out one by one, in order, and retired  *)
(* in order.  At most Capacity tickets are outstanding.  A query may be    *)
(* turned away at any time: the code counts it in total_dropped, and       *)
(* WorkloadRing shows that it need not have met a full ring.               *)
(***************************************************************************)
EXTENDS Integers

CONSTANT Capacity   \* the most tickets that may be outstanding

VARIABLES
  first,   \* the oldest ticket not yet retired
  next,    \* the ticket handed out next
  turned   \* how many queries were turned away

windowVars == <<first, next, turned>>

WindowInit ==
  /\ first = 0
  /\ next = 0
  /\ turned = 0

\* A ticket is handed out while fewer than Capacity are outstanding.
HandOut ==
  /\ next - first < Capacity
  /\ next' = next + 1
  /\ UNCHANGED <<first, turned>>

TurnAway ==
  /\ turned' = turned + 1
  /\ UNCHANGED <<first, next>>

\* Everything handed out up to some point is retired at once.
Retire ==
  /\ \E n \in first + 1 .. next : first' = n
  /\ UNCHANGED <<next, turned>>

WindowNext == HandOut \/ TurnAway \/ Retire

WindowSpec == WindowInit /\ [][WindowNext]_windowVars
=============================================================================
