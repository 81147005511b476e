------------------------- MODULE WorkerProcessProofs ------------------------
(***************************************************************************)
(* Proofs about WorkerProcess, for every length of the three intervals,    *)
(* every number of worker processes and every set of events.               *)
(***************************************************************************)
EXTENDS WorkerProcess, TLAPS

\* What a clock counts stays within its limit.
LEMMA WithinLimit ==
  ASSUME NEW n \in Nat, NEW limit \in Nat
  PROVE  Within(n, limit) \in 0 .. limit
BY DEF Within

\* The intervals are positive, and so is the longest of them.
LEMMA IntervalTypes ==
  /\ AnalysisInterval \in Nat \ {0} /\ AdvisorInterval \in Nat \ {0}
  /\ LifecycleInterval \in Nat \ {0} /\ Longest \in Nat
BY WorkerAssumption DEF Longest

\* Every clock can stand at 0, and 0 is the pid of no process.
LEMMA ZeroInRange ==
  /\ 0 \in 0 .. AnalysisInterval /\ 0 \in 0 .. AdvisorInterval
  /\ 0 \in 0 .. LifecycleInterval /\ 0 \in 0 .. Longest /\ 0 \in 0 .. MaxPid
BY IntervalTypes, WorkerAssumption

\* Every step of the worker, the postmaster and the sessions keeps the types.
LEMMA TypeStep == TypeOK /\ [Next]_vars => TypeOK'
<1> SUFFICES ASSUME TypeOK, [Next]_vars PROVE TypeOK'
  OBVIOUS
<1> USE IntervalTypes, WorkerAssumption DEF TypeOK, timeVars, signalVars, hookVars
<1>1. CASE Launch
  <2>1. pid' \in 0 .. MaxPid
    BY <1>1 DEF Launch
  <2> QED BY <1>1, <2>1, Zenon DEF Launch
<1>2. CASE Connect
  BY <1>2 DEF Connect
<1>3. CASE DieConnecting
  BY <1>3 DEF DieConnecting
<1>4. CASE Wake
  BY <1>4, ZeroInRange, Zenon DEF Wake
<1>5. CASE SkipPass
  BY <1>5 DEF SkipPass
<1>6. CASE AdvisorPass
  <2>1. Within(since_now, AdvisorInterval) \in 0 .. AdvisorInterval
    BY WithinLimit
  <2> QED BY <1>6, <2>1 DEF AdvisorPass, Exit
<1>7. CASE LifecyclePass
  <2>1. Within(since_now, LifecycleInterval) \in 0 .. LifecycleInterval
    BY WithinLimit
  <2> QED BY <1>7, <2>1 DEF LifecyclePass, Exit
<1>8. CASE Tick
  <2>1. /\ Within(since_now + 1, Longest) \in 0 .. Longest
        /\ Within(since_advisor + 1, AdvisorInterval) \in 0 .. AdvisorInterval
        /\ Within(since_lifecycle + 1, LifecycleInterval) \in 0 .. LifecycleInterval
    <3>1. /\ since_now + 1 \in Nat /\ since_advisor + 1 \in Nat /\ since_lifecycle + 1 \in Nat
          /\ Longest \in Nat /\ AdvisorInterval \in Nat /\ LifecycleInterval \in Nat
      OBVIOUS
    <3> QED BY <3>1, WithinLimit, Zenon
  <2>2. waited' \in 0 .. AnalysisInterval
    <3>1. CASE at = "wait"
      <4>1. waited' = waited + 1 /\ waited < AnalysisInterval
        BY <1>8, <3>1, Zenon DEF Tick
      <4> QED BY <4>1
    <3>2. CASE at # "wait"
      BY <1>8, <3>2, Zenon DEF Tick
    <3> QED BY <3>1, <3>2
  <2>3. since_now' \in 0 .. Longest
    <3>1. CASE at = "wait"
      BY <1>8, <3>1, Zenon DEF Tick
    <3>2. CASE at # "wait"
      BY <1>8, <2>1, <3>2, Zenon DEF Tick
    <3> QED BY <3>1, <3>2
  <2> QED BY <1>8, <2>1, <2>2, <2>3, Zenon DEF Tick
<1>9. CASE Terminate
  BY <1>9 DEF Terminate
<1>10. CASE Shutdown
  <2>1. (at # "none") \in BOOLEAN
    OBVIOUS
  <2> QED BY <1>10, <2>1, Zenon DEF Shutdown
<1>11. CASE Reload
  <2>1. (at # "none") \in BOOLEAN
    OBVIOUS
  <2> QED BY <1>11, <2>1, Zenon DEF Reload
<1>12. CASE Crash
  BY <1>12, ZeroInRange, Zenon DEF Crash, InstallHooks
<1>13. CASE UNCHANGED vars
  BY <1>13 DEF vars
<1> QED
  BY <1>1, <1>2, <1>3, <1>4, <1>5, <1>6, <1>7, <1>8, <1>9, <1>10, <1>11, <1>12, <1>13
     DEF Next, Loop

\* The worker's position, its clocks and the hook pointers keep their types
\* through restarts, reloads and crashes.
THEOREM TypeCorrect == Spec => []TypeOK
<1>1. Init => TypeOK
  BY ZeroInRange, Zenon DEF Init, TypeOK
<1>2. TypeOK /\ [Next]_vars => TypeOK'
  BY TypeStep
<1> QED BY <1>1, <1>2, PTL DEF Spec

\* AutoIndexMain stores its pid before it enters its loop, and nothing changes
\* bgw_pid under a worker in its loop: the postmaster starts no second one.
THEOREM OwnPidAlwaysRecorded == Spec => []OwnPidRecorded
<1>1. Init => OwnPidRecorded
  BY DEF Init, OwnPidRecorded
<1>2. OwnPidRecorded /\ [Next]_vars => OwnPidRecorded'
  <2> SUFFICES ASSUME OwnPidRecorded, [Next]_vars PROVE OwnPidRecorded'
    OBVIOUS
  <2> USE DEF OwnPidRecorded
  <2>1. CASE Launch
    BY <2>1 DEF Launch
  <2>2. CASE Connect \/ DieConnecting
    BY <2>2 DEF Connect, DieConnecting
  <2>3. CASE Wake \/ SkipPass \/ Tick
    BY <2>3 DEF Wake, SkipPass, Tick
  <2>4. CASE AdvisorPass \/ LifecyclePass
    BY <2>4 DEF AdvisorPass, LifecyclePass, Exit
  <2>5. CASE Terminate \/ Shutdown \/ Reload
    BY <2>5 DEF Terminate, Shutdown, Reload
  <2>6. CASE Crash
    BY <2>6 DEF Crash
  <2>7. CASE UNCHANGED vars
    BY <2>7 DEF vars
  <2> QED BY <2>1, <2>2, <2>3, <2>4, <2>5, <2>6, <2>7 DEF Next, Loop
<1> QED BY <1>1, <1>2, PTL DEF Spec
=============================================================================
