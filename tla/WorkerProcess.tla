--------------------------- MODULE WorkerProcess ----------------------------
(***************************************************************************)
(* The life of the background worker: its main loop (AutoIndexMain,        *)
(* autoindex.c), the signals it gets, the postmaster that starts it again, *)
(* and the shared state the postmaster initialises, at start and after a   *)
(* crash: bgw_pid and the chain of ExecutorEnd hooks.                      *)
(*                                                                         *)
(* SIGTERM runs die, which only notes that the process has to end.  The    *)
(* process ends at the next CHECK_FOR_INTERRUPTS, and the main loop has    *)
(* none of its own: they are inside the queries of the two passes.  The    *)
(* loop tests ShutdownRequestPending, which die does not set, so the code  *)
(* after the loop is never reached and is not an action.                   *)
(***************************************************************************)
EXTENDS Integers

CONSTANTS
  AnalysisInterval,    \* autoindex.analysis_interval, in some unit of time
  AdvisorInterval,     \* autoindex.advisor_interval
  LifecycleInterval,   \* autoindex.lifecycle_interval
  MaxPid,              \* bound on the number of worker processes started
  Events               \* what may happen: subset of {"terminate", "reload", "crash"}

ASSUME WorkerAssumption ==
  /\ {AnalysisInterval, AdvisorInterval, LifecycleInterval} \subseteq Nat \ {0}
  /\ MaxPid \in Nat \ {0}
  /\ Events \subseteq {"terminate", "reload", "crash"}

VARIABLES
  at,               \* "none", or where the worker is: "start", "wait", "advisor", "lifecycle"
  pid,              \* its process id (the number of processes started)
  bgw_pid,          \* AutoIndexShmem->bgw_pid
  die_pending,      \* ProcDiePending, set by SIGTERM
  reload_pending,   \* ConfigReloadPending, set by SIGHUP
  configured,       \* autoindex.enabled in the configuration file
  enabled,          \* autoindex_enabled in the worker
  frequent,         \* some tracked column has reached min_exec_freq
  waited,           \* time spent in WaitLatch
  since_now,        \* time since the loop read the clock into now
  since_advisor,    \* time since last_advisor_run, up to advisor_interval
  since_lifecycle,  \* time since last_lifecycle_run, up to lifecycle_interval
  passes,           \* the passes whose interval had elapsed at now
  stopping,         \* the postmaster is shutting down
  hook,             \* ExecutorEnd_hook
  prev_hook         \* prev_ExecutorEnd_hook

signalVars == <<die_pending, reload_pending, configured>>
hookVars == <<hook, prev_hook>>
timeVars == <<waited, since_now, since_advisor, since_lifecycle, passes>>
vars == <<at, pid, bgw_pid, signalVars, enabled, frequent, timeVars, stopping, hookVars>>

Init ==
  /\ at = "none" /\ pid = 0
  /\ bgw_pid = 0
  /\ die_pending = FALSE /\ reload_pending = FALSE
  /\ configured \in BOOLEAN /\ enabled = configured
  /\ frequent = FALSE
  /\ waited = 0 /\ since_now = 0 /\ since_advisor = 0 /\ since_lifecycle = 0
  /\ passes = {}
  /\ stopping = FALSE
  /\ hook = "capture" /\ prev_hook = "none"

-----------------------------------------------------------------------------
(* The worker. *)

\* Times are counted as far as the tests of the intervals tell them apart.
Within(n, limit) == IF n < limit THEN n ELSE limit

Longest == IF AdvisorInterval < LifecycleInterval THEN LifecycleInterval ELSE AdvisorInterval

\* The postmaster forks a worker: at start, or 10 s after one has exited.
Launch ==
  /\ at = "none" /\ ~stopping /\ pid < MaxPid
  /\ at' = "start"
  /\ pid' = pid + 1
  /\ die_pending' = FALSE /\ reload_pending' = FALSE
  /\ enabled' = configured
  /\ frequent' = FALSE
  /\ UNCHANGED <<bgw_pid, configured, timeVars, stopping, hookVars>>

\* FATAL, and proc_exit(1): nothing resets bgw_pid.
Exit ==
  /\ at' = "none"
  /\ UNCHANGED <<pid, bgw_pid, signalVars, enabled, timeVars, stopping, hookVars>>

\* The process id is recorded only where none is left.
MutantConnect ==
  /\ at = "start" /\ ~die_pending
  /\ bgw_pid' = IF bgw_pid = 0 THEN pid ELSE bgw_pid
  /\ at' = "wait"
  /\ waited' = 0 /\ since_advisor' = 0 /\ since_lifecycle' = 0
  /\ UNCHANGED <<pid, signalVars, enabled, frequent, since_now, passes, stopping, hookVars>>

\* Connecting to the database checks for interrupts; then bgw_pid is set and
\* both intervals start, whatever a worker before this one had waited.
Connect ==
  /\ at = "start" /\ ~die_pending
  /\ bgw_pid' = pid
  /\ at' = "wait"
  /\ waited' = 0 /\ since_advisor' = 0 /\ since_lifecycle' = 0
  /\ UNCHANGED <<pid, signalVars, enabled, frequent, since_now, passes, stopping, hookVars>>

\* It ends there instead, or when it has logged its start.
DieConnecting ==
  /\ at = "start" /\ die_pending
  /\ at' = "none"
  /\ bgw_pid' \in {bgw_pid, pid}
  /\ UNCHANGED <<pid, signalVars, enabled, frequent, timeVars, stopping, hookVars>>

\* WaitLatch returns, by a signal or by its timeout; the configuration is
\* reloaded; a disabled worker goes back to wait.  An enabled one reads the
\* clock, once for the tests of both intervals.
Wake ==
  /\ at = "wait"
  /\ waited' = 0
  /\ reload_pending' = FALSE
  /\ enabled' = IF reload_pending THEN configured ELSE enabled
  /\ at' = IF enabled' THEN "advisor" ELSE "wait"
  /\ since_now' = 0
  /\ passes' = {p \in {"advisor", "lifecycle"} :
                  \/ p = "advisor" /\ since_advisor >= AdvisorInterval
                  \/ p = "lifecycle" /\ since_lifecycle >= LifecycleInterval}
  /\ UNCHANGED <<pid, bgw_pid, die_pending, configured, frequent, since_advisor,
                 since_lifecycle, stopping, hookVars>>

\* advisor_interval or lifecycle_interval has not elapsed.
SkipPass ==
  /\ at \in {"advisor", "lifecycle"}
  /\ at \notin passes
  /\ at' = IF at = "advisor" THEN "lifecycle" ELSE "wait"
  /\ UNCHANGED <<pid, bgw_pid, signalVars, enabled, frequent, timeVars, stopping, hookVars>>

\* Both times of the last run are set after the advisor pass.
MutantAdvisorPass ==
  /\ at = "advisor" /\ "advisor" \in passes
  /\ frequent' \in BOOLEAN
  /\ IF frequent' /\ die_pending
     THEN Exit
     ELSE /\ at' = "lifecycle"
          /\ since_advisor' = Within(since_now, AdvisorInterval)
          /\ since_lifecycle' = Within(since_now, LifecycleInterval)
          /\ UNCHANGED <<pid, bgw_pid, signalVars, enabled, waited, since_now, passes,
                         stopping, hookVars>>

\* The advisor pass, which may fail, drains the ring.  It runs its first query,
\* and so checks for interrupts, only for a column that has reached
\* min_exec_freq.  Then last_advisor_run = now.
AdvisorPass ==
  /\ at = "advisor" /\ "advisor" \in passes
  /\ frequent' \in BOOLEAN
  /\ IF frequent' /\ die_pending
     THEN Exit
     ELSE /\ at' = "lifecycle"
          /\ since_advisor' = Within(since_now, AdvisorInterval)
          /\ UNCHANGED <<pid, bgw_pid, signalVars, enabled, waited, since_now,
                         since_lifecycle, passes, stopping, hookVars>>

\* The lifecycle pass always runs a query.  FATAL is not caught by PG_CATCH.
\* Then last_lifecycle_run = now.
LifecyclePass ==
  /\ at = "lifecycle" /\ "lifecycle" \in passes
  /\ IF die_pending
     THEN Exit
     ELSE /\ at' = "wait"
          /\ since_lifecycle' = Within(since_now, LifecycleInterval)
          /\ UNCHANGED <<pid, bgw_pid, signalVars, enabled, waited, since_now,
                         since_advisor, passes, stopping, hookVars>>
  /\ UNCHANGED frequent

\* Time passes, in WaitLatch until its timeout, or in a pass.
Tick ==
  /\ at \in {"wait", "advisor", "lifecycle"}
  /\ at = "wait" => waited < AnalysisInterval
  /\ waited' = IF at = "wait" THEN waited + 1 ELSE waited
  /\ since_now' = IF at = "wait" THEN since_now ELSE Within(since_now + 1, Longest)
  /\ since_advisor' = Within(since_advisor + 1, AdvisorInterval)
  /\ since_lifecycle' = Within(since_lifecycle + 1, LifecycleInterval)
  /\ UNCHANGED <<at, pid, bgw_pid, signalVars, enabled, frequent, passes, stopping, hookVars>>

-----------------------------------------------------------------------------
(* The postmaster and other sessions. *)

\* pg_terminate_backend on the worker.
Terminate ==
  /\ "terminate" \in Events
  /\ at # "none"
  /\ die_pending' = TRUE
  /\ UNCHANGED <<at, pid, bgw_pid, reload_pending, configured, enabled, frequent,
                 timeVars, stopping, hookVars>>

\* pg_ctl stop -m fast: the postmaster sends SIGTERM to its children, and waits.
Shutdown ==
  /\ ~stopping
  /\ stopping' = TRUE
  /\ die_pending' = (at # "none")
  /\ UNCHANGED <<at, pid, bgw_pid, reload_pending, configured, enabled, frequent, timeVars,
                 hookVars>>

\* autoindex.enabled is changed in the file and SIGHUP sent.
Reload ==
  /\ "reload" \in Events
  /\ configured' \in BOOLEAN
  /\ reload_pending' = (at # "none")
  /\ UNCHANGED <<at, pid, bgw_pid, die_pending, enabled, frequent, timeVars, stopping,
                 hookVars>>

\* The two pointers swapped.
MutantInstallHooks ==
  /\ prev_hook' = hook
  /\ hook' = prev_hook

\* autoindex_install_hooks.
InstallHooks ==
  /\ prev_hook' = hook
  /\ hook' = "capture"

\* A process crashes: the postmaster kills the others and initialises shared
\* memory again, autoindex_shmem_init included.
Crash ==
  /\ "crash" \in Events /\ ~stopping
  /\ at' = "none"
  /\ bgw_pid' = 0
  /\ die_pending' = FALSE /\ reload_pending' = FALSE
  /\ InstallHooks
  /\ UNCHANGED <<pid, configured, enabled, frequent, timeVars, stopping>>

Loop == Connect \/ DieConnecting \/ Wake \/ SkipPass \/ AdvisorPass \/ LifecyclePass

Next == Launch \/ Loop \/ Tick \/ Terminate \/ Shutdown \/ Reload \/ Crash

Spec == Init /\ [][Next]_vars

\* The postmaster starts workers, a worker is scheduled and its passes end, and
\* time goes on.
FairSpec ==
  /\ Spec
  /\ WF_vars(Launch)
  /\ WF_vars(Loop)
  /\ WF_vars(Tick)

-----------------------------------------------------------------------------
\* The worker's position, the flags and the hook pointers have their types.
TypeOK ==
  /\ at \in {"none", "start", "wait", "advisor", "lifecycle"}
  /\ pid \in 0 .. MaxPid /\ bgw_pid \in 0 .. MaxPid
  /\ die_pending \in BOOLEAN /\ reload_pending \in BOOLEAN
  /\ configured \in BOOLEAN /\ enabled \in BOOLEAN
  /\ frequent \in BOOLEAN /\ stopping \in BOOLEAN
  /\ waited \in 0 .. AnalysisInterval
  /\ since_now \in 0 .. Longest
  /\ since_advisor \in 0 .. AdvisorInterval /\ since_lifecycle \in 0 .. LifecycleInterval
  /\ passes \subseteq {"advisor", "lifecycle"}
  /\ hook = "capture" /\ prev_hook \in {"none", "capture"}

\* A worker in its loop has its own pid in shared memory, also when it follows
\* one that left its pid behind.
OwnPidRecorded == at \in {"wait", "advisor", "lifecycle"} => bgw_pid = pid

\* The worker ends after SIGTERM, if automatic indexing is enabled: the
\* lifecycle pass, which comes when its interval has elapsed, however often the
\* loop is woken and however long the passes take, checks for interrupts.
TerminationObeyed ==
  [](configured /\ enabled) => (die_pending ~> (at = "none"))

(* Statements of the documentation and of comments that do not hold. *)

\* "Stop the server: pg_ctl stop -m fast" (README): the worker ends when the
\* postmaster shuts down.
ShutdownObeyed == stopping ~> (at = "none")

\* "now call the previous hook or standard implementation": the chain of hooks
\* that starts at ExecutorEnd_hook ends in standard_ExecutorEnd.
HookChainEnds == hook = "capture" => prev_hook # "capture"
=============================================================================
