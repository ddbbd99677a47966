---------------------------- MODULE LiveEpisode ----------------------------
(***************************************************************************)
(* The life of a live-triggered episode in operator_api.py.  A request     *)
(* inserts the row, a wrapper thread runs injector.py and classifies its   *)
(* exit, and a row that reaches awaiting_fix is taken to resolving by      *)
(* whichever caller of _attempt_resolve wins one compare-and-set: a        *)
(* click, the five-minute Timer, the wrapper itself, or a thread started   *)
(* by the reconciliation that follows a restart.  The winner runs the      *)
(* scorer subprocess and makes the terminal transition.                    *)
(*                                                                         *)
(* The API process may crash at any step.  Its threads and Timers vanish,  *)
(* its subprocesses may live on, and the database stays as it was.         *)
(***************************************************************************)
EXTENDS Naturals, FiniteSets

CONSTANTS
    Episodes,
    FaultClasses,
    HoldingClasses,     \* HOLDING_CLASSES: an extendable hold
    AutoFixClasses,     \* AUTO_FIX_CLASSES: wait for a click or the Timer
    MemoryLeak,         \* the class that pauses checkout
    Clicks,             \* threads /trigger/resolve may start per episode
    CrashBound,         \* bound on crashes of the API process
    GuardedFaultBound,  \* bound on exceptions that a guard catches
    UnguardedFaultBound \* bound on exceptions that end a thread or a request

ASSUME LiveEpisodeAssumption ==
    /\ FaultClasses # {}
    /\ HoldingClasses \subseteq FaultClasses
    /\ AutoFixClasses \subseteq FaultClasses
    /\ Clicks \cap {"timer", "auto", "inline"} = {}
    /\ CrashBound \in Nat
    /\ GuardedFaultBound \in Nat
    /\ UnguardedFaultBound \in Nat

VARIABLES
    row,            \* [Episodes -> Row], the episodes table
    scored,         \* episodes with a scores row
    injector,       \* [Episodes -> InjectorStatus], the injector.py process
    stopFile,       \* episodes whose stop-file exists
    scorer,         \* [Episodes -> ScorerStatus], the p3_scorer.py process
    wrapper,        \* [Episodes -> WrapperStep], the _run_live_episode thread
                    \* or, after a restart, the _wait_for_orphan thread
    resolver,       \* [Episodes -> [Callers -> ResolverStep]]
    timers,         \* _ABANDON_TIMERS
    leakPaused,     \* _leak_checkout_paused, in memory only
    api,            \* "up", "down", or between reconciliation's two reads
    seen,           \* the row as reconciliation's SELECT returned it
    runs,           \* per episode, scorer subprocesses started
    abandoned,      \* episodes abandoned before the wrapper looked
    lostPause,      \* leak episodes whose pause a crash or another episode's
                    \* late un-pause took away
    crashes, guardedFaults, unguardedFaults

db == <<row, scored>>
processes == <<injector, stopFile, scorer>>
threads == <<wrapper, resolver, timers>>
ghosts == <<runs, abandoned, lostPause>>
faults == <<crashes, guardedFaults, unguardedFaults>>
vars == <<db, processes, threads, leakPaused, api, seen, ghosts, faults>>

NonTerminal == {"injecting", "holding", "awaiting_fix", "resolving"}
Terminal == {"resolved", "failed"}

\* Where a call of _attempt_resolve comes from; "auto" is a thread started by
\* reconciliation, "inline" the wrapper thread of a report-only class.
Callers == Clicks \cup {"timer", "auto", "inline"}

Row == [state : NonTerminal \cup Terminal \cup {"absent"},
        class : FaultClasses,
        pid : BOOLEAN,          \* subprocess_pid is not NULL
        verified : BOOLEAN,     \* t0 and chaos_resource_name are not NULL
        evidence : BOOLEAN,     \* evidence_confirmed
        stop : BOOLEAN,         \* stop_hold_requested
        abandon : BOOLEAN]      \* abandon_requested

\* "recorded": record_episode has committed, the process has yet to exit.
InjectorStatus == {"none", "running", "recorded", "ok", "failed"}
ScorerStatus == {"none", "running", "ok", "failed"}
\* "pause" is the end of the request that starts the thread, "watch" and
\* "auto" are _wait_for_orphan's; "guard" is the except clause that both have,
\* and "release" the un-pause that belongs to it.
WrapperStep == {"none", "pause", "spawn", "pid", "polling", "exited",
                "timedOut", "await", "arm", "inline", "unpause",
                "watch", "auto", "guard", "release"}
ResolverStep == {"none", "cas", "settle", "scoring", "unpause", "publish"}

TypeOK ==
    /\ row \in [Episodes -> Row]
    /\ scored \subseteq Episodes
    /\ injector \in [Episodes -> InjectorStatus]
    /\ stopFile \subseteq Episodes
    /\ scorer \in [Episodes -> ScorerStatus]
    /\ wrapper \in [Episodes -> WrapperStep]
    /\ resolver \in [Episodes -> [Callers -> ResolverStep]]
    /\ timers \subseteq Episodes
    /\ leakPaused \in BOOLEAN
    /\ api \in {"up", "down", "reconciling"}
    /\ seen \in [Episodes -> Row]
    /\ runs \in [Episodes -> Nat]
    /\ abandoned \subseteq Episodes
    /\ lostPause \subseteq Episodes
    /\ crashes \in 0..CrashBound
    /\ guardedFaults \in 0..GuardedFaultBound
    /\ unguardedFaults \in 0..UnguardedFaultBound

NoThreads == [e \in Episodes |-> [t \in Callers |-> "none"]]

EmptyRow(c) == [state |-> "absent", class |-> c, pid |-> FALSE,
                verified |-> FALSE, evidence |-> FALSE, stop |-> FALSE,
                abandon |-> FALSE]

NoRows == [e \in Episodes |-> EmptyRow(CHOOSE c \in FaultClasses : TRUE)]

Init ==
    /\ row = NoRows
    /\ scored = {}
    /\ injector = [e \in Episodes |-> "none"]
    /\ stopFile = {}
    /\ scorer = [e \in Episodes |-> "none"]
    /\ wrapper = [e \in Episodes |-> "none"]
    /\ resolver = NoThreads
    /\ timers = {}
    /\ leakPaused = FALSE
    /\ api = "up"
    /\ seen = NoRows
    /\ runs = [e \in Episodes |-> 0]
    /\ abandoned = {} /\ lostPause = {}
    /\ crashes = 0 /\ guardedFaults = 0 /\ unguardedFaults = 0

InFlight(e) == row[e].state \in NonTerminal

\* The injector process of e is alive (os.kill(pid, 0) succeeds).
Alive(e) == injector[e] \in {"running", "recorded"}

-----------------------------------------------------------------------------
(* _set_episode_state.  The UPDATE is committed first.  A terminal          *)
(* transition then reads the class and lets checkout go on if it is         *)
(* memory-leak's: a step of its own, in which anything may have happened.   *)

SetEpisodeState(e, state) == row' = [row EXCEPT ![e].state = state]

\* Only a clean resolve lets checkout go on.
AfterTerminalResolvedOnly(e, next) ==
    IF row[e].class = MemoryLeak /\ next = "publish" THEN "unpause" ELSE next

\* Where a thread that has written a terminal state of e goes on; the SELECT
\* of any other class is no step.
AfterTerminal(e, next) ==
    IF row[e].class = MemoryLeak THEN "unpause" ELSE next

\* Episodes for which checkout is meant to be paused by now.
Leaking ==
    {e \in Episodes : /\ InFlight(e) /\ row[e].class = MemoryLeak
                      /\ wrapper[e] # "pause"}

\* _set_leak_checkout_paused(False), by a thread of e.
Unpause(e) ==
    /\ leakPaused' = FALSE
    /\ lostPause' = lostPause \cup (Leaking \ {e})
    /\ UNCHANGED <<runs, abandoned>>

-----------------------------------------------------------------------------
(* The requests.                                                           *)

\* The guard forgets the scorer's phase.
TriggerInjectIgnoresResolving(e, c) ==
    /\ api = "up"
    /\ row[e].state = "absent"
    /\ \A f \in Episodes : InFlight(f) => row[f].state = "resolving"
    /\ row' = [row EXCEPT ![e] = [EmptyRow(c) EXCEPT !.state = "injecting"]]
    /\ wrapper' = [wrapper EXCEPT ![e] = "pause"]
    /\ UNCHANGED <<scored, processes, resolver, timers, leakPaused, api, seen,
                   ghosts, faults>>

\* /trigger/inject: _TRIGGER_LOCK makes the check and the INSERT one step.
TriggerInject(e, c) ==
    /\ api = "up"
    /\ row[e].state = "absent"
    /\ \A f \in Episodes : ~InFlight(f)
    /\ row' = [row EXCEPT ![e] = [EmptyRow(c) EXCEPT !.state = "injecting"]]
    /\ wrapper' = [wrapper EXCEPT ![e] = "pause"]
    /\ UNCHANGED <<scored, processes, resolver, timers, leakPaused, api, seen,
                   ghosts, faults>>

\* The flag is set once the lock and the connection are given up, and then
\* the thread is started.
PauseCheckout(e) ==
    /\ wrapper[e] = "pause"
    /\ leakPaused' = (leakPaused \/ row[e].class = MemoryLeak)
    /\ wrapper' = [wrapper EXCEPT ![e] = "spawn"]
    /\ UNCHANGED <<db, processes, resolver, timers, api, seen, ghosts, faults>>

\* _audit or thread.start() raises: the request fails, the row stays.
TriggerInjectRaises(e) ==
    /\ unguardedFaults < UnguardedFaultBound
    /\ wrapper[e] = "pause"
    /\ unguardedFaults' = unguardedFaults + 1
    /\ leakPaused' \in {leakPaused, leakPaused \/ row[e].class = MemoryLeak}
    /\ wrapper' = [wrapper EXCEPT ![e] = "none"]
    /\ UNCHANGED <<db, processes, resolver, timers, api, seen, ghosts,
                   crashes, guardedFaults>>

TriggerStopHold(e) ==
    /\ api = "up"
    /\ row[e].state = "holding" /\ row[e].evidence
    /\ row' = [row EXCEPT ![e].stop = TRUE]
    /\ UNCHANGED <<scored, processes, threads, leakPaused, api, seen,
                   ghosts, faults>>

\* /trigger/resolve looks at the state and starts a thread; the thread's
\* compare-and-set comes later.
TriggerResolve(e, k) ==
    /\ api = "up"
    /\ row[e].state = "awaiting_fix"
    /\ resolver[e][k] = "none"
    /\ resolver' = [resolver EXCEPT ![e][k] = "cas"]
    /\ UNCHANGED <<db, processes, wrapper, timers, leakPaused, api,
                   seen, ghosts, faults>>

\* /logout by the account that triggered e
Logout(e) ==
    /\ api = "up"
    /\ InFlight(e) /\ ~row[e].abandon
    /\ row' = [row EXCEPT ![e].abandon = TRUE]
    /\ abandoned' = IF wrapper[e] \in {"pause", "spawn", "pid", "polling",
                                       "exited"}
                    THEN abandoned \cup {e} ELSE abandoned
    /\ UNCHANGED <<scored, processes, threads, leakPaused, api, seen, runs,
                   lostPause, faults>>

-----------------------------------------------------------------------------
(* injector.py, as the wrapper sees it.                                    *)

\* record_episode fills in the row once the fault is verified.
InjectorRecords(e) ==
    /\ injector[e] = "running"
    /\ injector' = [injector EXCEPT ![e] = "recorded"]
    /\ row' = [row EXCEPT ![e].verified = TRUE]
    /\ UNCHANGED <<scored, stopFile, scorer, threads, leakPaused, api, seen,
                   ghosts, faults>>

\* An exit before the record is a failed injection; one after it can still
\* fail in the finally block that releases the system lock.
InjectorExits(e, code) ==
    /\ Alive(e)
    /\ code = "ok" => injector[e] = "recorded"
    /\ injector' = [injector EXCEPT ![e] = code]
    /\ UNCHANGED <<db, stopFile, scorer, threads, leakPaused, api, seen,
                   ghosts, faults>>

-----------------------------------------------------------------------------
(* The wrapper thread, _run_live_episode_inner.                            *)

SpawnInjector(e) ==
    /\ wrapper[e] = "spawn"
    /\ injector' = [injector EXCEPT ![e] = "running"]
    /\ wrapper' = [wrapper EXCEPT ![e] = "pid"]
    /\ UNCHANGED <<db, stopFile, scorer, resolver, timers,
                   leakPaused, api, seen, ghosts, faults>>

RecordPid(e) ==
    /\ wrapper[e] = "pid"
    /\ row' = [row EXCEPT ![e].pid = TRUE,
                          ![e].state = IF row[e].class \in HoldingClasses
                                       THEN "holding" ELSE @]
    /\ wrapper' = [wrapper EXCEPT ![e] = "polling"]
    /\ UNCHANGED <<scored, processes, resolver, timers, leakPaused,
                   api, seen, ghosts, faults>>

\* One tick for a holding class: note confirmed evidence, and turn a request
\* to stop, or an abandon, into the stop-file.
Tick(e, confirmed) ==
    /\ wrapper[e] = "polling"
    /\ row[e].class \in HoldingClasses
    /\ Alive(e)
    /\ row' = [row EXCEPT ![e].evidence = @ \/ confirmed]
    /\ stopFile' = IF row[e].stop \/ row[e].abandon
                   THEN stopFile \cup {e} ELSE stopFile
    /\ <<row, stopFile>>' # <<row, stopFile>>
    /\ UNCHANGED <<scored, injector, scorer, threads, leakPaused, api, seen,
                   ghosts, faults>>

InjectorExitSeen(e) ==
    /\ wrapper[e] = "polling"
    /\ ~Alive(e)
    /\ wrapper' = [wrapper EXCEPT ![e] = "exited"]
    /\ UNCHANGED <<db, processes, resolver, timers, leakPaused, api,
                   seen, ghosts, faults>>

\* Past the deadline: terminate, then kill.
InjectorTimesOut(e) ==
    /\ wrapper[e] = "polling"
    /\ injector' = [injector EXCEPT ![e] = IF Alive(e) THEN "failed" ELSE @]
    /\ wrapper' = [wrapper EXCEPT ![e] = "timedOut"]
    /\ UNCHANGED <<db, stopFile, scorer, resolver, timers,
                   leakPaused, api, seen, ghosts, faults>>

Succeeded(e) ==
    wrapper[e] = "exited" /\ injector[e] = "ok" /\ row[e].verified

\* The abandon flag is not consulted.
ClassifyExitIgnoresAbandon(e) ==
    /\ wrapper[e] \in {"exited", "timedOut"}
    /\ IF Succeeded(e)
       THEN /\ wrapper' = [wrapper EXCEPT ![e] = "await"]
            /\ UNCHANGED row
       ELSE /\ SetEpisodeState(e, "failed")
            /\ wrapper' = [wrapper EXCEPT ![e] = AfterTerminal(e, "none")]
    /\ UNCHANGED <<scored, processes, resolver, timers, leakPaused, api, seen,
                   ghosts, faults>>

ClassifyExit(e) ==
    /\ wrapper[e] \in {"exited", "timedOut"}
    /\ IF Succeeded(e) /\ ~row[e].abandon
       THEN /\ wrapper' = [wrapper EXCEPT ![e] = "await"]
            /\ UNCHANGED row
       ELSE /\ SetEpisodeState(e, "failed")
            /\ wrapper' = [wrapper EXCEPT ![e] = AfterTerminal(e, "none")]
    /\ UNCHANGED <<scored, processes, resolver, timers, leakPaused, api, seen,
                   ghosts, faults>>

\* A report-only class goes on into _attempt_resolve on this thread.
AwaitFix(e) ==
    /\ wrapper[e] = "await"
    /\ SetEpisodeState(e, "awaiting_fix")
    /\ IF row[e].class \in AutoFixClasses
       THEN /\ wrapper' = [wrapper EXCEPT ![e] = "arm"]
            /\ UNCHANGED resolver
       ELSE /\ wrapper' = [wrapper EXCEPT ![e] = "inline"]
            /\ resolver' = [resolver EXCEPT ![e]["inline"] = "cas"]
    /\ UNCHANGED <<scored, processes, timers, leakPaused, api, seen, ghosts,
                   faults>>

ArmTimer(e) ==
    /\ wrapper[e] = "arm"
    /\ timers' = timers \cup {e}
    /\ wrapper' = [wrapper EXCEPT ![e] = "none"]
    /\ UNCHANGED <<db, processes, resolver, leakPaused, api, seen,
                   ghosts, faults>>

\* The un-pause of a terminal write by this thread or by its guard
UnpauseWrapper(e) ==
    /\ wrapper[e] \in {"unpause", "release"}
    /\ Unpause(e)
    /\ wrapper' = [wrapper EXCEPT ![e] = "none"]
    /\ UNCHANGED <<db, processes, resolver, timers, api, seen, faults>>

\* An exception in this thread is caught by _run_live_episode, or by
\* _wait_for_orphan's own clause; os.kill's are the poll's answer.
WrapperRaises(e) ==
    /\ guardedFaults < GuardedFaultBound
    /\ wrapper[e] \notin {"none", "pause", "inline", "guard", "release"}
    /\ wrapper[e] = "watch" => ~Alive(e)
    /\ guardedFaults' = guardedFaults + 1
    /\ wrapper' = [wrapper EXCEPT ![e] = "guard"]
    /\ UNCHANGED <<db, processes, resolver, timers, leakPaused, api, seen,
                   ghosts, crashes, unguardedFaults>>

\* The guard fails the row, whatever its state is by now.
Guard(e) ==
    /\ wrapper[e] = "guard"
    /\ SetEpisodeState(e, "failed")
    /\ wrapper' = [wrapper EXCEPT ![e] =
                      IF row[e].class = MemoryLeak THEN "release" ELSE "none"]
    /\ UNCHANGED <<scored, processes, resolver, timers, leakPaused, api, seen,
                   ghosts, faults>>

\* "additionally failed to mark episode failed"
GuardRaises(e) ==
    /\ unguardedFaults < UnguardedFaultBound
    /\ wrapper[e] \in {"guard", "release"}
    /\ unguardedFaults' = unguardedFaults + 1
    /\ wrapper' = [wrapper EXCEPT ![e] = "none"]
    /\ UNCHANGED <<db, processes, resolver, timers, leakPaused, api, seen,
                   ghosts, crashes, guardedFaults>>

-----------------------------------------------------------------------------
(* _attempt_resolve.                                                       *)

\* Thread t of e goes on to step; the wrapper thread ends with its inline
\* call.
Resolver(e, t, step) ==
    /\ resolver' = [resolver EXCEPT ![e][t] = step]
    /\ wrapper' = IF t = "inline" /\ step = "none"
                  THEN [wrapper EXCEPT ![e] = "none"] ELSE wrapper

\* The state was checked when the thread was started, and is not again.
CompareAndSetBlind(e, t) ==
    /\ resolver[e][t] = "cas"
    /\ row' = [row EXCEPT ![e].state = "resolving"]
    /\ timers' = timers \ {e}
    /\ Resolver(e, t, "settle")
    /\ UNCHANGED <<scored, processes, leakPaused, api, seen, ghosts,
                   faults>>

\* Gate 2: the winner cancels the Timer; everyone else is done.
CompareAndSet(e, t) ==
    /\ resolver[e][t] = "cas"
    /\ IF row[e].state = "awaiting_fix"
       THEN /\ row' = [row EXCEPT ![e].state = "resolving"]
            /\ timers' = timers \ {e}
            /\ Resolver(e, t, "settle")
       ELSE /\ Resolver(e, t, "none")
            /\ UNCHANGED <<row, timers>>
    /\ UNCHANGED <<scored, processes, leakPaused, api, seen, ghosts,
                   faults>>

TimerFires(e) ==
    /\ e \in timers
    /\ timers' = timers \ {e}
    /\ resolver' = [resolver EXCEPT ![e]["timer"] = "cas"]
    /\ UNCHANGED <<db, processes, wrapper, leakPaused, api, seen,
                   ghosts, faults>>

\* After the settle wait
StartScorer(e, t) ==
    /\ resolver[e][t] = "settle"
    /\ scorer' = [scorer EXCEPT ![e] = "running"]
    /\ runs' = [runs EXCEPT ![e] = @ + 1]
    /\ Resolver(e, t, "scoring")
    /\ UNCHANGED <<db, injector, stopFile, timers, leakPaused, api, seen,
                   abandoned, lostPause, faults>>

ScorerScores(e) ==
    /\ scorer[e] = "running"
    /\ e \notin scored
    /\ scored' = scored \cup {e}
    /\ UNCHANGED <<row, processes, threads, leakPaused, api, seen, ghosts,
                   faults>>

ScorerExits(e, code) ==
    /\ scorer[e] = "running"
    /\ code = "ok" => e \in scored
    /\ scorer' = [scorer EXCEPT ![e] = code]
    /\ UNCHANGED <<db, injector, stopFile, threads, leakPaused, api, seen,
                   ghosts, faults>>

ScorerDone(e, t) ==
    /\ resolver[e][t] = "scoring"
    /\ scorer[e] \in {"ok", "failed"}
    /\ IF scorer[e] = "ok"
       THEN /\ SetEpisodeState(e, "resolved")
            /\ Resolver(e, t, AfterTerminal(e, "publish"))
       ELSE /\ SetEpisodeState(e, "failed")
            /\ Resolver(e, t, AfterTerminal(e, "none"))
    /\ UNCHANGED <<scored, processes, timers, leakPaused, api, seen, ghosts,
                   faults>>

\* SCORER_TIMEOUT_S: subprocess.run kills the scorer and raises.
ScorerTimesOut(e, t) ==
    /\ resolver[e][t] = "scoring"
    /\ scorer[e] = "running"
    /\ scorer' = [scorer EXCEPT ![e] = "failed"]
    /\ UNCHANGED <<db, injector, stopFile, threads, leakPaused, api, seen,
                   ghosts, faults>>

UnpauseResolver(e, t) ==
    /\ resolver[e][t] = "unpause"
    /\ Unpause(e)
    /\ Resolver(e, t, IF scorer[e] = "ok" THEN "publish" ELSE "none")
    /\ UNCHANGED <<db, processes, timers, api, seen, faults>>

\* _republish_to_r2, and republished_at
Republish(e, t) ==
    /\ resolver[e][t] = "publish"
    /\ Resolver(e, t, "none")
    /\ UNCHANGED <<db, processes, timers, leakPaused, api, seen, ghosts,
                   faults>>

\* An exception anywhere in _attempt_resolve but in the scorer's run, which
\* is caught: at the compare-and-set, by its loser too, and in every later
\* statement.  Only the wrapper's own call has a guard above it; any other
\* thread just ends.
ResolverRaises(e, t) ==
    /\ resolver[e][t] # "none"
    /\ resolver[e][t] = "scoring" => scorer[e] # "running"
    /\ resolver' = [resolver EXCEPT ![e][t] = "none"]
    /\ IF t = "inline"
       THEN /\ guardedFaults < GuardedFaultBound
            /\ guardedFaults' = guardedFaults + 1
            /\ wrapper' = [wrapper EXCEPT ![e] = "guard"]
            /\ UNCHANGED unguardedFaults
       ELSE /\ unguardedFaults < UnguardedFaultBound
            /\ unguardedFaults' = unguardedFaults + 1
            /\ UNCHANGED <<wrapper, guardedFaults>>
    /\ UNCHANGED <<db, processes, timers, leakPaused, api, seen, ghosts,
                   crashes>>

-----------------------------------------------------------------------------
(* Crash, restart and _reconcile_on_startup.                               *)

\* Of the running subprocesses, those in survivors live on.
Crash(survivors) ==
    /\ crashes < CrashBound
    /\ api # "down"
    /\ crashes' = crashes + 1
    /\ api' = "down"
    /\ wrapper' = [e \in Episodes |-> "none"]
    /\ resolver' = NoThreads
    /\ timers' = {}
    /\ leakPaused' = FALSE
    /\ lostPause' = lostPause \cup Leaking
    /\ injector' = [e \in Episodes |->
          IF Alive(e) /\ "injector" \notin survivors THEN "failed"
          ELSE injector[e]]
    /\ scorer' = [e \in Episodes |->
          IF scorer[e] = "running" /\ "scorer" \notin survivors THEN "failed"
          ELSE scorer[e]]
    /\ UNCHANGED <<db, stopFile, seen, runs, abandoned, guardedFaults,
                   unguardedFaults>>

\* The SELECT; whether the injector is alive is asked after it.
ReadRows ==
    /\ api = "down"
    /\ api' = "reconciling"
    /\ seen' = row
    /\ UNCHANGED <<db, processes, threads, leakPaused, ghosts, faults>>

\* A row being resolved is put back in the queue.
ReconciledRetries(e, overdue) ==
    LET was == seen[e]
    IN CASE was.state \in {"injecting", "holding"} /\ Alive(e) /\ was.pid ->
              [state |-> was.state, thread |-> "orphan"]
         [] was.state \in {"injecting", "holding"} /\ ~(Alive(e) /\ was.pid) ->
              [state |-> "failed", thread |-> "none"]
         [] was.state \in {"awaiting_fix", "resolving"} ->
              [state |-> "awaiting_fix",
               thread |-> IF overdue THEN "auto" ELSE "timer"]
         [] OTHER -> [state |-> was.state, thread |-> "none"]

\* A row without a pid is left for a later look.
ReconciledGrace(e, overdue) ==
    LET was == seen[e]
    IN CASE was.state \in {"injecting", "holding"} /\ ~was.pid ->
              [state |-> was.state, thread |-> "none"]
         [] was.state \in {"injecting", "holding"} /\ was.pid /\ Alive(e) ->
              [state |-> was.state, thread |-> "orphan"]
         [] was.state \in {"injecting", "holding"} /\ was.pid /\ ~Alive(e) ->
              IF was.verified
              THEN [state |-> "awaiting_fix", thread |-> "auto"]
              ELSE [state |-> "failed", thread |-> "none"]
         [] was.state = "awaiting_fix" ->
              [state |-> was.state,
               thread |-> IF overdue THEN "auto" ELSE "timer"]
         [] was.state = "resolving" ->
              [state |-> IF e \in scored THEN "resolved" ELSE "failed",
               thread |-> "none"]
         [] OTHER -> [state |-> was.state, thread |-> "none"]

\* The states and threads _reconcile_one_row leaves e with.  overdue: the
\* five minutes of awaiting_fix have passed.
Reconciled(e, overdue) ==
    LET was == seen[e]
    IN CASE was.state \in {"injecting", "holding"} /\ ~was.pid ->
              [state |-> "failed", thread |-> "none"]
         [] was.state \in {"injecting", "holding"} /\ was.pid /\ Alive(e) ->
              [state |-> was.state, thread |-> "orphan"]
         [] was.state \in {"injecting", "holding"} /\ was.pid /\ ~Alive(e) ->
              IF was.verified
              THEN [state |-> "awaiting_fix", thread |-> "auto"]
              ELSE [state |-> "failed", thread |-> "none"]
         [] was.state = "awaiting_fix" ->
              [state |-> was.state,
               thread |-> IF overdue THEN "auto" ELSE "timer"]
         [] was.state = "resolving" ->
              [state |-> IF e \in scored THEN "resolved" ELSE "failed",
               thread |-> "none"]
         [] OTHER -> [state |-> was.state, thread |-> "none"]

ReconcileOnStartup(overdue) ==
    /\ api = "reconciling"
    /\ api' = "up"
    /\ LET after == [e \in Episodes |-> Reconciled(e, overdue)]
       IN /\ row' = [e \in Episodes |->
                        [row[e] EXCEPT !.state = after[e].state]]
          /\ wrapper' = [e \in Episodes |->
                IF after[e].thread = "orphan" THEN "watch" ELSE "none"]
          /\ timers' = {e \in Episodes : after[e].thread = "timer"}
          /\ resolver' = [e \in Episodes |-> [NoThreads[e] EXCEPT
                !["auto"] = IF after[e].thread = "auto" THEN "cas" ELSE @]]
    /\ seen' = NoRows
    /\ UNCHANGED <<scored, processes, leakPaused, ghosts, faults>>

\* _wait_for_orphan, once the process it polls is gone
OrphanGone(e) ==
    /\ wrapper[e] = "watch"
    /\ ~Alive(e)
    /\ IF row[e].verified
       THEN /\ SetEpisodeState(e, "awaiting_fix")
            /\ wrapper' = [wrapper EXCEPT ![e] = "auto"]
       ELSE /\ SetEpisodeState(e, "failed")
            /\ wrapper' = [wrapper EXCEPT ![e] = AfterTerminal(e, "none")]
    /\ UNCHANGED <<scored, processes, resolver, timers, leakPaused, api, seen,
                   ghosts, faults>>

StartAuto(e) ==
    /\ wrapper[e] = "auto"
    /\ resolver' = [resolver EXCEPT ![e]["auto"] = "cas"]
    /\ wrapper' = [wrapper EXCEPT ![e] = "none"]
    /\ UNCHANGED <<db, processes, timers, leakPaused, api, seen, ghosts,
                   faults>>

-----------------------------------------------------------------------------
WrapperNext(e) ==
    \/ PauseCheckout(e) \/ SpawnInjector(e) \/ RecordPid(e)
    \/ InjectorExitSeen(e) \/ ClassifyExit(e) \/ AwaitFix(e) \/ ArmTimer(e)
    \/ OrphanGone(e) \/ StartAuto(e) \/ Guard(e) \/ UnpauseWrapper(e)

ResolverNext(e, t) ==
    \/ CompareAndSet(e, t) \/ StartScorer(e, t) \/ ScorerDone(e, t)
    \/ UnpauseResolver(e, t) \/ Republish(e, t)

Requests(e) ==
    \/ \E c \in FaultClasses : TriggerInject(e, c)
    \/ TriggerStopHold(e) \/ Logout(e)
    \/ \E k \in Clicks : TriggerResolve(e, k)

Restart == ReadRows \/ \E overdue \in BOOLEAN : ReconcileOnStartup(overdue)

\* Every episode is over and the API is idle; or an exception that no guard
\* caught has left a row in flight without a thread, and every trigger is
\* refused.
Done ==
    /\ \A e \in Episodes : /\ row[e].state \in Terminal \/ unguardedFaults > 0
                           /\ wrapper[e] = "none" /\ ~Alive(e)
                           /\ scorer[e] # "running"
                           /\ resolver[e] = NoThreads[e]
    /\ timers = {}
    /\ UNCHANGED vars

Next ==
    \/ \E e \in Episodes :
          \/ Requests(e) \/ WrapperNext(e) \/ InjectorTimesOut(e)
          \/ \E confirmed \in BOOLEAN : Tick(e, confirmed)
          \/ InjectorRecords(e) \/ TimerFires(e) \/ ScorerScores(e)
          \/ \E code \in {"ok", "failed"} :
                InjectorExits(e, code) \/ ScorerExits(e, code)
          \/ \E t \in Callers : \/ ResolverNext(e, t) \/ ScorerTimesOut(e, t)
                                \/ ResolverRaises(e, t)
          \/ WrapperRaises(e) \/ GuardRaises(e) \/ TriggerInjectRaises(e)
    \/ Restart
    \/ \E survivors \in SUBSET {"injector", "scorer"} : Crash(survivors)
    \/ Done

Spec == Init /\ [][Next]_vars

\* Threads run, Timers fire, subprocesses end by themselves or at their
\* timeout, and a crashed API is started again.
Fairness ==
    /\ WF_vars(Restart)
    /\ \A e \in Episodes :
          /\ WF_vars(WrapperNext(e))
          /\ WF_vars(TimerFires(e))
          /\ WF_vars(\E code \in {"ok", "failed"} : InjectorExits(e, code))
          /\ WF_vars(\E code \in {"ok", "failed"} : ScorerExits(e, code))
          /\ \A t \in Callers : WF_vars(ResolverNext(e, t))

FairSpec == Spec /\ Fairness

-----------------------------------------------------------------------------
(***************************************************************************)
(* Properties.                                                             *)
(***************************************************************************)

\* At most one episode is in flight, whatever crashes, restarts and failing
\* threads do to the rows (_TRIGGER_LOCK and _in_flight_episode_row).
SingleInFlight ==
    \A e, f \in Episodes : InFlight(e) /\ InFlight(f) => e = f

\* Gate 2 lets an episode be scored once: clicks, Timer, inline call and
\* reconciliation together start at most one scorer ("Not safely re-runnable
\* blind", operator_api.py:2143).
ScoredOnce == \A e \in Episodes : runs[e] <= 1

\* Nothing revives an episode that is over.  Its label stands too, in a run in
\* which no guard caught an exception.  A guard fails the row whatever it says
\* (operator_api.py:1378, :2073), and if it did so under a scorer, the thread
\* that waits for that scorer still writes the outcome.
TerminalIsFinal ==
    [][\A e \in Episodes :
          row[e].state \in Terminal =>
              \/ row'[e].state = row[e].state
              \/ wrapper[e] = "guard" /\ row'[e].state = "failed"
              \/ /\ guardedFaults > 0 /\ row[e].state = "failed"
                 /\ row'[e].state \in Terminal
                 /\ \E t \in Callers : resolver[e][t] = "scoring"]_vars

\* A resolved episode has its scores row, also when the scorer outlived the
\* API and reconciliation made the transition.
ResolvedMeansScored ==
    \A e \in Episodes : row[e].state = "resolved" => e \in scored

\* Which threads a row's state admits.  A wrapper or an orphan's watcher that
\* is still about the injector owns the row; a thread past the compare-and-set
\* and not yet past the scorer owns it too, and there is one of them; any
\* other thread finds out at its own compare-and-set.  Only a guard writes a
\* row that it does not own.
Early == {"absent", "injecting", "holding"}

ThreadsFit ==
    \A e \in Episodes :
        /\ wrapper[e] \in {"pause", "spawn", "pid"}
              => row[e].state = "injecting"
        /\ wrapper[e] \in {"polling", "exited", "timedOut", "await", "watch"}
              => row[e].state \in {"injecting", "holding"}
        /\ wrapper[e] \in {"arm", "auto", "inline"} => row[e].state \notin Early
        /\ wrapper[e] \in {"unpause", "release"} => row[e].state \in Terminal
        /\ wrapper[e] = "guard" => row[e].state # "absent" /\ guardedFaults > 0
        /\ e \in timers => row[e].state \notin Early
        /\ (resolver[e]["inline"] # "none") = (wrapper[e] = "inline")
        /\ \A t \in Callers :
              /\ resolver[e][t] # "none" => row[e].state \notin Early
              /\ resolver[e][t] \in {"settle", "scoring"}
                    => \/ row[e].state = "resolving"
                       \/ row[e].state = "failed" /\ guardedFaults > 0
              /\ resolver[e][t] \in {"unpause", "publish"}
                    => row[e].state \in Terminal
        /\ \A t, u \in Callers :
              /\ resolver[e][t] \in {"settle", "scoring"}
              /\ resolver[e][u] \in {"settle", "scoring"}
              => t = u

\* A process that is not up has no threads and no memory, and what
\* reconciliation has read of a row's state stays true until it acts on it.
DownIsQuiet ==
    /\ api # "up" => /\ \A e \in Episodes : wrapper[e] = "none"
                     /\ \A e \in Episodes : \A t \in Callers :
                           resolver[e][t] = "none"
                     /\ timers = {}
                     /\ ~leakPaused
    /\ api = "reconciling" =>
          \A e \in Episodes : seen[e].state = row[e].state

\* A scorer is owed until the row is resolving, and its word is good.
ScorerIsOwed ==
    \A e \in Episodes :
        /\ row[e].state \in Early \cup {"awaiting_fix"} => runs[e] = 0
        /\ \A t \in Callers : resolver[e][t] = "settle" => runs[e] = 0
        /\ scorer[e] = "ok" => e \in scored

\* _attempt_resolve and _reconcile_one_row together: an episode is scored at
\* most once, and a resolved one exactly once.
LiveInv ==
    /\ TypeOK /\ ScoredOnce /\ ResolvedMeansScored
    /\ ThreadsFit /\ DownIsQuiet /\ ScorerIsOwed

\* Checkout stays paused only while a memory-leak episode is in flight or a
\* thread is about to un-pause ("must not leave checkout permanently paused",
\* operator_api.py:1086), unless an exception ended that thread.
PauseEndsWithEpisode ==
    leakPaused /\ unguardedFaults = 0 =>
        \E e \in Episodes :
            /\ row[e].class = MemoryLeak
            /\ \/ InFlight(e)
               \/ wrapper[e] \in {"unpause", "guard", "release"}
               \/ \E t \in Callers : resolver[e][t] = "unpause"

\* From the injector's start until a memory-leak episode is over, checkout is
\* paused ("no window where the injector subprocess could already be running
\* while baseline.js still sees an unpaused flag", operator_api.py:1741), with
\* two exceptions that lostPause keeps: a crash forgets the flag, and a thread
\* of an earlier memory-leak episode may un-pause after the next one's pause.
PausedWhileLeaking ==
    \A e \in Episodes :
        /\ InFlight(e) /\ row[e].class = MemoryLeak
        /\ wrapper[e] = "spawn" \/ injector[e] # "none"
        => leakPaused \/ e \in lostPause

\* The in-memory flag of operator_api.py:106 follows the memory-leak episode:
\* it does not outlast it, and ends before it only by a crash or by the
\* un-pause of another.
CheckoutPause == PauseEndsWithEpisode /\ PausedWhileLeaking

\* A user who abandons before the injector's exit is classified is never
\* scored (operator_api.py:1575), as long as the API does not restart.
AbandonHonoured ==
    crashes = 0 => \A e \in abandoned : runs[e] = 0

\* "at most one episode in flight system-wide" (operator_api.py:98): while
\* the API neither crashes nor meets an exception, no injector is on the
\* cluster while another episode's scorer, which may be about to dispatch a
\* fix, is running; clicks, Timers, logouts and timeouts never make it so.
InjectorNeverMeetsScorer ==
    crashes + guardedFaults + unguardedFaults = 0 =>
        \A e, f \in Episodes : Alive(e) /\ scorer[f] = "running" => e = f

\* Every episode ends: whatever crashes, the row reaches a terminal state
\* and the next trigger is not refused for ever.
EveryEpisodeEnds ==
    \A e \in Episodes : InFlight(e) ~> row[e].state \in Terminal
=============================================================================
