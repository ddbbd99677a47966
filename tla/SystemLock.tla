----------------------------- MODULE SystemLock -----------------------------
(***************************************************************************)
(* The system_lock row of wardence.db: the lock every injector.py process, *)
(* of the live trigger or of a batch, holds while it changes the cluster.  *)
(* A lock older than SYSTEM_LOCK_STALE_S is taken for abandoned.  Time is  *)
(* counted in units of the reader's choice, the runs use 100 seconds.      *)
(***************************************************************************)
EXTENDS Naturals

CONSTANTS
    Injectors,      \* injector.py processes
    Live,           \* the ones operator_api.py started and watches
    Ceiling,        \* [Injectors -> Nat], INJECT_SUBPROCESS_TIMEOUT_S of a
                    \*   live run, the measured worst case of a batch's
    StaleAfter,     \* SYSTEM_LOCK_STALE_S
    MaxWait,        \* SYSTEM_LOCK_MAX_WAIT_S
    NoOne,          \* holder IS NULL
    KillBound       \* bound on processes that die by themselves

ASSUME SystemLockAssumption ==
    /\ Live \subseteq Injectors
    /\ Ceiling \in [Injectors -> Nat]
    /\ StaleAfter \in Nat
    /\ MaxWait \in Nat
    /\ KillBound \in Nat
    /\ NoOne \notin Injectors

VARIABLES
    holder,     \* the row's holder
    age,        \* now - acquired_at, counted to just past StaleAfter
    pc,         \* [Injectors -> {"idle", "waiting", "running"}]
    spent,      \* [Injectors -> Nat], time in the present pc
    kills

vars == <<holder, age, pc, spent, kills>>

Init ==
    /\ holder = NoOne
    /\ age = 0
    /\ pc = [i \in Injectors |-> "idle"]
    /\ spent = [i \in Injectors |-> 0]
    /\ kills = 0

\* Process i moves on, and its time starts again.
Goes(i, step) ==
    /\ pc' = [pc EXCEPT ![i] = step]
    /\ spent' = [spent EXCEPT ![i] = 0]

Begin(i) ==
    /\ pc[i] = "idle"
    /\ Goes(i, "waiting")
    /\ UNCHANGED <<holder, age, kills>>

\* A lock is never too old.
AvailableNeverStale == holder = NoOne

\* The WHERE clause of _acquire_system_lock
Available == holder = NoOne \/ age > StaleAfter

\* acquired_at keeps the previous holder's time.
AcquireSystemLockKeepsTime(i) ==
    /\ pc[i] = "waiting"
    /\ Available
    /\ holder' = i
    /\ Goes(i, "running")
    /\ UNCHANGED <<age, kills>>

\* The row is read before the UPDATE, whose WHERE clause no longer tests it.
AcquireSystemLockUnchecked(i) ==
    /\ pc[i] = "waiting"
    /\ holder' = i
    /\ age' = 0
    /\ Goes(i, "running")
    /\ UNCHANGED kills

AcquireSystemLock(i) ==
    /\ pc[i] = "waiting"
    /\ Available
    /\ holder' = i
    /\ age' = 0
    /\ Goes(i, "running")
    /\ UNCHANGED kills

\* acquire_system_lock_or_die: SystemExit after the last refused attempt
GiveUp(i) ==
    /\ pc[i] = "waiting"
    /\ spent[i] >= MaxWait
    /\ ~Available
    /\ Goes(i, "idle")
    /\ UNCHANGED <<holder, age, kills>>

\* Whoever finishes frees the lock.
ReleaseSystemLockBlind(i) ==
    /\ pc[i] = "running"
    /\ holder' = NoOne
    /\ Goes(i, "idle")
    /\ UNCHANGED <<age, kills>>

\* The finally block: only a holder's own lock is freed.
ReleaseSystemLock(i) ==
    /\ pc[i] = "running"
    /\ holder' = IF holder = i THEN NoOne ELSE holder
    /\ Goes(i, "idle")
    /\ UNCHANGED <<age, kills>>

\* The wrapper's terminate() at the deadline.  injector.py installs no
\* handler, so SIGTERM ends the interpreter without its finally blocks.
Terminate(i) ==
    /\ i \in Live
    /\ pc[i] = "running"
    /\ spent[i] = Ceiling[i]
    /\ Goes(i, "idle")
    /\ UNCHANGED <<holder, age, kills>>

\* A process that dies on its own: out of memory, a reboot.
Dies(i) ==
    /\ kills < KillBound
    /\ kills' = kills + 1
    /\ pc[i] = "running"
    /\ Goes(i, "idle")
    /\ UNCHANGED <<holder, age>>

\* Time passes, but no run outlives its ceiling and no wait its maximum (a
\* batch run's polls are bounded: it ends by itself).
Tick ==
    /\ \A i \in Injectors :
          /\ pc[i] = "running" => spent[i] < Ceiling[i]
          /\ pc[i] = "waiting" => spent[i] < MaxWait
    /\ age' = IF age <= StaleAfter THEN age + 1 ELSE age
    /\ spent' = [i \in Injectors |->
                    IF pc[i] = "idle" THEN spent[i] ELSE spent[i] + 1]
    /\ UNCHANGED <<holder, pc, kills>>

Step(i) == \/ AcquireSystemLock(i) \/ GiveUp(i)
           \/ ReleaseSystemLock(i) \/ Terminate(i)

Next ==
    \/ \E i \in Injectors : Begin(i) \/ Step(i) \/ Dies(i)
    \/ Tick

Spec == Init /\ [][Next]_vars

\* Time goes on and processes run.
Fairness ==
    /\ WF_vars(Tick)
    /\ \A i \in Injectors : WF_vars(Step(i))

FairSpec == Spec /\ Fairness

TypeOK ==
    /\ holder \in Injectors \cup {NoOne}
    /\ age \in 0..(StaleAfter + 1)
    /\ pc \in [Injectors -> {"idle", "waiting", "running"}]
    /\ spent \in [Injectors -> Nat]
    /\ kills \in 0..KillBound

-----------------------------------------------------------------------------
(***************************************************************************)
(* Properties.                                                             *)
(***************************************************************************)

\* A run is covered by the lock until it is older than the margin.
Covered(i) == pc[i] = "running" /\ spent[i] <= StaleAfter

\* The runs whose ceiling exceeds the margin: of the ceilings the code sets,
\* the live cpu-throttling's 900 seconds (operator_api.py:344) against the 600
\* of SYSTEM_LOCK_STALE_S (injector.py:1056), and no other.
Slow == {i \in Injectors : Ceiling[i] > StaleAfter}

\* "only one real cluster mutation in flight, system-wide" (injector.py:1048)
\* fails through a slow run alone: of two injectors that change the cluster at
\* once one is slow and has outlasted the margin.  The others exclude one
\* another, whoever dies, waits or gives up.
OverlapTakesASlowRun ==
    \A i, j \in Injectors :
        pc[i] = "running" /\ pc[j] = "running" /\ i # j
            => \E k \in {i, j} \cap Slow : spent[k] > StaleAfter

\* What _acquire_system_lock guarantees whatever the ceilings: two injectors
\* that run together are there because one of them outlasted the margin.
ExclusionWithinMargin ==
    \A i, j \in Injectors : Covered(i) /\ Covered(j) => i = j

\* A run that lost its lock to the staleness rule "can never release someone
\* else's real, still-active lock" (injector.py:1100): while the holder runs,
\* the row changes hands by staleness alone.
OnlyStaleLocksAreTaken ==
    [][\A i \in Injectors :
          holder = i /\ pc[i] = "running" /\ pc'[i] = "running" /\ holder' # i
             => age > StaleAfter]_vars

\* What ties the row's acquired_at to the run it protects: a covered run
\* holds the lock, which is exactly as old as the run.  Inductive, through
\* takeovers, deaths and late releases by runs that lost their lock.
LockInv ==
    /\ TypeOK
    /\ \A i \in Injectors :
          /\ Covered(i) => holder = i /\ spent[i] = age
          /\ pc[i] = "running" => spent[i] <= Ceiling[i]

\* "a crashed process that never released the lock can't wedge the system
\* forever" (injector.py:1052): the lock of a process that is gone becomes
\* available or passes on.
DeadHolderNeverWedges ==
    \A i \in Injectors :
        holder = i /\ pc[i] # "running" ~> Available \/ holder # i
=============================================================================
