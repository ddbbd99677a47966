-------------------------- MODULE LiveEpisodeProofs --------------------------
(***************************************************************************)
(* Proofs about the life of a live-triggered episode, for every number of  *)
(* episodes, fault classes and concurrent clicks, and every bound on       *)
(* crashes of the API and exceptions in its threads.                       *)
(***************************************************************************)
EXTENDS LiveEpisode, TLAPS

States == NonTerminal \cup Terminal \cup {"absent"}

-----------------------------------------------------------------------------
(* What a write to the episodes table or to a thread leaves alone.         *)

\* _set_episode_state moves one row and keeps its other columns.
LEMMA StateWritten ==
    ASSUME row \in [Episodes -> Row], NEW e \in Episodes,
           NEW state \in States, row' = [row EXCEPT ![e].state = state]
    PROVE  /\ row' \in [Episodes -> Row]
           /\ row'[e].state = state
           /\ row'[e].class = row[e].class /\ row'[e].abandon = row[e].abandon
           /\ \A f \in Episodes : f # e => row'[f] = row[f]
  BY DEF Row, States

LEMMA ThreadWritten ==
    ASSUME resolver \in [Episodes -> [Callers -> ResolverStep]],
           NEW e \in Episodes, NEW t \in Callers, NEW step \in ResolverStep,
           resolver' = [resolver EXCEPT ![e][t] = step]
    PROVE  /\ resolver' \in [Episodes -> [Callers -> ResolverStep]]
           /\ resolver'[e][t] = step
           /\ \A u \in Callers : u # t => resolver'[e][u] = resolver[e][u]
           /\ \A f \in Episodes : f # e => resolver'[f] = resolver[f]
  OBVIOUS

LEMMA WrapperWritten ==
    ASSUME wrapper \in [Episodes -> WrapperStep], NEW e \in Episodes,
           NEW step \in WrapperStep, wrapper' = [wrapper EXCEPT ![e] = step]
    PROVE  /\ wrapper' \in [Episodes -> WrapperStep]
           /\ wrapper'[e] = step
           /\ \A f \in Episodes : f # e => wrapper'[f] = wrapper[f]
  OBVIOUS

-----------------------------------------------------------------------------
(* The inductive invariant.                                                *)

LEMMA LiveInit == Init => LiveInv
  <1> SUFFICES ASSUME Init PROVE LiveInv
    OBVIOUS
  <1>1. NoRows \in [Episodes -> Row]
    <2>1. (CHOOSE c \in FaultClasses : TRUE) \in FaultClasses
      BY LiveEpisodeAssumption
    <2>2. QED
      BY <2>1 DEF NoRows, EmptyRow, Row
  <1>2. \A e \in Episodes : row[e].state = "absent"
    BY DEF Init, NoRows, EmptyRow
  <1>3. TypeOK
    <2>1. /\ "none" \in InjectorStatus /\ "none" \in ScorerStatus
          /\ "none" \in WrapperStep /\ "none" \in ResolverStep
      BY DEF InjectorStatus, ScorerStatus, WrapperStep, ResolverStep
    <2>2. resolver \in [Episodes -> [Callers -> ResolverStep]]
      BY <2>1 DEF Init, NoThreads
    <2>3. row \in [Episodes -> Row] /\ seen \in [Episodes -> Row]
      BY <1>1 DEF Init
    <2>4. /\ injector \in [Episodes -> InjectorStatus]
          /\ scorer \in [Episodes -> ScorerStatus]
          /\ wrapper \in [Episodes -> WrapperStep]
          /\ runs \in [Episodes -> Nat]
      BY <2>1 DEF Init
    <2>5. /\ crashes \in 0..CrashBound
          /\ guardedFaults \in 0..GuardedFaultBound
          /\ unguardedFaults \in 0..UnguardedFaultBound
      BY LiveEpisodeAssumption DEF Init
    <2>6. /\ scored \subseteq Episodes /\ stopFile \subseteq Episodes
          /\ timers \subseteq Episodes
          /\ abandoned \subseteq Episodes /\ lostPause \subseteq Episodes
          /\ leakPaused \in BOOLEAN /\ api \in {"up", "down", "reconciling"}
      BY DEF Init
    <2>7. QED
      BY <2>2, <2>3, <2>4, <2>5, <2>6 DEF TypeOK
  <1>4. ScoredOnce /\ ResolvedMeansScored
    BY <1>2 DEF Init, ScoredOnce, ResolvedMeansScored
  <1>5. ThreadsFit
    <2>1. \A e \in Episodes : \A t \in Callers : resolver[e][t] = "none"
      BY DEF Init, NoThreads
    <2>2. "inline" \in Callers
      BY DEF Callers
    <2>3. QED
      BY <1>2, <2>1, <2>2 DEF Init, ThreadsFit, Early, Terminal
  <1>6. DownIsQuiet /\ ScorerIsOwed
    BY DEF Init, DownIsQuiet, ScorerIsOwed, NoThreads
  <1>7. QED
    BY <1>3, <1>4, <1>5, <1>6 DEF LiveInv

\* The requests: a trigger, a stop, a logout, a click.
LEMMA LiveRequests ==
    ASSUME LiveInv, NEW e \in Episodes, Requests(e)
    PROVE  LiveInv'
  <1> USE DEF LiveInv
  <1>u. UNCHANGED <<scored, processes, timers, leakPaused, api, seen, runs,
                    lostPause, faults>>
    BY DEF Requests, TriggerInject, TriggerStopHold, Logout, TriggerResolve,
           threads, ghosts, db
  <1>a. api = "up"
    BY DEF Requests, TriggerInject, TriggerStopHold, Logout, TriggerResolve
  <1>t. /\ row \in [Episodes -> Row]
        /\ resolver \in [Episodes -> [Callers -> ResolverStep]]
        /\ wrapper \in [Episodes -> WrapperStep]
    BY DEF TypeOK
  <1>1. ASSUME NEW c \in FaultClasses, TriggerInject(e, c)
        PROVE  LiveInv'
    <2>1. /\ row' \in [Episodes -> Row]
          /\ row'[e].state = "injecting"
          /\ \A f \in Episodes : f # e => row'[f] = row[f]
      BY <1>1, <1>t DEF TriggerInject, EmptyRow, Row, NonTerminal
    <2>2. /\ wrapper' \in [Episodes -> WrapperStep]
          /\ wrapper'[e] = "pause"
          /\ \A f \in Episodes : f # e => wrapper'[f] = wrapper[f]
      BY <1>1, <1>t DEF TriggerInject, WrapperStep
    <2>3. /\ row[e].state = "absent" /\ resolver' = resolver
          /\ abandoned' = abandoned
      BY <1>1 DEF TriggerInject, ghosts
    <2>4. TypeOK'
      BY <1>u, <2>1, <2>2, <2>3 DEF TypeOK, processes, faults
    <2>5. ThreadsFit'
      <3>1. \A t \in Callers : resolver[e][t] = "none"
        BY <2>3 DEF ThreadsFit, Early
      <3>2. "inline" \in Callers
        BY DEF Callers
      <3>3. QED
        BY <1>u, <2>1, <2>2, <2>3, <3>1, <3>2
           DEF ThreadsFit, Early, faults
    <2>6. DownIsQuiet'
      BY <1>u, <1>a DEF DownIsQuiet
    <2>7. ScoredOnce' /\ ResolvedMeansScored' /\ ScorerIsOwed'
      BY <1>u, <2>1, <2>3
         DEF ScoredOnce, ResolvedMeansScored, ScorerIsOwed, Early, processes
    <2>8. QED
      BY <2>4, <2>5, <2>6, <2>7
  <1>2. CASE TriggerStopHold(e) \/ Logout(e)
    <2>1. /\ row' \in [Episodes -> Row]
          /\ \A f \in Episodes : row'[f].state = row[f].state
      <3>1. CASE TriggerStopHold(e)
        BY ZenonT(60), <3>1, <1>t DEF TriggerStopHold, Row
      <3>2. CASE Logout(e)
        BY ZenonT(60), <3>2, <1>t DEF Logout, Row
      <3>3. QED
        BY <1>2, <3>1, <3>2
    <2>2. UNCHANGED threads /\ abandoned' \subseteq Episodes
      BY <1>2 DEF TriggerStopHold, Logout, ghosts, TypeOK
    <2>3. TypeOK'
      BY <1>u, <2>1, <2>2 DEF TypeOK, processes, faults, threads
    <2>4. ThreadsFit'
      BY <1>u, <2>1, <2>2 DEF ThreadsFit, Early, threads, faults
    <2>5. ScoredOnce' /\ ResolvedMeansScored' /\ ScorerIsOwed' /\ DownIsQuiet'
      BY <1>u, <1>a, <2>1, <2>2
         DEF ScoredOnce, ResolvedMeansScored, ScorerIsOwed, DownIsQuiet,
             Early, processes, threads
    <2>6. QED
      BY <2>3, <2>4, <2>5
  <1>3. ASSUME NEW k \in Clicks, TriggerResolve(e, k)
        PROVE  LiveInv'
    <2>1. k \in Callers /\ k # "inline" /\ "cas" \in ResolverStep
      BY LiveEpisodeAssumption DEF Callers, ResolverStep
    <2>2. /\ row[e].state = "awaiting_fix"
          /\ resolver' = [resolver EXCEPT ![e][k] = "cas"]
          /\ UNCHANGED <<row, wrapper, abandoned>>
      BY <1>3 DEF TriggerResolve, db, ghosts
    <2>3. /\ resolver' \in [Episodes -> [Callers -> ResolverStep]]
          /\ resolver'[e][k] = "cas"
          /\ \A u \in Callers : u # k => resolver'[e][u] = resolver[e][u]
          /\ \A f \in Episodes : f # e => resolver'[f] = resolver[f]
      BY <1>t, <2>1, <2>2, ThreadWritten
    <2>4. TypeOK'
      BY <1>u, <2>2, <2>3 DEF TypeOK, processes, faults
    <2>5. ThreadsFit'
      <3>1. "inline" \in Callers
        BY DEF Callers
      <3>2. QED
        BY <1>u, <2>1, <2>2, <2>3, <3>1 DEF ThreadsFit, Early, faults
    <2>6. ScoredOnce' /\ ResolvedMeansScored' /\ ScorerIsOwed' /\ DownIsQuiet'
      BY <1>u, <1>a, <2>1, <2>2, <2>3
         DEF ScoredOnce, ResolvedMeansScored, ScorerIsOwed, DownIsQuiet,
             Early, processes
    <2>7. QED
      BY <2>4, <2>5, <2>6
  <1>4. QED
    BY <1>1, <1>2, <1>3 DEF Requests

\* The subprocesses: none of their steps moves a row's state or a thread.
LEMMA LiveProcesses ==
    ASSUME LiveInv, NEW e \in Episodes,
           \/ InjectorRecords(e) \/ ScorerScores(e)
           \/ \E confirmed \in BOOLEAN : Tick(e, confirmed)
           \/ \E code \in {"ok", "failed"} :
                 InjectorExits(e, code) \/ ScorerExits(e, code)
           \/ \E t \in Callers : ScorerTimesOut(e, t)
    PROVE  LiveInv'
  <1> USE DEF LiveInv
  <1>u. UNCHANGED <<threads, leakPaused, api, seen, ghosts, faults>>
    BY DEF InjectorRecords, ScorerScores, Tick, InjectorExits, ScorerExits,
           ScorerTimesOut
  <1>t. /\ row \in [Episodes -> Row]
        /\ injector \in [Episodes -> InjectorStatus]
        /\ scorer \in [Episodes -> ScorerStatus]
        /\ {"ok", "failed"} \subseteq ScorerStatus
        /\ {"ok", "failed", "recorded"} \subseteq InjectorStatus
    BY DEF TypeOK, ScorerStatus, InjectorStatus
  <1> DEFINE RowsKept ==
                /\ row' \in [Episodes -> Row]
                /\ \A f \in Episodes : row'[f].state = row[f].state
             ProcessesTyped ==
                /\ injector' \in [Episodes -> InjectorStatus]
                /\ scorer' \in [Episodes -> ScorerStatus]
                /\ stopFile' \subseteq Episodes /\ scored' \subseteq Episodes
                /\ scored \subseteq scored'
  <1>1. RowsKept
    <2>1. CASE InjectorRecords(e)
      BY ZenonT(60), <2>1, <1>t DEF InjectorRecords, Row
    <2>2. ASSUME NEW confirmed \in BOOLEAN, Tick(e, confirmed)
          PROVE  RowsKept
      <3>1. row[e] \in Row /\ row[e].evidence \in BOOLEAN
        BY <1>t DEF Row
      <3>2. row' = [row EXCEPT ![e].evidence = row[e].evidence \/ confirmed]
        BY <2>2 DEF Tick
      <3>3. QED
        BY <1>t, <3>1, <3>2 DEF Row
    <2>3. CASE UNCHANGED row
      BY <2>3, <1>t
    <2>4. QED
      BY <2>1, <2>2, <2>3 DEF ScorerScores, InjectorExits, ScorerExits,
                               ScorerTimesOut, db
  <1>2. ProcessesTyped
    <2>1. CASE InjectorRecords(e) \/ ScorerScores(e)
      BY <2>1, <1>t DEF InjectorRecords, ScorerScores, processes, TypeOK
    <2>2. CASE \E confirmed \in BOOLEAN : Tick(e, confirmed)
      BY <2>2, <1>t DEF Tick, TypeOK
    <2>3. CASE \E code \in {"ok", "failed"} :
                  InjectorExits(e, code) \/ ScorerExits(e, code)
      <3>1. ASSUME NEW code \in {"ok", "failed"}, InjectorExits(e, code)
            PROVE  ProcessesTyped
        BY <3>1, <1>t DEF InjectorExits, db, TypeOK
      <3>2. ASSUME NEW code \in {"ok", "failed"}, ScorerExits(e, code)
            PROVE  ProcessesTyped
        BY <3>2, <1>t DEF ScorerExits, db, TypeOK
      <3>3. QED
        BY <2>3, <3>1, <3>2
    <2>4. ASSUME NEW t \in Callers, ScorerTimesOut(e, t)
          PROVE  ProcessesTyped
      BY <2>4, <1>t DEF ScorerTimesOut, db, TypeOK
    <2>5. QED
      BY <2>1, <2>2, <2>3, <2>4
  <1>3. \A f \in Episodes : scorer'[f] = "ok" => f \in scored'
    BY <1>t DEF InjectorRecords, ScorerScores, Tick, InjectorExits,
       ScorerExits, ScorerTimesOut, db, processes, TypeOK, ScorerIsOwed
  <1>4. TypeOK'
    BY <1>u, <1>1, <1>2 DEF TypeOK, threads, ghosts, faults
  <1>5. ThreadsFit'
    BY <1>u, <1>1 DEF ThreadsFit, Early, threads, faults
  <1>6. DownIsQuiet'
    BY <1>u, <1>1 DEF DownIsQuiet, threads
  <1>7. ScoredOnce' /\ ResolvedMeansScored' /\ ScorerIsOwed'
    BY <1>u, <1>1, <1>2, <1>3
       DEF ScoredOnce, ResolvedMeansScored, ScorerIsOwed, Early, threads,
           ghosts
  <1>8. QED
    BY <1>4, <1>5, <1>6, <1>7

\* The wrapper thread.  Until it hands the row over at awaiting_fix, no other
\* thread has a say; what its guard writes comes after an exception.
LEMMA LiveWrapper ==
    ASSUME LiveInv, NEW e \in Episodes,
           \/ WrapperNext(e) \/ InjectorTimesOut(e) \/ WrapperRaises(e)
           \/ GuardRaises(e) \/ TriggerInjectRaises(e)
    PROVE  LiveInv'
  <1> USE DEF LiveInv
  <1>u. UNCHANGED <<scored, stopFile, scorer, api, seen, runs, abandoned,
                    crashes>>
    BY DEF WrapperNext, PauseCheckout, SpawnInjector, RecordPid,
       InjectorExitSeen, ClassifyExit, AwaitFix, ArmTimer, OrphanGone,
       StartAuto, Guard, UnpauseWrapper, Unpause, InjectorTimesOut,
       WrapperRaises, GuardRaises, TriggerInjectRaises,
       db, processes, threads, ghosts, faults
  <1>w. wrapper[e] # "none"
    BY DEF WrapperNext, PauseCheckout, SpawnInjector, RecordPid,
       InjectorExitSeen, ClassifyExit, AwaitFix, ArmTimer, OrphanGone,
       StartAuto, Guard, UnpauseWrapper, InjectorTimesOut,
       WrapperRaises, GuardRaises, TriggerInjectRaises
  <1>a. api = "up"
    BY <1>w DEF DownIsQuiet
  <1>t. /\ row \in [Episodes -> Row]
        /\ resolver \in [Episodes -> [Callers -> ResolverStep]]
        /\ wrapper \in [Episodes -> WrapperStep]
        /\ injector \in [Episodes -> InjectorStatus]
        /\ leakPaused \in BOOLEAN /\ lostPause \subseteq Episodes
    BY DEF TypeOK
  <1>d. DownIsQuiet'
    BY <1>u, <1>a DEF DownIsQuiet
  <1>f. /\ guardedFaults' \in 0..GuardedFaultBound
        /\ unguardedFaults' \in 0..UnguardedFaultBound
        /\ guardedFaults > 0 => guardedFaults' > 0
        /\ WrapperRaises(e) => guardedFaults' > 0
    <2>1. CASE WrapperRaises(e)
      BY <2>1, LiveEpisodeAssumption DEF WrapperRaises, TypeOK
    <2>2. CASE GuardRaises(e) \/ TriggerInjectRaises(e)
      BY <2>2, LiveEpisodeAssumption
         DEF GuardRaises, TriggerInjectRaises, TypeOK, WrapperRaises
    <2>3. CASE WrapperNext(e) \/ InjectorTimesOut(e)
      <3>1. UNCHANGED faults
        BY <2>3 DEF WrapperNext, PauseCheckout, SpawnInjector, RecordPid,
           InjectorExitSeen, ClassifyExit, AwaitFix, ArmTimer, OrphanGone,
           StartAuto, Guard, UnpauseWrapper, InjectorTimesOut
      <3>2. QED
        BY <3>1, <2>1 DEF faults, TypeOK
    <2>4. QED
      BY <2>1, <2>2, <2>3
  <1>g. leakPaused' \in BOOLEAN /\ lostPause' \subseteq Episodes
    <2>1. CASE UnpauseWrapper(e)
      BY <2>1, <1>t DEF UnpauseWrapper, Unpause, Leaking
    <2>2. CASE PauseCheckout(e) \/ TriggerInjectRaises(e)
      BY <2>2, <1>t DEF PauseCheckout, TriggerInjectRaises, ghosts
    <2>3. CASE UNCHANGED <<leakPaused, ghosts>>
      BY <2>3, <1>t DEF ghosts
    <2>4. QED
      BY <2>1, <2>2, <2>3 DEF WrapperNext, SpawnInjector, RecordPid,
         InjectorExitSeen, ClassifyExit, AwaitFix, ArmTimer, OrphanGone,
         StartAuto, Guard, InjectorTimesOut, WrapperRaises, GuardRaises
  <1>i. "inline" \in Callers
    BY DEF Callers
  \* Steps that leave the table alone.
  <1>1. ASSUME NEW step \in {"none", "spawn", "pid", "exited", "timedOut",
                             "await", "guard"},
               wrapper' = [wrapper EXCEPT ![e] = step],
               UNCHANGED row, wrapper[e] # "inline",
               injector' \in [Episodes -> InjectorStatus],
               \/ UNCHANGED <<resolver, timers>>
               \/ /\ row[e].state \notin Early
                  /\ timers' \subseteq timers \cup {e}
                  /\ \/ resolver' = resolver
                     \/ resolver' = [resolver EXCEPT ![e]["auto"] = "cas"],
               step \in {"spawn", "pid"} => row[e].state = "injecting",
               step \in {"exited", "timedOut", "await"} =>
                  row[e].state \in {"injecting", "holding"},
               step = "guard" => guardedFaults' > 0
        PROVE  LiveInv'
    <2>0. step \in WrapperStep
      BY DEF WrapperStep
    <2>1. /\ wrapper' \in [Episodes -> WrapperStep]
          /\ wrapper'[e] = step
          /\ \A f \in Episodes : f # e => wrapper'[f] = wrapper[f]
      BY <1>1, <1>t, <2>0, WrapperWritten
    <2>2. "auto" \in Callers /\ "cas" \in ResolverStep
      BY DEF Callers, ResolverStep
    <2>3. /\ resolver' \in [Episodes -> [Callers -> ResolverStep]]
          /\ \A f \in Episodes : f # e => resolver'[f] = resolver[f]
          /\ \A t \in Callers : t # "auto" => resolver'[e][t] = resolver[e][t]
          /\ \/ resolver' = resolver
             \/ row[e].state \notin Early /\ resolver'[e]["auto"] = "cas"
      <3>1. CASE resolver' = resolver
        BY <3>1, <1>t
      <3>2. CASE resolver' # resolver
        BY SMTT(60), <1>1, <1>t, <2>2, <3>2, ThreadWritten
      <3>3. QED
        BY <3>1, <3>2
    <2>4. /\ timers' \subseteq Episodes
          /\ \A f \in Episodes : f # e => (f \in timers' => f \in timers)
          /\ e \in timers' => row[e].state \notin Early
      BY <1>1 DEF TypeOK, ThreadsFit
    <2>5. TypeOK'
      BY <1>u, <1>f, <1>g, <1>1, <2>1, <2>3, <2>4 DEF TypeOK
    <2>6. ThreadsFit'
      <3>0. row[e].state # "absent"
        BY <1>t, <1>w DEF ThreadsFit, Terminal, Early, WrapperStep
      <3>1. ASSUME NEW f \in Episodes, f # e
            PROVE  /\ row'[f] = row[f] /\ wrapper'[f] = wrapper[f]
                   /\ resolver'[f] = resolver[f]
                   /\ f \in timers' => f \in timers
        BY <1>1, <2>1, <2>3, <2>4, <3>1
      <3>2. resolver'[e]["inline"] = "none" /\ step # "inline"
        BY <1>1, <1>i, <2>3 DEF ThreadsFit
      <3>3. \A t \in Callers :
              /\ resolver'[e][t] # "none" => row[e].state \notin Early
              /\ resolver'[e][t] \in {"settle", "scoring"}
                    => resolver'[e][t] = resolver[e][t]
              /\ resolver'[e][t] \in {"unpause", "publish"}
                    => resolver'[e][t] = resolver[e][t]
        BY <2>2, <2>3 DEF ThreadsFit
      <3>4. QED
        BY <1>f, <1>1, <2>1, <2>4, <3>0, <3>1, <3>2, <3>3
           DEF ThreadsFit
    <2>7. ScoredOnce' /\ ResolvedMeansScored'
      BY <1>u, <1>1 DEF ScoredOnce, ResolvedMeansScored
    <2>8. ScorerIsOwed'
      <3>1. \A f \in Episodes : \A t \in Callers :
               resolver'[f][t] = "settle" => resolver[f][t] = "settle"
        BY <2>3
      <3>2. QED
        BY <1>u, <1>1, <3>1 DEF ScorerIsOwed
    <2>9. QED
      BY <1>d, <2>5, <2>6, <2>7, <2>8
  <1>s. /\ {"running", "failed"} \subseteq InjectorStatus
        /\ {"injecting", "holding", "awaiting_fix", "failed"} \subseteq States
    BY DEF InjectorStatus, States, NonTerminal, Terminal
  <1>2. CASE PauseCheckout(e)
    <2>1. wrapper[e] = "pause" /\ row[e].state = "injecting"
      BY <1>2 DEF PauseCheckout, ThreadsFit
    <2>2. QED
      BY <1>1, <1>2, <1>t, <2>1 DEF PauseCheckout, db, processes
  <1>3. CASE SpawnInjector(e)
    <2>1. wrapper[e] = "spawn" /\ row[e].state = "injecting"
      BY <1>3 DEF SpawnInjector, ThreadsFit
    <2>2. QED
      BY <1>1, <1>3, <1>s, <1>t, <2>1 DEF SpawnInjector, db
  <1>4. CASE InjectorExitSeen(e)
    <2>1. wrapper[e] = "polling" /\ row[e].state \in {"injecting", "holding"}
      BY <1>4 DEF InjectorExitSeen, ThreadsFit
    <2>2. QED
      BY <1>1, <1>4, <1>t, <2>1 DEF InjectorExitSeen, db, processes
  <1>5. CASE InjectorTimesOut(e)
    <2>1. wrapper[e] = "polling" /\ row[e].state \in {"injecting", "holding"}
      BY <1>5 DEF InjectorTimesOut, ThreadsFit
    <2>2. QED
      BY <1>1, <1>5, <1>s, <1>t, <2>1 DEF InjectorTimesOut, db
  <1>6. CASE ArmTimer(e)
    <2>1. wrapper[e] = "arm" /\ row[e].state \notin Early
      BY <1>6 DEF ArmTimer, ThreadsFit
    <2>2. QED
      BY <1>1, <1>6, <1>t, <2>1 DEF ArmTimer, db, processes
  <1>7. CASE StartAuto(e)
    <2>1. wrapper[e] = "auto" /\ row[e].state \notin Early
      BY <1>7 DEF StartAuto, ThreadsFit
    <2>2. QED
      BY <1>1, <1>7, <1>t, <2>1 DEF StartAuto, db, processes
  <1>8. CASE \/ UnpauseWrapper(e) \/ GuardRaises(e) \/ TriggerInjectRaises(e)
    <2>1. /\ wrapper[e] \in {"unpause", "release", "guard", "pause"}
          /\ wrapper' = [wrapper EXCEPT ![e] = "none"]
          /\ UNCHANGED <<row, injector, resolver, timers>>
      BY <1>8 DEF UnpauseWrapper, GuardRaises, TriggerInjectRaises, db,
                  processes
    <2>2. QED
      BY <1>1, <1>t, <2>1
  <1>9. CASE WrapperRaises(e)
    <2>1. /\ wrapper[e] # "inline"
          /\ wrapper' = [wrapper EXCEPT ![e] = "guard"]
          /\ UNCHANGED <<row, injector, resolver, timers>>
      BY <1>9 DEF WrapperRaises, db, processes
    <2>2. QED
      BY <1>1, <1>9, <1>f, <1>t, <2>1
  \* Steps that write the row's state.
  <1>10. ASSUME NEW step \in WrapperStep, NEW state \in States,
                wrapper' = [wrapper EXCEPT ![e] = step],
                row' \in [Episodes -> Row], row'[e].state = state,
                \A f \in Episodes : f # e => row'[f] = row[f],
                row[e].state \in {"injecting", "holding"},
                UNCHANGED <<injector, timers>>,
                \/ /\ step = "polling" /\ state \in {"injecting", "holding"}
                   /\ resolver' = resolver
                \/ /\ step \in {"none", "unpause"} /\ state = "failed"
                   /\ resolver' = resolver
                \/ /\ step \in {"arm", "auto"} /\ state = "awaiting_fix"
                   /\ resolver' = resolver
                \/ /\ step = "inline" /\ state = "awaiting_fix"
                   /\ resolver' = [resolver EXCEPT ![e]["inline"] = "cas"]
         PROVE  LiveInv'
    <2>1. /\ wrapper' \in [Episodes -> WrapperStep]
          /\ wrapper'[e] = step
          /\ \A f \in Episodes : f # e => wrapper'[f] = wrapper[f]
      BY <1>10, <1>t, WrapperWritten
    <2>2. "cas" \in ResolverStep
      BY DEF ResolverStep
    <2>3. \A t \in Callers : resolver[e][t] = "none"
      BY <1>10 DEF ThreadsFit, Early
    <2>4. /\ resolver' \in [Episodes -> [Callers -> ResolverStep]]
          /\ \A f \in Episodes : f # e => resolver'[f] = resolver[f]
          /\ \A t \in Callers : resolver'[e][t] \in {"none", "cas"}
          /\ step # "inline" => resolver' = resolver
          /\ step = "inline" => resolver'[e]["inline"] = "cas"
      <3>1. CASE step = "inline"
        BY SMTT(60), <1>10, <1>i, <1>t, <2>2, <2>3, <3>1, ThreadWritten
      <3>2. CASE step # "inline"
        BY <1>10, <1>t, <2>3, <3>2
      <3>3. QED
        BY <3>1, <3>2
    <2>5. e \notin timers
      BY <1>10 DEF ThreadsFit, Early
    <2>6. TypeOK'
      BY <1>u, <1>f, <1>g, <1>10, <2>1, <2>4 DEF TypeOK
    <2>7. ThreadsFit'
      <3>1. ASSUME NEW f \in Episodes, f # e
            PROVE  /\ row'[f] = row[f] /\ wrapper'[f] = wrapper[f]
                   /\ resolver'[f] = resolver[f]
                   /\ f \in timers' => f \in timers
        BY <1>10, <2>1, <2>4, <3>1
      <3>2. (resolver'[e]["inline"] # "none") = (step = "inline")
        BY <1>i, <2>3, <2>4
      <3>3. \A t \in Callers :
               resolver'[e][t] # "none" => state \notin Early
        BY <1>10, <2>3, <2>4 DEF Early
      <3>4. e \notin timers'
        BY <1>10, <2>5
      <3>5. /\ step \in {"arm", "auto", "inline"} => state \notin Early
            /\ step \in {"unpause"} => state \in Terminal
            /\ step \notin {"pause", "spawn", "pid", "exited", "timedOut",
                            "await", "watch", "guard", "release"}
            /\ step = "polling" => state \in {"injecting", "holding"}
        BY <1>10 DEF Early, Terminal
      <3>6. QED
        BY <1>f, <1>10, <2>1, <2>4, <3>1, <3>2, <3>3, <3>4, <3>5
           DEF ThreadsFit
    <2>8. ScoredOnce' /\ ResolvedMeansScored'
      BY <1>u, <1>10 DEF ScoredOnce, ResolvedMeansScored
    <2>9. ScorerIsOwed'
      <3>1. runs[e] = 0
        BY <1>10 DEF ScorerIsOwed, Early
      <3>2. QED
        BY <1>u, <1>10, <2>4, <3>1 DEF ScorerIsOwed, Early
    <2>10. QED
      BY <1>d, <2>6, <2>7, <2>8, <2>9
  <1>v. {"polling", "none", "arm", "inline", "await", "unpause", "auto",
         "release"} \subseteq WrapperStep
    BY DEF WrapperStep
  <1>11. CASE RecordPid(e)
    <2> DEFINE state == IF row[e].class \in HoldingClasses
                        THEN "holding" ELSE row[e].state
    <2>1. row[e].state = "injecting"
      BY <1>11 DEF RecordPid, ThreadsFit
    <2>2. row' = [row EXCEPT ![e].pid = TRUE, ![e].state = state]
      BY <1>11 DEF RecordPid
    <2> DEFINE new == [row[e] EXCEPT !.pid = TRUE, !.state = state]
    <2>3. state \in {"injecting", "holding"} /\ state \in States
      BY <1>s, <2>1
    <2> HIDE DEF state
    <2>4. new \in Row /\ new.state = state
      BY <1>t, <2>3 DEF Row, States
    <2>5. row' = [row EXCEPT ![e] = new]
      BY <1>t, <2>2
    <2>6. /\ row' \in [Episodes -> Row]
          /\ row'[e].state = state
          /\ \A f \in Episodes : f # e => row'[f] = row[f]
      BY <1>t, <2>4, <2>5
    <2>7. QED
      BY <1>10, <1>11, <1>v, <1>t, <2>1, <2>3, <2>6 DEF RecordPid, processes
  \* The row ends, or another thread goes on with it.
  <1>12. ASSUME row[e].state \in {"injecting", "holding"},
                UNCHANGED <<injector, timers>>,
                \/ /\ SetEpisodeState(e, "failed") /\ resolver' = resolver
                   /\ wrapper' = [wrapper EXCEPT
                                     ![e] = AfterTerminal(e, "none")]
                \/ /\ SetEpisodeState(e, "awaiting_fix")
                   /\ \/ /\ resolver' = resolver
                         /\ \E step \in {"arm", "auto"} :
                               wrapper' = [wrapper EXCEPT ![e] = step]
                      \/ /\ wrapper' = [wrapper EXCEPT ![e] = "inline"]
                         /\ resolver' =
                               [resolver EXCEPT ![e]["inline"] = "cas"]
         PROVE  LiveInv'
    <2>1. CASE SetEpisodeState(e, "failed") /\ resolver' = resolver
               /\ wrapper' = [wrapper EXCEPT ![e] = AfterTerminal(e, "none")]
      <3>1. PICK step \in {"none", "unpause"} :
               wrapper' = [wrapper EXCEPT ![e] = step]
        BY <2>1 DEF AfterTerminal
      <3>2. /\ row' \in [Episodes -> Row] /\ row'[e].state = "failed"
            /\ \A f \in Episodes : f # e => row'[f] = row[f]
        BY <1>s, <1>t, <2>1, StateWritten DEF SetEpisodeState
      <3>3. QED
        BY <1>10, <1>12, <1>s, <1>v, <2>1, <3>1, <3>2
    <2>2. ASSUME SetEpisodeState(e, "awaiting_fix")
          PROVE  /\ row' \in [Episodes -> Row]
                 /\ row'[e].state = "awaiting_fix"
                 /\ \A f \in Episodes : f # e => row'[f] = row[f]
      BY <1>s, <1>t, <2>2, StateWritten DEF SetEpisodeState
    <2>3. ASSUME NEW step \in {"arm", "auto"},
                 SetEpisodeState(e, "awaiting_fix"), resolver' = resolver,
                 wrapper' = [wrapper EXCEPT ![e] = step]
          PROVE  LiveInv'
      BY <1>10, <1>12, <1>s, <1>v, <2>2, <2>3
    <2>4. CASE SetEpisodeState(e, "awaiting_fix")
               /\ wrapper' = [wrapper EXCEPT ![e] = "inline"]
               /\ resolver' = [resolver EXCEPT ![e]["inline"] = "cas"]
      BY <1>10, <1>12, <1>s, <1>v, <2>2, <2>4
    <2>5. QED
      BY <1>12, <2>1, <2>3, <2>4
  <1>13. CASE ClassifyExit(e)
    <2>1. /\ wrapper[e] \in {"exited", "timedOut"}
          /\ row[e].state \in {"injecting", "holding"}
      BY <1>13 DEF ClassifyExit, ThreadsFit
    <2>2. CASE Succeeded(e) /\ ~row[e].abandon
      BY <1>1, <1>13, <1>t, <2>1, <2>2 DEF ClassifyExit, processes
    <2>3. CASE ~(Succeeded(e) /\ ~row[e].abandon)
      BY <1>12, <1>13, <2>1, <2>3 DEF ClassifyExit, processes
    <2>4. QED
      BY <2>2, <2>3
  <1>14. CASE OrphanGone(e)
    <2>1. row[e].state \in {"injecting", "holding"}
      BY <1>14 DEF OrphanGone, ThreadsFit
    <2>2. QED
      BY <1>12, <1>14, <2>1 DEF OrphanGone, processes
  <1>15. CASE AwaitFix(e)
    <2>1. row[e].state \in {"injecting", "holding"}
      BY <1>15 DEF AwaitFix, ThreadsFit
    <2>2. QED
      BY <1>12, <1>15, <2>1 DEF AwaitFix, processes
  \* The guard fails a row in whatever state it is.
  <1>16. CASE Guard(e)
    <2>1. /\ wrapper[e] = "guard" /\ guardedFaults > 0
          /\ row[e].state # "absent"
          /\ UNCHANGED <<injector, timers, resolver>>
      BY <1>16 DEF Guard, ThreadsFit, processes
    <2>2. /\ row' \in [Episodes -> Row] /\ row'[e].state = "failed"
          /\ \A f \in Episodes : f # e => row'[f] = row[f]
      BY <1>16, <1>s, <1>t, StateWritten DEF Guard, SetEpisodeState
    <2>3. PICK step \in {"none", "release"} :
             wrapper' = [wrapper EXCEPT ![e] = step]
      BY <1>16 DEF Guard
    <2>4. /\ wrapper' \in [Episodes -> WrapperStep]
          /\ wrapper'[e] = step
          /\ \A f \in Episodes : f # e => wrapper'[f] = wrapper[f]
      BY <1>t, <1>v, <2>3, WrapperWritten
    <2>5. TypeOK'
      BY <1>u, <1>f, <1>g, <2>1, <2>2, <2>4 DEF TypeOK
    <2>6. ThreadsFit'
      <3>1. resolver[e]["inline"] = "none"
        BY <1>i, <2>1 DEF ThreadsFit
      <3>2. guardedFaults' > 0
        BY <1>f, <2>1
      <3>3. row'[e].state \in Terminal /\ row'[e].state \notin Early
        BY <2>2 DEF Terminal, Early
      <3>4. ASSUME NEW f \in Episodes, f # e
            PROVE  /\ row'[f] = row[f] /\ wrapper'[f] = wrapper[f]
                   /\ resolver'[f] = resolver[f]
                   /\ f \in timers' => f \in timers
        BY <2>1, <2>2, <2>4, <3>4
      <3>5. QED
        BY <2>1, <2>2, <2>3, <2>4, <3>1, <3>2, <3>3, <3>4 DEF ThreadsFit
    <2>7. ScoredOnce' /\ ResolvedMeansScored'
      BY <1>u, <2>2 DEF ScoredOnce, ResolvedMeansScored
    <2>8. ScorerIsOwed'
      BY <1>u, <2>1, <2>2 DEF ScorerIsOwed, Early
    <2>9. QED
      BY <1>d, <2>5, <2>6, <2>7, <2>8
  <1>17. QED
    BY <1>2, <1>3, <1>4, <1>5, <1>6, <1>7, <1>8, <1>9, <1>11, <1>13, <1>14,
       <1>15, <1>16 DEF WrapperNext

\* _attempt_resolve, on whichever thread.  The compare-and-set makes its
\* winner the only one who may start a scorer.
LEMMA LiveResolver ==
    ASSUME LiveInv, NEW e \in Episodes, NEW t \in Callers,
           ResolverNext(e, t) \/ ResolverRaises(e, t)
    PROVE  LiveInv'
  <1> USE DEF LiveInv
  <1>u. UNCHANGED <<scored, injector, stopFile, api, seen, abandoned, crashes>>
    BY DEF ResolverNext, CompareAndSet, StartScorer, ScorerDone,
       UnpauseResolver, Unpause, Republish, ResolverRaises, db, processes,
       ghosts, faults
  <1>w. resolver[e][t] # "none"
    BY DEF ResolverNext, CompareAndSet, StartScorer, ScorerDone,
       UnpauseResolver, Republish, ResolverRaises
  <1>a. api = "up"
    BY <1>w DEF DownIsQuiet
  <1>t. /\ row \in [Episodes -> Row]
        /\ resolver \in [Episodes -> [Callers -> ResolverStep]]
        /\ wrapper \in [Episodes -> WrapperStep]
        /\ scorer \in [Episodes -> ScorerStatus]
        /\ runs \in [Episodes -> Nat]
        /\ leakPaused \in BOOLEAN /\ lostPause \subseteq Episodes
        /\ timers \subseteq Episodes
    BY DEF TypeOK
  <1>d. DownIsQuiet'
    BY <1>u, <1>a DEF DownIsQuiet
  <1>f. /\ guardedFaults' \in 0..GuardedFaultBound
        /\ unguardedFaults' \in 0..UnguardedFaultBound
        /\ guardedFaults > 0 => guardedFaults' > 0
        /\ ResolverRaises(e, t) /\ t = "inline" => guardedFaults' > 0
    <2>1. CASE ResolverRaises(e, t)
      BY <2>1, LiveEpisodeAssumption DEF ResolverRaises, TypeOK
    <2>2. CASE UNCHANGED faults /\ ~ResolverRaises(e, t)
      BY <2>2 DEF faults, TypeOK
    <2>3. QED
      BY <2>1, <2>2 DEF ResolverNext, CompareAndSet, StartScorer, ScorerDone,
         UnpauseResolver, Republish
  <1>g. leakPaused' \in BOOLEAN /\ lostPause' \subseteq Episodes
    <2>1. CASE UnpauseResolver(e, t)
      BY <2>1, <1>t DEF UnpauseResolver, Unpause, Leaking
    <2>2. CASE UNCHANGED <<leakPaused, lostPause>>
      BY <2>2, <1>t
    <2>3. QED
      BY <2>1, <2>2 DEF ResolverNext, CompareAndSet, StartScorer, ScorerDone,
         Republish, ResolverRaises, ghosts
  <1>n. row[e].state \notin Early
    BY <1>w DEF ThreadsFit
  <1>i. "inline" \in Callers
    BY DEF Callers
  <1>s. /\ {"resolving", "resolved", "failed"} \subseteq States
        /\ {"settle", "scoring", "unpause", "publish", "none"}
              \subseteq ResolverStep
        /\ {"none", "guard"} \subseteq WrapperStep
    BY DEF States, NonTerminal, Terminal, ResolverStep, WrapperStep
  \* A thread step, seen from the row: what it may leave behind.
  <1>1. ASSUME NEW step \in ResolverStep,
               resolver' = [resolver EXCEPT ![e][t] = step],
               \/ wrapper' = wrapper /\ (t # "inline" \/ step # "none")
               \/ /\ wrapper' = [wrapper EXCEPT ![e] = "none"]
                  /\ t = "inline" /\ step = "none"
               \/ /\ wrapper' = [wrapper EXCEPT ![e] = "guard"]
                  /\ t = "inline" /\ step = "none" /\ guardedFaults' > 0,
               row' \in [Episodes -> Row], row'[e].state \notin Early,
               \A f \in Episodes : f # e => row'[f] = row[f],
               timers' \subseteq timers,
               scorer' \in [Episodes -> ScorerStatus],
               runs' \in [Episodes -> Nat],
               \A f \in Episodes : f # e => runs'[f] = runs[f],
               \A f \in Episodes : scorer'[f] = "ok" => f \in scored,
               runs'[e] <= 1,
               row'[e].state = "awaiting_fix" => runs'[e] = 0,
               row'[e].state = "resolved" => e \in scored,
               step = "settle" => runs'[e] = 0,
               step \in {"settle", "scoring"} =>
                  \/ row'[e].state = "resolving"
                  \/ row'[e].state = "failed" /\ guardedFaults > 0,
               step \in {"unpause", "publish"} => row'[e].state \in Terminal,
               row[e].state \in Terminal => row'[e].state \in Terminal,
               \/ \A u \in Callers : u # t =>
                     resolver[e][u] \notin {"settle", "scoring"}
               \/ /\ row'[e].state = row[e].state /\ runs' = runs
                  /\ step \notin {"settle", "scoring"}
        PROVE  LiveInv'
    <2>1. /\ resolver' \in [Episodes -> [Callers -> ResolverStep]]
          /\ resolver'[e][t] = step
          /\ \A u \in Callers : u # t => resolver'[e][u] = resolver[e][u]
          /\ \A f \in Episodes : f # e => resolver'[f] = resolver[f]
      BY <1>1, <1>t, ThreadWritten
    <2>2. /\ wrapper' \in [Episodes -> WrapperStep]
          /\ wrapper'[e] \in {"none", "guard", wrapper[e]}
          /\ t = "inline" /\ step = "none" => wrapper'[e] \in {"none", "guard"}
          /\ t = "inline" /\ step # "none" => wrapper'[e] = wrapper[e]
          /\ t # "inline" => wrapper'[e] = wrapper[e]
          /\ wrapper'[e] = "guard" => guardedFaults' > 0
          /\ \A f \in Episodes : f # e => wrapper'[f] = wrapper[f]
      <3>1. CASE wrapper' = wrapper /\ (t # "inline" \/ step # "none")
        BY <1>f, <1>t, <3>1 DEF ThreadsFit
      <3>2. ASSUME NEW last \in {"none", "guard"},
                   wrapper' = [wrapper EXCEPT ![e] = last],
                   t = "inline", step = "none",
                   last = "guard" => guardedFaults' > 0
            PROVE  <2>2
        BY <1>t, <1>s, <3>2
      <3>3. QED
        BY <1>1, <3>1, <3>2
    <2>3. TypeOK'
      BY <1>u, <1>f, <1>g, <1>t, <1>1, <2>1, <2>2 DEF TypeOK
    <2>4. ThreadsFit'
      <3>1. wrapper[e] \in {"none", "arm", "auto", "inline", "unpause",
                            "guard", "release"}
        BY <1>n, <1>t DEF ThreadsFit, Early, WrapperStep
      <3>2. ASSUME NEW f \in Episodes, f # e
            PROVE  /\ row'[f] = row[f] /\ wrapper'[f] = wrapper[f]
                   /\ resolver'[f] = resolver[f]
                   /\ f \in timers' => f \in timers
        BY <1>1, <2>1, <2>2, <3>2
      <3>3. \A u \in Callers :
               /\ resolver'[e][u] \in {"settle", "scoring"}
                     => \/ row'[e].state = "resolving"
                        \/ row'[e].state = "failed" /\ guardedFaults > 0
               /\ u # t /\ step \in {"settle", "scoring"}
                     => resolver'[e][u] \notin {"settle", "scoring"}
               /\ resolver'[e][u] \in {"unpause", "publish"}
                     => row'[e].state \in Terminal
        BY <1>1, <2>1 DEF ThreadsFit
      <3>4. \A u, v \in Callers :
               /\ resolver'[e][u] \in {"settle", "scoring"}
               /\ resolver'[e][v] \in {"settle", "scoring"}
               => u = v
        BY <2>1, <3>3 DEF ThreadsFit
      <3>5. (resolver'[e]["inline"] # "none") = (wrapper'[e] = "inline")
        <4>1. (resolver[e]["inline"] # "none") = (wrapper[e] = "inline")
          BY DEF ThreadsFit
        <4>2. CASE t = "inline"
          BY <1>w, <2>1, <2>2, <4>1, <4>2
        <4>3. CASE t # "inline"
          BY <1>i, <2>1, <2>2, <4>1, <4>3
        <4>4. QED
          BY <4>2, <4>3
      <3>6. wrapper'[e] \in {"unpause", "release"} => row'[e].state \in Terminal
        BY <1>1, <2>2 DEF ThreadsFit
      <3>7. row'[e].state # "absent"
        BY <1>1 DEF Early
      <3>8. QED
        BY <1>f, <1>1, <2>2, <3>1, <3>2, <3>3, <3>4, <3>5, <3>6, <3>7
           DEF ThreadsFit
    <2>5. ScoredOnce' /\ ResolvedMeansScored'
      BY <1>u, <1>1 DEF ScoredOnce, ResolvedMeansScored
    <2>6. ScorerIsOwed'
      <3>1. \A u \in Callers : resolver'[e][u] = "settle" => runs'[e] = 0
        BY <1>1, <2>1 DEF ScorerIsOwed
      <3>2. QED
        BY <1>u, <1>1, <2>1, <3>1 DEF ScorerIsOwed, Early
    <2>7. QED
      BY <1>d, <2>3, <2>4, <2>5, <2>6
  <1>o. /\ resolver[e][t] \in {"settle", "scoring"} =>
              /\ \/ row[e].state = "resolving"
                 \/ row[e].state = "failed" /\ guardedFaults > 0
              /\ \A u \in Callers : u # t =>
                    resolver[e][u] \notin {"settle", "scoring"}
        /\ resolver[e][t] \in {"unpause", "publish"} =>
              row[e].state \in Terminal
    BY DEF ThreadsFit
  <1>r. /\ runs[e] <= 1
        /\ row[e].state = "awaiting_fix" => runs[e] = 0
        /\ \A f \in Episodes : scorer[f] = "ok" => f \in scored
        /\ row[e].state = "resolved" => e \in scored
    BY DEF ScoredOnce, ScorerIsOwed, ResolvedMeansScored
  \* A thread that leaves the row alone and gives way, ends or publishes.
  <1>2. ASSUME NEW step \in {"none", "publish"}, Resolver(e, t, step),
               step = "publish" => row[e].state \in Terminal,
               UNCHANGED <<row, scorer, runs, timers>>
        PROVE  LiveInv'
    BY <1>1, <1>2, <1>t, <1>r, <1>s, <1>n DEF Resolver
  <1>3. CASE CompareAndSet(e, t)
    <2>1. UNCHANGED <<scorer, runs>>
      BY <1>3 DEF CompareAndSet, processes, ghosts
    <2>2. CASE row[e].state = "awaiting_fix"
      <3>1. /\ row' = [row EXCEPT ![e].state = "resolving"]
            /\ timers' = timers \ {e}
            /\ Resolver(e, t, "settle")
        BY <1>3, <2>2 DEF CompareAndSet
      <3>2. /\ row' \in [Episodes -> Row] /\ row'[e].state = "resolving"
            /\ \A f \in Episodes : f # e => row'[f] = row[f]
        BY <1>s, <1>t, <3>1, StateWritten
      <3>3. \A u \in Callers : resolver[e][u] \notin {"settle", "scoring"}
        BY <2>2 DEF ThreadsFit
      <3>4. QED
        BY <1>1, <1>t, <1>r, <1>s, <2>1, <2>2, <3>1, <3>2, <3>3
           DEF Early, Terminal, Resolver
    <2>3. CASE row[e].state # "awaiting_fix"
      <3>1. UNCHANGED <<row, timers>> /\ Resolver(e, t, "none")
        BY <1>3, <2>3 DEF CompareAndSet
      <3>2. QED
        BY <1>2, <2>1, <3>1
    <2>4. QED
      BY <2>2, <2>3
  <1>4. CASE StartScorer(e, t)
    <2>1. /\ resolver[e][t] = "settle" /\ Resolver(e, t, "scoring")
          /\ scorer' = [scorer EXCEPT ![e] = "running"]
          /\ runs' = [runs EXCEPT ![e] = runs[e] + 1]
          /\ UNCHANGED <<row, timers>>
      BY <1>4 DEF StartScorer, db
    <2>2. runs[e] = 0 /\ row[e].state \in {"resolving", "failed"}
      BY <2>1 DEF ScorerIsOwed, ThreadsFit
    <2>3. /\ scorer' \in [Episodes -> ScorerStatus]
          /\ \A f \in Episodes : scorer'[f] = "ok" => f \in scored
      BY <1>t, <1>r, <2>1 DEF ScorerStatus
    <2>4. /\ runs' \in [Episodes -> Nat] /\ runs'[e] = 1
          /\ \A f \in Episodes : f # e => runs'[f] = runs[f]
      BY <1>t, <2>1, <2>2
    <2>5. /\ row[e].state # "awaiting_fix" /\ runs'[e] <= 1
          /\ \A u \in Callers : u # t =>
                resolver[e][u] \notin {"settle", "scoring"}
          /\ "scoring" # "settle" /\ "scoring" # "none"
          /\ \/ row[e].state = "resolving"
             \/ row[e].state = "failed" /\ guardedFaults > 0
      BY <1>o, <2>1, <2>2, <2>4
    <2>6. /\ resolver' = [resolver EXCEPT ![e][t] = "scoring"]
          /\ wrapper' = wrapper
      BY <2>1 DEF Resolver
    <2>7. QED
      BY <1>1, <1>t, <1>n, <1>r, <1>s, <2>1, <2>3, <2>4, <2>5, <2>6
  \* The terminal transition, by the thread that waited for the scorer.
  <1>5. CASE ScorerDone(e, t)
    <2>1. resolver[e][t] = "scoring" /\ UNCHANGED <<scorer, runs, timers>>
      BY <1>5 DEF ScorerDone, processes, ghosts
    <2>2. PICK state \in {"resolved", "failed"},
               step \in {"none", "unpause", "publish"} :
             /\ SetEpisodeState(e, state) /\ Resolver(e, t, step)
             /\ state = "resolved" => scorer[e] = "ok"
      <3>1. CASE scorer[e] = "ok"
        BY <1>5, <3>1 DEF ScorerDone, AfterTerminal
      <3>2. CASE scorer[e] # "ok"
        BY <1>5, <3>2 DEF ScorerDone, AfterTerminal
      <3>3. QED
        BY <3>1, <3>2
    <2>3. /\ row' \in [Episodes -> Row] /\ row'[e].state = state
          /\ \A f \in Episodes : f # e => row'[f] = row[f]
      BY <1>s, <1>t, <2>2, StateWritten DEF SetEpisodeState
    <2>4. /\ state \in Terminal /\ state \notin Early
          /\ state # "awaiting_fix" /\ step \in ResolverStep
          /\ state = "resolved" => e \in scored
      BY <1>r, <1>s, <2>2 DEF Terminal, Early
    <2>5. QED
      BY <1>1, <1>t, <1>o, <1>r, <2>1, <2>2, <2>3, <2>4 DEF Resolver
  <1>6. CASE UnpauseResolver(e, t)
    <2>1. /\ resolver[e][t] = "unpause"
          /\ UNCHANGED <<row, scorer, runs, timers>>
      BY <1>6 DEF UnpauseResolver, Unpause, db, processes
    <2>2. QED
      BY <1>2, <1>6, <1>o, <2>1 DEF UnpauseResolver
  <1>7. CASE Republish(e, t)
    <2>1. UNCHANGED <<row, scorer, runs, timers>>
      BY <1>7 DEF Republish, db, processes, ghosts
    <2>2. QED
      BY <1>2, <1>7, <2>1 DEF Republish
  <1>8. CASE ResolverRaises(e, t)
    <2>1. /\ UNCHANGED <<row, scorer, runs, timers>>
          /\ resolver' = [resolver EXCEPT ![e][t] = "none"]
          /\ IF t = "inline"
             THEN wrapper' = [wrapper EXCEPT ![e] = "guard"]
             ELSE wrapper' = wrapper
      BY <1>8 DEF ResolverRaises, db, processes, ghosts
    <2>2. QED
      BY <1>1, <1>8, <1>f, <1>t, <1>r, <1>s, <1>n, <2>1
  <1>9. QED
    BY <1>3, <1>4, <1>5, <1>6, <1>7, <1>8 DEF ResolverNext

\* The Timer starts one caller.
LEMMA LiveTimers ==
    ASSUME LiveInv, NEW e \in Episodes, TimerFires(e)
    PROVE  LiveInv'
  <1> USE DEF LiveInv
  <1>u. UNCHANGED <<scored, processes, wrapper, leakPaused, api, seen, ghosts,
                    faults, row>>
    BY DEF TimerFires, db
  <1>a. api = "up"
    BY DEF TimerFires, DownIsQuiet
  <1>s. "cas" \in ResolverStep /\ {"timer", "inline"} \subseteq Callers
    BY DEF ResolverStep, Callers
  <1>1. /\ row[e].state \notin Early
        /\ resolver' = [resolver EXCEPT ![e]["timer"] = "cas"]
        /\ timers' \subseteq timers
    BY DEF TimerFires, ThreadsFit
  <1>2. /\ resolver' \in [Episodes -> [Callers -> ResolverStep]]
        /\ resolver'[e]["timer"] = "cas"
        /\ \A u \in Callers : u # "timer" => resolver'[e][u] = resolver[e][u]
        /\ \A f \in Episodes : f # e => resolver'[f] = resolver[f]
    BY <1>s, <1>1, ThreadWritten DEF TypeOK
  <1>3. TypeOK'
    BY <1>u, <1>1, <1>2 DEF TypeOK, processes, ghosts, faults
  <1>4. ThreadsFit'
    BY <1>u, <1>s, <1>1, <1>2 DEF ThreadsFit, faults
  <1>5. ScoredOnce' /\ ResolvedMeansScored' /\ ScorerIsOwed' /\ DownIsQuiet'
    BY <1>u, <1>a, <1>1, <1>2
       DEF ScoredOnce, ResolvedMeansScored, ScorerIsOwed, DownIsQuiet,
           processes, ghosts
  <1>6. QED
    BY <1>3, <1>4, <1>5

\* What _reconcile_one_row decides.  It never revives a row that is over,
\* never sends a row back to before its scorer, and calls a row resolved only
\* if its scores row is there.
LEMMA ReconciledRow ==
    ASSUME NEW e \in Episodes, NEW overdue \in BOOLEAN,
           seen[e].state \in States
    PROVE  LET was == seen[e].state
               after == Reconciled(e, overdue)
           IN  /\ after.state \in States
               /\ was \in Terminal \cup {"absent"} =>
                     after.state = was /\ after.thread = "none"
               /\ was = "awaiting_fix" => after.state = was
               /\ was = "resolving" => after.state \in Terminal
               /\ was \in {"injecting", "holding"} =>
                     after.state \in {was, "awaiting_fix", "failed"}
               /\ after.state = "resolved" => was = "resolved" \/ e \in scored
               /\ after.thread = "orphan" =>
                     after.state \in {"injecting", "holding"}
               /\ after.thread \in {"timer", "auto"} =>
                     after.state = "awaiting_fix"
  <1>1. CASE seen[e].state \in {"injecting", "holding"}
    BY <1>1 DEF Reconciled, States, NonTerminal, Terminal
  <1>2. CASE seen[e].state \in {"awaiting_fix", "resolving"}
    BY <1>2 DEF Reconciled, States, NonTerminal, Terminal
  <1>3. CASE seen[e].state \in Terminal \cup {"absent"}
    BY <1>3 DEF Reconciled, States, NonTerminal, Terminal
  <1>4. QED
    BY <1>1, <1>2, <1>3 DEF States, NonTerminal

LEMMA LiveReconcile ==
    ASSUME LiveInv, NEW overdue \in BOOLEAN, ReconcileOnStartup(overdue)
    PROVE  LiveInv'
  <1> USE DEF LiveInv
  <1> DEFINE after == [e \in Episodes |-> Reconciled(e, overdue)]
  <1>1. /\ row' = [e \in Episodes |-> [row[e] EXCEPT !.state = after[e].state]]
        /\ wrapper' = [e \in Episodes |->
              IF after[e].thread = "orphan" THEN "watch" ELSE "none"]
        /\ timers' = {e \in Episodes : after[e].thread = "timer"}
        /\ resolver' = [e \in Episodes |-> [NoThreads[e] EXCEPT
              !["auto"] = IF after[e].thread = "auto" THEN "cas"
                          ELSE NoThreads[e]["auto"]]]
        /\ api = "reconciling" /\ api' = "up" /\ seen' = NoRows
        /\ UNCHANGED <<scored, processes, leakPaused, ghosts, faults>>
    BY DEF ReconcileOnStartup
  <1>t. row \in [Episodes -> Row] /\ seen \in [Episodes -> Row]
    BY DEF TypeOK
  <1>r. ASSUME NEW e \in Episodes
        PROVE  LET was == row[e].state
               IN  /\ after[e].state \in States
                   /\ was \in Terminal \cup {"absent"} =>
                         after[e].state = was /\ after[e].thread = "none"
                   /\ was = "awaiting_fix" => after[e].state = was
                   /\ was = "resolving" => after[e].state \in Terminal
                   /\ was \in {"injecting", "holding"} =>
                         after[e].state \in {was, "awaiting_fix", "failed"}
                   /\ after[e].state = "resolved" =>
                         was = "resolved" \/ e \in scored
                   /\ after[e].thread = "orphan" =>
                         after[e].state \in {"injecting", "holding"}
                   /\ after[e].thread \in {"timer", "auto"} =>
                         after[e].state = "awaiting_fix"
    <2>1. seen[e].state = row[e].state /\ seen[e].state \in States
      BY <1>1, <1>t DEF DownIsQuiet, Row, States
    <2>2. after[e] = Reconciled(e, overdue)
      OBVIOUS
    <2> HIDE DEF after
    <2>3. QED
      BY <2>1, <2>2, ReconciledRow
  <1> HIDE DEF after
  <1>2. /\ row' \in [Episodes -> Row]
        /\ \A e \in Episodes : row'[e].state = after[e].state
    BY SMTT(60), <1>1, <1>t, <1>r DEF Row, States
  <1>3. /\ resolver' \in [Episodes -> [Callers -> ResolverStep]]
        /\ \A e \in Episodes : \A t \in Callers :
              /\ resolver'[e][t] \in {"none", "cas"}
              /\ resolver'[e][t] # "none" => after[e].thread = "auto"
    <2>1. "auto" \in Callers /\ "cas" \in ResolverStep /\ "none" \in ResolverStep
      BY DEF Callers, ResolverStep
    <2>2. \A e \in Episodes : NoThreads[e] = [t \in Callers |-> "none"]
      BY DEF NoThreads
    <2>3. resolver' = [e \in Episodes |-> [t \in Callers |->
              IF t = "auto" /\ after[e].thread = "auto"
              THEN "cas" ELSE "none"]]
      BY <1>1, <2>1, <2>2
    <2>4. QED
      BY <2>1, <2>3
  <1>4. /\ wrapper' \in [Episodes -> WrapperStep]
        /\ \A e \in Episodes :
              /\ wrapper'[e] \in {"none", "watch"}
              /\ wrapper'[e] = "watch" => after[e].thread = "orphan"
    <2>1. {"none", "watch"} \subseteq WrapperStep
      BY DEF WrapperStep
    <2>2. QED
      BY <1>1, <2>1
  <1>5. NoRows \in [Episodes -> Row]
    <2>1. (CHOOSE c \in FaultClasses : TRUE) \in FaultClasses
      BY LiveEpisodeAssumption
    <2>2. QED
      BY <2>1 DEF NoRows, EmptyRow, Row
  <1>6. TypeOK'
    BY <1>1, <1>2, <1>3, <1>4, <1>5 DEF TypeOK, processes, ghosts, faults
  <1>7. ThreadsFit'
    <2>1. \A e \in Episodes : wrapper'[e] = "watch" =>
             row'[e].state \in {"injecting", "holding"}
      BY <1>2, <1>4, <1>r
    <2>2. \A e \in Episodes : e \in timers' => row'[e].state = "awaiting_fix"
      BY <1>1, <1>2, <1>r
    <2>3. \A e \in Episodes : \A t \in Callers :
             resolver'[e][t] # "none" => row'[e].state = "awaiting_fix"
      BY <1>2, <1>3, <1>r
    <2>4. \A e \in Episodes : \A t \in Callers :
             resolver'[e][t] \in {"none", "cas"}
      BY <1>3
    <2>5. "inline" \in Callers /\ "inline" # "auto"
      BY DEF Callers
    <2>6. \A e \in Episodes : resolver'[e]["inline"] = "none"
      <3>1. \A e \in Episodes : NoThreads[e] = [u \in Callers |-> "none"]
        BY DEF NoThreads
      <3>2. QED
        BY <1>1, <2>5, <3>1
    <2>7. QED
      BY <1>4, <2>1, <2>2, <2>3, <2>4, <2>6 DEF ThreadsFit, Early
  <1>8. DownIsQuiet'
    BY <1>1 DEF DownIsQuiet
  <1>9. ScoredOnce' /\ ResolvedMeansScored'
    BY <1>1, <1>2, <1>r DEF ScoredOnce, ResolvedMeansScored, ghosts
  <1>10. ScorerIsOwed'
    <2>1. ASSUME NEW e \in Episodes,
                 row'[e].state \in Early \cup {"awaiting_fix"}
          PROVE  runs'[e] = 0
      <3>1. row[e].state \in States
        BY <1>t DEF Row, States
      <3>2. row[e].state \in Early \cup {"awaiting_fix"}
        BY <1>2, <1>r, <2>1, <3>1 DEF Early, States, NonTerminal, Terminal
      <3>3. QED
        BY <1>1, <3>2 DEF ScorerIsOwed, ghosts
    <2>2. QED
      BY <1>1, <1>3, <2>1 DEF ScorerIsOwed, processes
  <1>11. QED
    BY <1>6, <1>7, <1>8, <1>9, <1>10

\* A crash, and reconciliation's SELECT.
LEMMA LiveCrash ==
    ASSUME LiveInv,
           \/ ReadRows
           \/ \E survivors \in SUBSET {"injector", "scorer"} : Crash(survivors)
    PROVE  LiveInv'
  <1> USE DEF LiveInv
  <1>1. CASE ReadRows
    <2>1. /\ api = "down" /\ api' = "reconciling" /\ seen' = row
          /\ UNCHANGED <<db, processes, threads, leakPaused, ghosts, faults>>
      BY <1>1 DEF ReadRows
    <2>2. TypeOK'
      BY <2>1 DEF TypeOK, db, processes, threads, ghosts, faults
    <2>3. ThreadsFit' /\ DownIsQuiet'
      BY <2>1 DEF ThreadsFit, DownIsQuiet, db, threads, faults
    <2>4. ScoredOnce' /\ ResolvedMeansScored' /\ ScorerIsOwed'
      BY <2>1 DEF ScoredOnce, ResolvedMeansScored, ScorerIsOwed, db,
                  processes, threads, ghosts
    <2>5. QED
      BY <2>2, <2>3, <2>4
  <1>2. ASSUME NEW survivors \in SUBSET {"injector", "scorer"},
               Crash(survivors)
        PROVE  LiveInv'
    <2>1. /\ api' = "down" /\ timers' = {} /\ leakPaused' = FALSE
          /\ UNCHANGED <<db, stopFile, seen, runs, abandoned, guardedFaults,
                         unguardedFaults>>
          /\ crashes' = crashes + 1 /\ crashes < CrashBound
          /\ lostPause' \subseteq Episodes
      BY <1>2 DEF Crash, Leaking, TypeOK
    <2>2. /\ wrapper' \in [Episodes -> WrapperStep]
          /\ \A e \in Episodes : wrapper'[e] = "none"
      BY <1>2 DEF Crash, WrapperStep
    <2>3. /\ resolver' \in [Episodes -> [Callers -> ResolverStep]]
          /\ \A e \in Episodes : \A t \in Callers : resolver'[e][t] = "none"
      <3>1. "none" \in ResolverStep
        BY DEF ResolverStep
      <3>2. QED
        BY <1>2, <3>1 DEF Crash, NoThreads
    <2>4. /\ injector' \in [Episodes -> InjectorStatus]
          /\ scorer' \in [Episodes -> ScorerStatus]
          /\ \A e \in Episodes : scorer'[e] \in {"failed", scorer[e]}
      <3>1. "failed" \in InjectorStatus /\ "failed" \in ScorerStatus
        BY DEF InjectorStatus, ScorerStatus
      <3>2. QED
        BY <1>2, <3>1 DEF Crash, TypeOK
    <2>5. crashes' \in 0..CrashBound
      BY <2>1, LiveEpisodeAssumption DEF TypeOK
    <2>6. TypeOK'
      BY <2>1, <2>2, <2>3, <2>4, <2>5 DEF TypeOK, db
    <2>7. ThreadsFit' /\ DownIsQuiet'
      <3>1. "inline" \in Callers
        BY DEF Callers
      <3>2. QED
        BY <2>1, <2>2, <2>3, <3>1 DEF ThreadsFit, DownIsQuiet
    <2>8. ScoredOnce' /\ ResolvedMeansScored' /\ ScorerIsOwed'
      BY <2>1, <2>3, <2>4
         DEF ScoredOnce, ResolvedMeansScored, ScorerIsOwed, db
    <2>9. QED
      BY <2>6, <2>7, <2>8
  <1>3. QED
    BY <1>1, <1>2

LEMMA LiveStep == LiveInv /\ [Next]_vars => LiveInv'
  <1> SUFFICES ASSUME LiveInv, [Next]_vars PROVE LiveInv'
    OBVIOUS
  <1>1. ASSUME NEW e \in Episodes,
               \/ Requests(e) \/ WrapperNext(e) \/ InjectorTimesOut(e)
               \/ WrapperRaises(e) \/ GuardRaises(e)
               \/ TriggerInjectRaises(e) \/ TimerFires(e)
        PROVE  LiveInv'
    BY <1>1, LiveRequests, LiveWrapper, LiveTimers
  <1>2. ASSUME NEW e \in Episodes,
               \/ InjectorRecords(e) \/ ScorerScores(e)
               \/ \E confirmed \in BOOLEAN : Tick(e, confirmed)
               \/ \E code \in {"ok", "failed"} :
                     InjectorExits(e, code) \/ ScorerExits(e, code)
               \/ \E t \in Callers : ScorerTimesOut(e, t)
        PROVE  LiveInv'
    BY <1>2, LiveProcesses
  <1>3. ASSUME NEW e \in Episodes, NEW t \in Callers,
               ResolverNext(e, t) \/ ResolverRaises(e, t)
        PROVE  LiveInv'
    BY <1>3, LiveResolver
  <1>4. CASE \/ Restart
             \/ \E survivors \in SUBSET {"injector", "scorer"} :
                   Crash(survivors)
    BY <1>4, LiveReconcile, LiveCrash DEF Restart
  <1>5. CASE UNCHANGED vars
    <2>1. TypeOK'
      BY <1>5 DEF LiveInv, TypeOK, vars, db, processes, threads, ghosts,
                  faults
    <2>2. ThreadsFit' /\ DownIsQuiet'
      BY <1>5 DEF LiveInv, ThreadsFit, DownIsQuiet, vars, db, threads,
                  faults
    <2>3. ScoredOnce' /\ ResolvedMeansScored' /\ ScorerIsOwed'
      BY <1>5 DEF LiveInv, ScoredOnce, ResolvedMeansScored, ScorerIsOwed,
                  vars, db, processes, threads, ghosts
    <2>4. QED
      BY <2>1, <2>2, <2>3 DEF LiveInv
  <1>6. CASE Done
    BY <1>5, <1>6 DEF Done
  <1>7. QED
    BY <1>1, <1>2, <1>3, <1>4, <1>5, <1>6 DEF Next

\* However clicks, the Timer, the wrapper's own call, crashes, exceptions and
\* the reconciliation after a crash interleave, an episode's scorer is started
\* at most once and a resolved episode has its scores row (_attempt_resolve's
\* gate 2, _reconcile_one_row).
THEOREM LiveInvariant == Spec => []LiveInv
  BY LiveInit, LiveStep, PTL DEF Spec

-----------------------------------------------------------------------------
(* What a step does to the states of the episodes table.  The theorems     *)
(* below are about rows, and rest on this.                                 *)

\* A thread wrote the state of f: a row in flight; or, as a guard, any row;
\* or a row that a guard had failed while its scorer ran.
Wrote(f) ==
    /\ \A g \in Episodes : row'[g].class = row[g].class
    /\ \A g \in Episodes : g # f => row'[g].state = row[g].state
    /\ row'[f].state \in NonTerminal \cup Terminal
    /\ \/ InFlight(f)
       \/ wrapper[f] = "guard" /\ row'[f].state = "failed"
       \/ /\ guardedFaults > 0 /\ row[f].state = "failed"
          /\ row'[f].state \in Terminal
          /\ \E t \in Callers : resolver[f][t] = "scoring"

\* No row changed its state, or rows in flight moved on: a thread's step that
\* is no end, or reconciliation.
Kept ==
    \A g \in Episodes :
        /\ row'[g].class = row[g].class
        /\ \/ row'[g].state = row[g].state
           \/ InFlight(g) /\ row'[g].state \in NonTerminal \cup Terminal

RowsMove ==
    \/ \E e \in Episodes, c \in FaultClasses : TriggerInject(e, c)
    \/ \E f \in Episodes : Wrote(f)
    \/ Kept

\* What SetEpisodeState does to the row.
LEMMA SetStateMoves ==
    ASSUME LiveInv, NEW e \in Episodes,
           NEW state \in NonTerminal \cup Terminal, SetEpisodeState(e, state)
    PROVE  /\ row'[e].state = state
           /\ row'[e].abandon = row[e].abandon
           /\ \A f \in Episodes : f # e => row'[f] = row[f]
           /\ \A f \in Episodes : row'[f].class = row[f].class
  <1>1. row \in [Episodes -> Row] /\ state \in States
    BY DEF LiveInv, TypeOK, States
  <1>2. QED
    BY <1>1, StateWritten DEF SetEpisodeState

\* A call of _set_episode_state for a row in flight is a write of that row.
LEMMA SetStateWrites ==
    ASSUME LiveInv, NEW e \in Episodes, InFlight(e),
           NEW state \in NonTerminal \cup Terminal, SetEpisodeState(e, state)
    PROVE  Wrote(e)
  BY SetStateMoves DEF Wrote

LEMMA WrapperRows ==
    ASSUME LiveInv, NEW e \in Episodes,
           \/ WrapperNext(e) \/ InjectorTimesOut(e) \/ WrapperRaises(e)
           \/ GuardRaises(e) \/ TriggerInjectRaises(e)
           \/ \E confirmed \in BOOLEAN : Tick(e, confirmed)
    PROVE  RowsMove
  <1>t. row \in [Episodes -> Row]
    BY DEF LiveInv, TypeOK
  <1>1. CASE \/ PauseCheckout(e) \/ SpawnInjector(e) \/ InjectorExitSeen(e)
             \/ ArmTimer(e) \/ StartAuto(e) \/ UnpauseWrapper(e)
             \/ InjectorTimesOut(e) \/ WrapperRaises(e) \/ GuardRaises(e)
             \/ TriggerInjectRaises(e)
    <2>1. row' = row
      BY <1>1 DEF PauseCheckout, SpawnInjector, InjectorExitSeen, ArmTimer,
                  StartAuto, UnpauseWrapper, InjectorTimesOut, WrapperRaises,
                  GuardRaises, TriggerInjectRaises, db
    <2>2. QED
      BY <2>1 DEF RowsMove, Kept
  <1>2. CASE RecordPid(e)
    <2>1. row[e].state = "injecting"
      BY <1>2 DEF RecordPid, LiveInv, ThreadsFit
    <2>2. /\ \A g \in Episodes : g # e => row'[g] = row[g]
          /\ row'[e].class = row[e].class
          /\ row'[e].state \in {"injecting", "holding"}
      BY <1>2, <1>t, <2>1 DEF RecordPid, Row
    <2>3. QED
      BY <2>1, <2>2 DEF RowsMove, Kept, InFlight, NonTerminal
  <1>3. ASSUME wrapper[e] \in {"exited", "timedOut", "await", "watch"},
               NEW state \in NonTerminal \cup Terminal,
               SetEpisodeState(e, state)
        PROVE  RowsMove
    <2>1. InFlight(e)
      BY <1>3 DEF LiveInv, ThreadsFit, InFlight, NonTerminal
    <2>2. QED
      BY <1>3, <2>1, SetStateWrites DEF RowsMove
  <1>4. CASE ClassifyExit(e) \/ AwaitFix(e) \/ OrphanGone(e)
    <2>1. CASE row' = row
      BY <2>1 DEF RowsMove, Kept
    <2>2. CASE row' # row
      <3>1. /\ wrapper[e] \in {"exited", "timedOut", "await", "watch"}
            /\ \E state \in {"failed", "awaiting_fix"} :
                  SetEpisodeState(e, state)
        BY <1>4, <2>2 DEF ClassifyExit, AwaitFix, OrphanGone
      <3>2. QED
        BY <1>3, <3>1 DEF NonTerminal, Terminal
    <2>3. QED
      BY <2>1, <2>2
  <1>5. CASE Guard(e)
    <2>1. wrapper[e] = "guard" /\ SetEpisodeState(e, "failed")
      BY <1>5 DEF Guard
    <2>2. "failed" \in NonTerminal \cup Terminal
      BY DEF Terminal
    <2>3. Wrote(e)
      BY <2>1, <2>2, SetStateMoves DEF Wrote
    <2>4. QED
      BY <2>3 DEF RowsMove
  <1>6. ASSUME NEW confirmed \in BOOLEAN, Tick(e, confirmed)
        PROVE  RowsMove
    <2>1. \A g \in Episodes : /\ row'[g].state = row[g].state
                              /\ row'[g].class = row[g].class
      BY <1>6, <1>t DEF Tick, Row
    <2>2. QED
      BY <2>1 DEF RowsMove, Kept
  <1>7. QED
    BY <1>1, <1>2, <1>4, <1>5, <1>6 DEF WrapperNext

LEMMA ResolverRows ==
    ASSUME LiveInv, NEW e \in Episodes, NEW t \in Callers,
           \/ ResolverNext(e, t) \/ ScorerTimesOut(e, t)
           \/ ResolverRaises(e, t)
    PROVE  RowsMove
  <1>t. row \in [Episodes -> Row]
    BY DEF LiveInv, TypeOK
  <1>1. CASE row' = row
    BY <1>1 DEF RowsMove, Kept
  <1>2. CASE CompareAndSet(e, t) /\ row[e].state = "awaiting_fix"
    <2>1. InFlight(e) /\ "resolving" \in NonTerminal \cup Terminal
      BY <1>2 DEF InFlight, NonTerminal
    <2>2. SetEpisodeState(e, "resolving")
      BY <1>2 DEF CompareAndSet, SetEpisodeState
    <2>3. QED
      BY <2>1, <2>2, SetStateWrites DEF RowsMove
  <1>3. CASE ScorerDone(e, t)
    <2>1. resolver[e][t] = "scoring"
      BY <1>3 DEF ScorerDone
    <2>2. PICK state \in Terminal : SetEpisodeState(e, state)
      BY <1>3 DEF ScorerDone, Terminal
    <2>3. \/ InFlight(e)
          \/ row[e].state = "failed" /\ guardedFaults > 0
      BY <2>1 DEF LiveInv, ThreadsFit, InFlight, NonTerminal
    <2>4. Wrote(e)
      BY <2>1, <2>2, <2>3, SetStateMoves DEF Wrote
    <2>5. QED
      BY <2>4 DEF RowsMove
  <1>4. QED
    BY <1>1, <1>2, <1>3 DEF ResolverNext, CompareAndSet, StartScorer,
       UnpauseResolver, Republish, ScorerTimesOut, ResolverRaises, db

LEMMA ReconcileRows ==
    ASSUME LiveInv, NEW overdue \in BOOLEAN, ReconcileOnStartup(overdue)
    PROVE  Kept
  <1>t. row \in [Episodes -> Row] /\ seen \in [Episodes -> Row]
    BY DEF LiveInv, TypeOK
  <1>1. api = "reconciling"
    BY DEF ReconcileOnStartup
  <1>2. ASSUME NEW g \in Episodes
        PROVE  /\ row'[g].class = row[g].class
               /\ \/ row'[g].state = row[g].state
                  \/ InFlight(g) /\ row'[g].state \in NonTerminal \cup Terminal
    <2> DEFINE after == Reconciled(g, overdue)
    <2>1. row'[g] = [row[g] EXCEPT !.state = after.state]
      BY DEF ReconcileOnStartup
    <2>2. seen[g].state = row[g].state /\ seen[g].state \in States
      BY <1>1, <1>t DEF LiveInv, DownIsQuiet, Row, States
    <2>3. /\ after.state \in States
          /\ row[g].state \in Terminal \cup {"absent"} =>
                after.state = row[g].state
          /\ row[g].state \in {"injecting", "holding"} =>
                after.state \in {row[g].state, "awaiting_fix", "failed"}
          /\ row[g].state = "awaiting_fix" => after.state = row[g].state
          /\ row[g].state = "resolving" => after.state \in Terminal
      BY <2>2, ReconciledRow
    <2> HIDE DEF after
    <2>4. row'[g].state = after.state /\ row'[g].class = row[g].class
      BY <1>t, <2>1 DEF Row
    <2>5. QED
      BY <2>2, <2>3, <2>4 DEF InFlight, States, NonTerminal, Terminal
  <1>3. QED
    BY <1>2 DEF Kept

\* Every step of the API and of its subprocesses moves the rows in one of
\* these three ways.
LEMMA RowStep == LiveInv /\ [Next]_vars => RowsMove
  <1> SUFFICES ASSUME LiveInv, [Next]_vars PROVE RowsMove
    OBVIOUS
  <1>t. row \in [Episodes -> Row]
    BY DEF LiveInv, TypeOK
  <1>k. ASSUME row' = row PROVE RowsMove
    BY <1>k DEF RowsMove, Kept
  <1>1. ASSUME NEW e \in Episodes, Requests(e)
        PROVE  RowsMove
    <2>1. CASE TriggerStopHold(e) \/ Logout(e)
      <3>1. \A g \in Episodes : /\ row'[g].state = row[g].state
                                /\ row'[g].class = row[g].class
        <4>1. CASE TriggerStopHold(e)
          BY <1>t, <4>1 DEF TriggerStopHold, Row
        <4>2. CASE Logout(e)
          BY <1>t, <4>2 DEF Logout, Row
        <4>3. QED
          BY <2>1, <4>1, <4>2
      <3>2. QED
        BY <3>1 DEF RowsMove, Kept
    <2>2. CASE \E k \in Clicks : TriggerResolve(e, k)
      BY <1>k, <2>2 DEF TriggerResolve, db
    <2>3. QED
      BY <1>1, <2>1, <2>2 DEF Requests, RowsMove
  <1>2. ASSUME NEW e \in Episodes,
               \/ WrapperNext(e) \/ InjectorTimesOut(e) \/ WrapperRaises(e)
               \/ GuardRaises(e) \/ TriggerInjectRaises(e)
               \/ \E confirmed \in BOOLEAN : Tick(e, confirmed)
        PROVE  RowsMove
    BY <1>2, WrapperRows
  <1>3. ASSUME NEW e \in Episodes, NEW t \in Callers,
               \/ ResolverNext(e, t) \/ ScorerTimesOut(e, t)
               \/ ResolverRaises(e, t)
        PROVE  RowsMove
    BY <1>3, ResolverRows
  <1>4. ASSUME NEW e \in Episodes, InjectorRecords(e)
        PROVE  RowsMove
    <2>1. \A g \in Episodes : /\ row'[g].state = row[g].state
                              /\ row'[g].class = row[g].class
      BY <1>t, <1>4 DEF InjectorRecords, Row
    <2>2. QED
      BY <2>1 DEF RowsMove, Kept
  <1>5. ASSUME NEW e \in Episodes,
               \/ TimerFires(e) \/ ScorerScores(e)
               \/ \E code \in {"ok", "failed"} :
                     InjectorExits(e, code) \/ ScorerExits(e, code)
        PROVE  RowsMove
    BY <1>k, <1>5 DEF TimerFires, ScorerScores, InjectorExits, ScorerExits, db
  <1>6. CASE Restart
    BY <1>k, <1>6, ReconcileRows DEF Restart, ReadRows, RowsMove, db
  <1>7. ASSUME NEW survivors \in SUBSET {"injector", "scorer"},
               Crash(survivors)
        PROVE  RowsMove
    BY <1>k, <1>7 DEF Crash, db
  <1>8. CASE Done \/ UNCHANGED vars
    BY <1>k, <1>8 DEF Done, vars, db
  <1>9. QED
    BY <1>1, <1>2, <1>3, <1>4, <1>5, <1>6, <1>7, <1>8 DEF Next

-----------------------------------------------------------------------------
(* What the rows promise.                                                  *)

\* At most one episode is in flight system-wide: _TRIGGER_LOCK makes
\* /trigger/inject's check and its INSERT one step, and nothing else, not a
\* crash, a reconciliation or a late thread, puts a row back in flight.
LEMMA SingleStep == LiveInv /\ SingleInFlight /\ [Next]_vars => SingleInFlight'
  <1> SUFFICES ASSUME LiveInv, SingleInFlight, RowsMove PROVE SingleInFlight'
    BY RowStep
  <1>t. row \in [Episodes -> Row]
    BY DEF LiveInv, TypeOK
  <1>1. ASSUME NEW e \in Episodes, NEW c \in FaultClasses, TriggerInject(e, c)
        PROVE  SingleInFlight'
    <2>1. \A f \in Episodes : f # e => ~InFlight(f)'
      BY <1>t, <1>1 DEF TriggerInject, InFlight
    <2>2. QED
      BY <2>1 DEF SingleInFlight
  <1>2. CASE (\E f \in Episodes : Wrote(f)) \/ Kept
    <2>1. \A g \in Episodes : InFlight(g)' => InFlight(g)
      BY <1>2 DEF Wrote, Kept, InFlight, NonTerminal, Terminal
    <2>2. QED
      BY <2>1 DEF SingleInFlight
  <1>3. QED
    BY <1>1, <1>2 DEF RowsMove

\* For any number of episodes, clicks, crashes and exceptions, at most one
\* row of the episodes table is in flight (_in_flight_episode_row).
THEOREM OneInFlight == Spec => []SingleInFlight
  <1>1. Init => SingleInFlight
    BY DEF Init, SingleInFlight, InFlight, NoRows, EmptyRow, NonTerminal
  <1>2. QED
    BY <1>1, SingleStep, LiveInvariant, PTL DEF Spec

\* An episode that is over stays over, for any number of crashes and of
\* exceptions at any statement of any thread.  Its label changes only by a
\* guard that fails it (operator_api.py:1378, :2073), and by the thread that
\* waited for the scorer of a row which a guard had failed (_attempt_resolve).
THEOREM OverIsOver == Spec => TerminalIsFinal
  <1>1. ASSUME LiveInv, [Next]_vars
        PROVE  [\A e \in Episodes :
                  row[e].state \in Terminal =>
                    \/ row'[e].state = row[e].state
                    \/ wrapper[e] = "guard" /\ row'[e].state = "failed"
                    \/ /\ guardedFaults > 0 /\ row[e].state = "failed"
                       /\ row'[e].state \in Terminal
                       /\ \E t \in Callers : resolver[e][t] = "scoring"]_vars
    <2> DEFINE Final(e) ==
                  \/ row'[e].state = row[e].state
                  \/ wrapper[e] = "guard" /\ row'[e].state = "failed"
                  \/ /\ guardedFaults > 0 /\ row[e].state = "failed"
                     /\ row'[e].state \in Terminal
                     /\ \E t \in Callers : resolver[e][t] = "scoring"
    <2>1. ASSUME NEW e \in Episodes, row[e].state \in Terminal
          PROVE  Final(e)
      <3>1. ~InFlight(e) /\ row[e].state # "absent"
        BY <2>1 DEF InFlight, Terminal, NonTerminal
      <3>2. row \in [Episodes -> Row]
        BY <1>1 DEF LiveInv, TypeOK
      <3>3. RowsMove
        BY <1>1, RowStep
      <3>4. ASSUME NEW f \in Episodes, NEW c \in FaultClasses,
                   TriggerInject(f, c)
            PROVE  row'[e].state = row[e].state
        BY <3>1, <3>2, <3>4 DEF TriggerInject
      <3>5. ASSUME NEW f \in Episodes, Wrote(f)
            PROVE  Final(e)
        BY <3>1, <3>5 DEF Wrote
      <3>6. CASE Kept
        BY <3>1, <3>6 DEF Kept
      <3>7. QED
        BY <3>3, <3>4, <3>5, <3>6 DEF RowsMove
    <2>2. QED
      BY <2>1
  <1>2. QED
    BY <1>1, LiveInvariant, PTL DEF Spec, TerminalIsFinal

LEMMA NoneOfThree ==
    ASSUME NEW l \in Nat, NEW m \in Nat, NEW n \in Nat, l + m + n = 0
    PROVE  l = 0 /\ m = 0 /\ n = 0
  OBVIOUS

\* The counts of crashes and exceptions only grow: what a later state can say
\* of a run without them, an earlier one could.
LEMMA FaultsCounted ==
    ASSUME LiveInv, [Next]_vars
    PROVE  /\ crashes \in Nat /\ crashes' \in Nat /\ crashes' >= crashes
           /\ guardedFaults \in Nat /\ guardedFaults' \in Nat
           /\ guardedFaults' >= guardedFaults
           /\ unguardedFaults \in Nat /\ unguardedFaults' \in Nat
           /\ unguardedFaults' >= unguardedFaults
  <1>1. /\ crashes \in Nat /\ guardedFaults \in Nat /\ unguardedFaults \in Nat
        /\ crashes' \in Nat /\ guardedFaults' \in Nat
        /\ unguardedFaults' \in Nat
    BY LiveStep DEF LiveInv, TypeOK
  <1> DEFINE Grows == /\ crashes' >= crashes
                      /\ guardedFaults' >= guardedFaults
                      /\ unguardedFaults' >= unguardedFaults
  <1>k. ASSUME UNCHANGED faults PROVE Grows
    BY <1>1, <1>k DEF faults
  <1> HIDE DEF Grows
  <1>2. ASSUME NEW e \in Episodes,
               \/ Requests(e) \/ WrapperNext(e) \/ InjectorTimesOut(e)
               \/ InjectorRecords(e) \/ TimerFires(e) \/ ScorerScores(e)
        PROVE  Grows
    <2>1. CASE Requests(e)
      BY <1>k, <2>1 DEF Requests, TriggerInject, TriggerStopHold, Logout,
                        TriggerResolve
    <2>2. CASE WrapperNext(e)
      BY <1>k, <2>2 DEF WrapperNext, PauseCheckout, SpawnInjector, RecordPid,
         InjectorExitSeen, ClassifyExit, AwaitFix, ArmTimer, OrphanGone,
         StartAuto, Guard, UnpauseWrapper
    <2>3. CASE \/ InjectorTimesOut(e) \/ InjectorRecords(e) \/ TimerFires(e)
               \/ ScorerScores(e)
      BY <1>k, <2>3 DEF InjectorTimesOut, InjectorRecords, TimerFires,
                        ScorerScores
    <2>4. QED
      BY <1>2, <2>1, <2>2, <2>3
  <1>3. ASSUME NEW e \in Episodes,
               \/ \E confirmed \in BOOLEAN : Tick(e, confirmed)
               \/ \E code \in {"ok", "failed"} :
                     InjectorExits(e, code) \/ ScorerExits(e, code)
        PROVE  Grows
    BY <1>k, <1>3 DEF Tick, InjectorExits, ScorerExits
  <1>4. ASSUME NEW e \in Episodes, NEW t \in Callers,
               \/ ResolverNext(e, t) \/ ScorerTimesOut(e, t)
               \/ ResolverRaises(e, t)
        PROVE  Grows
    <2>1. CASE ResolverNext(e, t) \/ ScorerTimesOut(e, t)
      BY <1>k, <2>1 DEF ResolverNext, CompareAndSet, StartScorer, ScorerDone,
                        UnpauseResolver, Republish, ScorerTimesOut
    <2>2. CASE ResolverRaises(e, t)
      BY <1>1, <2>2 DEF ResolverRaises, Grows
    <2>3. QED
      BY <1>4, <2>1, <2>2
  <1>5. ASSUME NEW e \in Episodes,
               WrapperRaises(e) \/ GuardRaises(e) \/ TriggerInjectRaises(e)
        PROVE  Grows
    BY <1>1, <1>5 DEF WrapperRaises, GuardRaises, TriggerInjectRaises, Grows
  <1>6. ASSUME Restart PROVE Grows
    BY <1>k, <1>6 DEF Restart, ReadRows, ReconcileOnStartup
  <1>7. ASSUME NEW survivors \in SUBSET {"injector", "scorer"},
               Crash(survivors)
        PROVE  Grows
    BY <1>1, <1>7 DEF Crash, Grows
  <1>8. ASSUME Done \/ UNCHANGED vars PROVE Grows
    BY <1>k, <1>8 DEF Done, vars
  <1>9. Grows
    BY <1>2, <1>3, <1>4, <1>5, <1>6, <1>7, <1>8 DEF Next
  <1>10. QED
    BY <1>1, <1>9 DEF Grows

-----------------------------------------------------------------------------
(* Threads are started once.                                               *)

\* The Timer of an episode is armed once and its thread starts when it fires;
\* an orphan's watcher starts the one reconciliation left to it.
StartedOnce ==
    \A e \in Episodes :
        /\ wrapper[e] = "arm" \/ e \in timers => resolver[e]["timer"] = "none"
        /\ wrapper[e] = "arm" => e \notin timers
        /\ wrapper[e] = "auto" => resolver[e]["auto"] = "none"

LEMMA StartedInit == Init => StartedOnce
  BY DEF Init, StartedOnce, NoThreads, Callers

LEMMA StartedStep == LiveInv /\ StartedOnce /\ [Next]_vars => StartedOnce'
  <1> SUFFICES ASSUME LiveInv, StartedOnce, [Next]_vars PROVE StartedOnce'
    OBVIOUS
  <1>t. /\ wrapper \in [Episodes -> WrapperStep]
        /\ resolver \in [Episodes -> [Callers -> ResolverStep]]
        /\ {"timer", "auto", "inline"} \subseteq Callers
    BY DEF LiveInv, TypeOK, Callers
  <1>k. ASSUME UNCHANGED threads PROVE StartedOnce'
    BY <1>k DEF StartedOnce, threads
  <1>c. \A k \in Clicks : k \in Callers /\ k \notin {"timer", "auto"}
    BY LiveEpisodeAssumption DEF Callers
  <1>1. ASSUME NEW e \in Episodes, Requests(e)
        PROVE  StartedOnce'
    <2>1. ASSUME NEW c \in FaultClasses, TriggerInject(e, c)
          PROVE  StartedOnce'
      BY <1>t, <2>1 DEF StartedOnce, TriggerInject
    <2>2. CASE TriggerStopHold(e) \/ Logout(e)
      BY <1>k, <2>2 DEF TriggerStopHold, Logout
    <2>3. ASSUME NEW k \in Clicks, TriggerResolve(e, k)
          PROVE  StartedOnce'
      BY <1>t, <1>c, <2>3 DEF StartedOnce, TriggerResolve
    <2>4. QED
      BY <1>1, <2>1, <2>2, <2>3 DEF Requests
  <1>2. ASSUME NEW e \in Episodes,
               \/ PauseCheckout(e) \/ SpawnInjector(e) \/ RecordPid(e)
               \/ InjectorExitSeen(e) \/ ClassifyExit(e) \/ Guard(e)
               \/ UnpauseWrapper(e) \/ InjectorTimesOut(e)
               \/ WrapperRaises(e) \/ GuardRaises(e) \/ TriggerInjectRaises(e)
        PROVE  StartedOnce'
    <2>1. /\ resolver' = resolver /\ timers' = timers
          /\ \E step \in WrapperStep \ {"arm", "auto"} :
                wrapper' = [wrapper EXCEPT ![e] = step]
      BY <1>2 DEF PauseCheckout, SpawnInjector, RecordPid, InjectorExitSeen,
         ClassifyExit, Guard, UnpauseWrapper, InjectorTimesOut, WrapperRaises,
         GuardRaises, TriggerInjectRaises, AfterTerminal, WrapperStep
    <2>2. QED
      BY <1>t, <2>1 DEF StartedOnce
  <1>3. ASSUME NEW e \in Episodes, AwaitFix(e) \/ OrphanGone(e)
        PROVE  StartedOnce'
    <2>1. row[e].state \in Early
      BY <1>3 DEF AwaitFix, OrphanGone, LiveInv, ThreadsFit, Early
    <2>2. /\ e \notin timers /\ resolver[e]["timer"] = "none"
          /\ resolver[e]["auto"] = "none"
      BY <1>t, <2>1 DEF LiveInv, ThreadsFit
    <2>3. /\ timers' = timers /\ resolver'[e]["timer"] = "none"
          /\ resolver'[e]["auto"] = "none"
      BY <1>t, <1>3, <2>2 DEF AwaitFix, OrphanGone
    <2>4. \A f \in Episodes : f # e =>
             wrapper'[f] = wrapper[f] /\ resolver'[f] = resolver[f]
      BY <1>t, <1>3 DEF AwaitFix, OrphanGone
    <2>5. QED
      BY <2>2, <2>3, <2>4 DEF StartedOnce
  <1>4. ASSUME NEW e \in Episodes, ArmTimer(e)
        PROVE  StartedOnce'
    BY <1>t, <1>4 DEF StartedOnce, ArmTimer
  <1>5. ASSUME NEW e \in Episodes, StartAuto(e)
        PROVE  StartedOnce'
    BY <1>t, <1>5 DEF StartedOnce, StartAuto
  <1>6. ASSUME NEW e \in Episodes, TimerFires(e)
        PROVE  StartedOnce'
    BY <1>t, <1>6 DEF StartedOnce, TimerFires
  <1>7. ASSUME NEW e \in Episodes, NEW t \in Callers,
               ResolverNext(e, t) \/ ResolverRaises(e, t)
        PROVE  StartedOnce'
    <2>1. PICK step \in ResolverStep :
             resolver' = [resolver EXCEPT ![e][t] = step]
      BY <1>7 DEF ResolverNext, CompareAndSet, StartScorer, ScorerDone,
         UnpauseResolver, Republish, ResolverRaises, AfterTerminal, Resolver,
         ResolverStep
    <2>2. resolver[e][t] # "none" /\ timers' \subseteq timers
      BY <1>7 DEF ResolverNext, CompareAndSet, StartScorer, ScorerDone,
         UnpauseResolver, Republish, ResolverRaises
    <2>3. \A f \in Episodes : wrapper'[f] \in {wrapper[f], "none", "guard"}
      BY <1>t, <1>7 DEF ResolverNext, CompareAndSet, StartScorer, ScorerDone,
         UnpauseResolver, Republish, ResolverRaises, Resolver
    <2>4. \A f \in Episodes : \A u \in Callers :
             resolver[f][u] = "none" => resolver'[f][u] = "none"
      BY <1>t, <2>1, <2>2, ThreadWritten
    <2>5. QED
      BY <1>t, <2>2, <2>3, <2>4 DEF StartedOnce
  <1>8. ASSUME NEW e \in Episodes,
               \/ InjectorRecords(e) \/ ScorerScores(e)
               \/ \E confirmed \in BOOLEAN : Tick(e, confirmed)
               \/ \E code \in {"ok", "failed"} :
                     InjectorExits(e, code) \/ ScorerExits(e, code)
               \/ \E t \in Callers : ScorerTimesOut(e, t)
        PROVE  StartedOnce'
    BY <1>k, <1>8 DEF InjectorRecords, ScorerScores, Tick, InjectorExits,
                      ScorerExits, ScorerTimesOut
  <1>9. CASE Restart
    <2>1. CASE ReadRows
      BY <1>k, <2>1 DEF ReadRows
    <2>2. ASSUME NEW overdue \in BOOLEAN, ReconcileOnStartup(overdue)
          PROVE  StartedOnce'
      <3>1. \A e \in Episodes : wrapper'[e] \in {"none", "watch"}
        BY <2>2 DEF ReconcileOnStartup
      <3>2. \A e \in Episodes : resolver'[e]["timer"] = "none"
        BY <1>t, <2>2 DEF ReconcileOnStartup, NoThreads
      <3>3. QED
        BY <3>1, <3>2 DEF StartedOnce
    <2>3. QED
      BY <1>9, <2>1, <2>2 DEF Restart
  <1>10. ASSUME NEW survivors \in SUBSET {"injector", "scorer"},
                Crash(survivors)
         PROVE  StartedOnce'
    BY <1>10 DEF StartedOnce, Crash
  <1>11. CASE Done \/ UNCHANGED vars
    BY <1>k, <1>11 DEF Done, vars
  <1>12. QED
    BY <1>1, <1>2, <1>3, <1>4, <1>5, <1>6, <1>7, <1>8, <1>9, <1>10, <1>11
       DEF Next, WrapperNext

-----------------------------------------------------------------------------
(* The checkout pause.                                                     *)

\* A thread of e is about to un-pause, or its guard is.
Releasing(e) ==
    \/ wrapper[e] \in {"unpause", "guard", "release"}
    \/ \E t \in Callers : resolver[e][t] = "unpause"

\* A memory-leak episode that accounts for the flag.
Holds(e) == row[e].class = MemoryLeak /\ (InFlight(e) \/ Releasing(e))

\* A memory-leak episode for which checkout must be paused by now.
Due(e) ==
    /\ InFlight(e) /\ row[e].class = MemoryLeak
    /\ wrapper[e] = "spawn" \/ injector[e] # "none"

\* Until its request has set the flag, an episode has no injector.
NotStarted ==
    \A e \in Episodes : row[e].state = "absent" \/ wrapper[e] = "pause" =>
        injector[e] = "none"

PauseInv == CheckoutPause /\ NotStarted

\* A row that goes from in flight to its end leaves a thread that releases
\* the pause, and a thread that has to release it does so or hands on.
LEMMA HoldsKept ==
    ASSUME LiveInv, StartedOnce, [Next]_vars, NEW e \in Episodes, Holds(e),
           leakPaused', unguardedFaults' = 0
    PROVE  Holds(e)'
  <1>t. /\ row \in [Episodes -> Row]
        /\ wrapper \in [Episodes -> WrapperStep]
        /\ resolver \in [Episodes -> [Callers -> ResolverStep]]
        /\ guardedFaults \in Nat /\ unguardedFaults \in Nat
        /\ {"timer", "auto", "inline"} \subseteq Callers
    BY FaultsCounted DEF LiveInv, TypeOK, Callers
  <1>p. row[e].state # "absent"
    BY <1>t DEF Holds, Releasing, InFlight, NonTerminal, LiveInv, ThreadsFit,
                Terminal, Early
  \* What a step has to show: the class stays, and what the row or a thread
  \* gives up, another one takes on.
  <1>g. ASSUME row'[e].class = row[e].class,
               InFlight(e) => InFlight(e)' \/ Releasing(e)',
               Releasing(e) => Releasing(e)'
        PROVE  Holds(e)'
    BY <1>g DEF Holds
  <1>k. ASSUME row'[e].class = row[e].class, row'[e].state = row[e].state,
               wrapper'[e] = wrapper[e] \/ ~Releasing(e),
               \A u \in Callers : resolver[e][u] = "unpause" =>
                  resolver'[e][u] = "unpause"
        PROVE  Holds(e)'
    BY <1>k DEF Holds, Releasing, InFlight
  <1>1. ASSUME NEW f \in Episodes, Requests(f)
        PROVE  Holds(e)'
    <2>1. ASSUME NEW c \in FaultClasses, TriggerInject(f, c)
          PROVE  Holds(e)'
      <3>1. e # f
        BY <1>p, <2>1 DEF TriggerInject
      <3>2. QED
        BY <1>k, <1>t, <2>1, <3>1 DEF TriggerInject
    <2>2. CASE TriggerStopHold(f)
      BY <1>k, <1>t, <2>2 DEF TriggerStopHold, threads, Row
    <2>3. CASE Logout(f)
      BY <1>k, <1>t, <2>3 DEF Logout, threads, Row
    <2>4. ASSUME NEW k \in Clicks, TriggerResolve(f, k)
          PROVE  Holds(e)'
      <3>1. k \in Callers /\ "cas" \in ResolverStep
        BY DEF Callers, ResolverStep
      <3>2. QED
        BY <1>k, <1>t, <2>4, <3>1, ThreadWritten DEF TriggerResolve, db
    <2>5. QED
      BY <1>1, <2>1, <2>2, <2>3, <2>4 DEF Requests
  <1>2. ASSUME NEW f \in Episodes,
               \/ PauseCheckout(f) \/ SpawnInjector(f) \/ InjectorExitSeen(f)
               \/ InjectorTimesOut(f) \/ ArmTimer(f) \/ RecordPid(f)
               \/ AwaitFix(f) \/ ClassifyExit(f) \/ OrphanGone(f)
               \/ StartAuto(f) \/ TimerFires(f)
        PROVE  Holds(e)'
    <2>1. /\ wrapper[f] \notin {"unpause", "guard", "release"} \/ TimerFires(f)
          /\ \A g \in Episodes : g # f => wrapper'[g] = wrapper[g]
      BY <1>t, <1>2 DEF PauseCheckout, SpawnInjector, InjectorExitSeen,
         InjectorTimesOut, ArmTimer, RecordPid, AwaitFix, ClassifyExit,
         OrphanGone, StartAuto, TimerFires
    <2>2. \A u \in Callers : resolver[e][u] = "unpause" =>
             resolver'[e][u] = "unpause"
      <3>1. CASE resolver' = resolver
        BY <3>1
      <3>2. ASSUME NEW u \in {"auto", "timer", "inline"},
                   resolver[f][u] = "none",
                   resolver' = [resolver EXCEPT ![f][u] = "cas"]
            PROVE  <2>2
        BY <1>t, <3>2
      <3>3. CASE AwaitFix(f)
        <4>1. resolver[f]["inline"] = "none"
          BY <1>t, <3>3 DEF AwaitFix, LiveInv, ThreadsFit
        <4>2. QED
          BY <3>1, <3>2, <3>3, <4>1 DEF AwaitFix
      <3>4. CASE StartAuto(f) \/ TimerFires(f)
        BY <3>2, <3>4 DEF StartAuto, TimerFires, StartedOnce
      <3>5. QED
        BY <1>2, <3>1, <3>3, <3>4 DEF PauseCheckout, SpawnInjector,
           InjectorExitSeen, InjectorTimesOut, ArmTimer, RecordPid,
           ClassifyExit, OrphanGone
    <2>3. Releasing(e) => Releasing(e)'
      BY <2>1, <2>2, <1>2 DEF Releasing, TimerFires
    <2>4. /\ row'[e].class = row[e].class
          /\ InFlight(e) => InFlight(e)' \/ Releasing(e)'
      <3>1. CASE row' = row
        BY <3>1 DEF InFlight
      <3>2. CASE RecordPid(f)
        <4>1. row[f].state = "injecting"
          BY <3>2 DEF RecordPid, LiveInv, ThreadsFit
        <4>2. /\ row'[e].class = row[e].class
              /\ row'[e].state \in {row[e].state, "injecting", "holding"}
          BY <1>t, <3>2, <4>1 DEF RecordPid, Row
        <4>3. QED
          BY <4>2 DEF InFlight, NonTerminal
      <3>3. ASSUME SetEpisodeState(f, "awaiting_fix") PROVE <2>4
        <4>1. /\ row'[e].class = row[e].class
              /\ row'[e].state \in {row[e].state, "awaiting_fix"}
          BY <1>t, <3>3, SetStateMoves DEF NonTerminal
        <4>2. QED
          BY <4>1 DEF InFlight, NonTerminal
      <3>4. ASSUME SetEpisodeState(f, "failed"),
                   wrapper' = [wrapper EXCEPT ![f] = AfterTerminal(f, "none")]
            PROVE  <2>4
        <4>1. row'[e].class = row[e].class
          BY <3>4, SetStateMoves DEF Terminal
        <4>2. CASE e = f
          <5>1. AfterTerminal(e, "none") = "unpause"
            BY DEF AfterTerminal, Holds
          <5>2. wrapper'[e] = "unpause"
            BY <1>t, <3>4, <4>2, <5>1
          <5>3. QED
            BY <4>1, <5>2 DEF Releasing
        <4>3. CASE e # f
          <5>1. row'[e] = row[e]
            BY <3>4, <4>3, SetStateMoves DEF Terminal
          <5>2. QED
            BY <5>1 DEF InFlight
        <4>4. QED
          BY <4>2, <4>3
      <3>5. QED
        BY <1>2, <3>1, <3>2, <3>3, <3>4 DEF PauseCheckout, SpawnInjector,
           InjectorExitSeen, InjectorTimesOut, ArmTimer, AwaitFix,
           ClassifyExit, OrphanGone, StartAuto, TimerFires, db
    <2>5. QED
      BY <1>g, <2>3, <2>4
  <1>3. ASSUME NEW f \in Episodes, Guard(f) \/ WrapperRaises(f)
        PROVE  Holds(e)'
    <2>1. resolver' = resolver
      BY <1>3 DEF Guard, WrapperRaises
    <2>2. CASE e = f
      <3>1. wrapper'[e] \in {"guard", "release"}
        BY <1>3, <1>t, <2>2 DEF Guard, WrapperRaises, Holds
      <3>2. row'[e].class = row[e].class
        <4>1. CASE WrapperRaises(f)
          BY <4>1 DEF WrapperRaises, db
        <4>2. CASE Guard(f)
          BY <4>2, SetStateMoves DEF Guard, Terminal
        <4>3. QED
          BY <1>3, <4>1, <4>2
      <3>3. QED
        BY <1>g, <3>1, <3>2 DEF Releasing
    <2>3. CASE e # f
      <3>1. wrapper'[e] = wrapper[e]
        BY <1>3, <1>t, <2>3 DEF Guard, WrapperRaises
      <3>2. row'[e] = row[e]
        <4>1. CASE WrapperRaises(f)
          BY <4>1 DEF WrapperRaises, db
        <4>2. CASE Guard(f)
          BY <2>3, <4>2, SetStateMoves DEF Guard, Terminal
        <4>3. QED
          BY <1>3, <4>1, <4>2
      <3>3. QED
        BY <1>k, <2>1, <3>1, <3>2
    <2>4. QED
      BY <2>2, <2>3
  <1>4. ASSUME NEW f \in Episodes,
               \/ UnpauseWrapper(f)
               \/ \E t \in Callers : UnpauseResolver(f, t)
        PROVE  FALSE
    BY <1>4 DEF UnpauseWrapper, UnpauseResolver, Unpause
  <1>5. ASSUME NEW f \in Episodes,
               \/ GuardRaises(f) \/ TriggerInjectRaises(f)
               \/ \E t \in Callers : t # "inline" /\ ResolverRaises(f, t)
        PROVE  FALSE
    <2>1. unguardedFaults' = unguardedFaults + 1
      BY <1>5 DEF GuardRaises, TriggerInjectRaises, ResolverRaises
    <2>2. QED
      BY <2>1, <1>t
  <1>6. ASSUME NEW f \in Episodes, ResolverRaises(f, "inline")
        PROVE  Holds(e)'
    <2>1. row' = row
      BY <1>6 DEF ResolverRaises, db
    <2>2. CASE e = f
      <3>1. wrapper'[e] = "guard"
        BY <1>6, <1>t, <2>2 DEF ResolverRaises
      <3>2. QED
        BY <1>g, <2>1, <3>1 DEF Releasing
    <2>3. CASE e # f
      <3>1. wrapper'[e] = wrapper[e] /\ resolver'[e] = resolver[e]
        BY <1>6, <1>t, <2>3 DEF ResolverRaises
      <3>2. QED
        BY <1>k, <2>1, <3>1
    <2>4. QED
      BY <2>2, <2>3
  <1>7. ASSUME NEW f \in Episodes, NEW t \in Callers,
               \/ CompareAndSet(f, t) \/ StartScorer(f, t)
               \/ ScorerDone(f, t) \/ Republish(f, t)
        PROVE  Holds(e)'
    <2>1. PICK step \in ResolverStep : Resolver(f, t, step)
      BY <1>7 DEF CompareAndSet, StartScorer, ScorerDone, Republish,
                  AfterTerminal, ResolverStep
    <2>2. resolver[f][t] \notin {"none", "unpause"}
      BY <1>7 DEF CompareAndSet, StartScorer, ScorerDone, Republish
    <2>3. Releasing(e) => Releasing(e)'
      <3>1. \A u \in Callers : resolver[e][u] = "unpause" =>
               resolver'[e][u] = "unpause"
        BY <1>t, <2>1, <2>2, ThreadWritten DEF Resolver
      <3>2. wrapper[e] \in {"unpause", "guard", "release"} =>
               wrapper'[e] = wrapper[e]
        <4>1. (resolver[f]["inline"] # "none") = (wrapper[f] = "inline")
          BY DEF LiveInv, ThreadsFit
        <4>2. t = "inline" => wrapper[f] = "inline"
          BY <2>2, <4>1
        <4>3. QED
          BY <1>t, <2>1, <4>2 DEF Resolver
      <3>3. QED
        BY <3>1, <3>2 DEF Releasing
    <2>4. /\ row'[e].class = row[e].class
          /\ InFlight(e) => InFlight(e)' \/ Releasing(e)'
      <3>1. CASE row' = row
        BY <3>1 DEF InFlight
      <3>2. ASSUME SetEpisodeState(f, "resolving") PROVE <2>4
        <4>1. /\ row'[e].class = row[e].class
              /\ row'[e].state \in {row[e].state, "resolving"}
          BY <3>2, SetStateMoves DEF NonTerminal
        <4>2. QED
          BY <4>1 DEF InFlight, NonTerminal
      <3>3. CASE ScorerDone(f, t)
        <4>1. PICK state \in Terminal, next \in {"none", "publish"} :
                 /\ SetEpisodeState(f, state)
                 /\ Resolver(f, t, AfterTerminal(f, next))
          BY <3>3 DEF ScorerDone, Terminal
        <4>2. row'[e].class = row[e].class
          BY <4>1, SetStateMoves
        <4>3. CASE e = f
          <5>1. AfterTerminal(e, next) = "unpause"
            BY DEF AfterTerminal, Holds
          <5>2. resolver'[e][t] = "unpause"
            BY <1>t, <4>1, <4>3, <5>1 DEF Resolver
          <5>3. QED
            BY <4>2, <5>2 DEF Releasing
        <4>4. CASE e # f
          <5>1. row'[e] = row[e]
            BY <4>1, <4>4, SetStateMoves
          <5>2. QED
            BY <5>1 DEF InFlight
        <4>5. QED
          BY <4>3, <4>4
      <3>4. QED
        BY <1>7, <3>1, <3>2, <3>3 DEF CompareAndSet, StartScorer, Republish,
           SetEpisodeState, db
    <2>5. QED
      BY <1>g, <2>3, <2>4
  <1>8. ASSUME NEW f \in Episodes,
               \/ InjectorRecords(f) \/ ScorerScores(f)
               \/ \E confirmed \in BOOLEAN : Tick(f, confirmed)
               \/ \E code \in {"ok", "failed"} :
                     InjectorExits(f, code) \/ ScorerExits(f, code)
               \/ \E t \in Callers : ScorerTimesOut(f, t)
        PROVE  Holds(e)'
    <2>1. UNCHANGED <<wrapper, resolver>>
      BY <1>8 DEF InjectorRecords, ScorerScores, Tick, InjectorExits,
                  ScorerExits, ScorerTimesOut, threads
    <2>2. row'[e].class = row[e].class /\ row'[e].state = row[e].state
      <3>1. CASE InjectorRecords(f)
        BY <1>t, <3>1 DEF InjectorRecords, Row
      <3>2. ASSUME NEW confirmed \in BOOLEAN, Tick(f, confirmed)
            PROVE  <2>2
        BY <1>t, <3>2 DEF Tick, Row
      <3>3. CASE row' = row
        BY <3>3
      <3>4. QED
        BY <1>8, <3>1, <3>2, <3>3 DEF ScorerScores, InjectorExits,
           ScorerExits, ScorerTimesOut, db
    <2>3. QED
      BY <1>k, <2>1, <2>2
  <1>9. CASE ReadRows \/ Done \/ UNCHANGED vars
    BY <1>k, <1>9 DEF ReadRows, Done, vars, db, threads
  <1>10. ASSUME \/ \E overdue \in BOOLEAN : ReconcileOnStartup(overdue)
                \/ \E survivors \in SUBSET {"injector", "scorer"} :
                      Crash(survivors)
         PROVE  FALSE
    BY <1>10 DEF ReconcileOnStartup, Crash, LiveInv, DownIsQuiet
  <1>11. QED
    BY <1>1, <1>2, <1>3, <1>4, <1>5, <1>6, <1>7, <1>8, <1>9, <1>10
       DEF Next, WrapperNext, ResolverNext, Restart

\* Where a wrapper comes from, and an injector.
LEMMA FirstSteps ==
    ASSUME LiveInv, [Next]_vars, NEW e \in Episodes
    PROVE  /\ wrapper'[e] = "pause" =>
                 \/ wrapper[e] = "pause"
                 \/ \E c \in FaultClasses : TriggerInject(e, c)
           /\ wrapper'[e] = "spawn" => wrapper[e] = "spawn" \/ PauseCheckout(e)
           /\ injector'[e] # "none" => injector[e] # "none" \/ SpawnInjector(e)
  <1>t. /\ wrapper \in [Episodes -> WrapperStep]
        /\ injector \in [Episodes -> InjectorStatus]
    BY DEF LiveInv, TypeOK
  <1> DEFINE Paused == wrapper'[e] = "pause" =>
                          \/ wrapper[e] = "pause"
                          \/ \E c \in FaultClasses : TriggerInject(e, c)
             Spawns == wrapper'[e] = "spawn" =>
                          wrapper[e] = "spawn" \/ PauseCheckout(e)
             Runs == injector'[e] # "none" =>
                          injector[e] # "none" \/ SpawnInjector(e)
             Goal == Paused /\ Spawns /\ Runs
  <1>k. ASSUME injector'[e] = injector[e],
               wrapper'[e] = wrapper[e] \/ wrapper'[e] \notin {"pause", "spawn"}
        PROVE  Goal
    BY <1>k
  <1>1. ASSUME NEW f \in Episodes, NEW c \in FaultClasses, TriggerInject(f, c)
        PROVE  Goal
    <2>1. injector' = injector /\ wrapper' = [wrapper EXCEPT ![f] = "pause"]
      BY <1>1 DEF TriggerInject, processes
    <2>2. CASE e = f
      BY <1>1, <1>t, <2>1, <2>2
    <2>3. CASE e # f
      BY <1>k, <1>t, <2>1, <2>3
    <2>4. QED
      BY <2>2, <2>3
  <1>2. ASSUME NEW f \in Episodes, PauseCheckout(f)
        PROVE  Goal
    <2>1. injector' = injector /\ wrapper' = [wrapper EXCEPT ![f] = "spawn"]
      BY <1>2 DEF PauseCheckout, processes
    <2>2. CASE e = f
      BY <1>2, <1>t, <2>1, <2>2
    <2>3. CASE e # f
      BY <1>k, <1>t, <2>1, <2>3
    <2>4. QED
      BY <2>2, <2>3
  <1>3. ASSUME NEW f \in Episodes, SpawnInjector(f)
        PROVE  Goal
    <2>1. /\ injector' = [injector EXCEPT ![f] = "running"]
          /\ wrapper' = [wrapper EXCEPT ![f] = "pid"]
      BY <1>3 DEF SpawnInjector
    <2>2. CASE e = f
      BY <1>3, <1>t, <2>1, <2>2
    <2>3. CASE e # f
      BY <1>k, <1>t, <2>1, <2>3
    <2>4. QED
      BY <2>2, <2>3
  <1>4. ASSUME NEW f \in Episodes,
               \/ InjectorTimesOut(f) \/ InjectorRecords(f)
               \/ \E code \in {"ok", "failed"} : InjectorExits(f, code)
        PROVE  Goal
    <2>1. injector'[e] = injector[e] \/ injector[e] # "none"
      BY <1>t, <1>4 DEF InjectorTimesOut, InjectorRecords, InjectorExits,
                        Alive
    <2>2. wrapper'[e] = wrapper[e] \/ wrapper'[e] \notin {"pause", "spawn"}
      BY <1>t, <1>4 DEF InjectorTimesOut, InjectorRecords, InjectorExits,
                        threads
    <2>3. QED
      BY <2>1, <2>2
  <1>5. ASSUME NEW f \in Episodes,
               \/ TriggerStopHold(f) \/ Logout(f)
               \/ \E k \in Clicks : TriggerResolve(f, k)
               \/ RecordPid(f) \/ InjectorExitSeen(f) \/ ClassifyExit(f)
               \/ AwaitFix(f) \/ ArmTimer(f) \/ OrphanGone(f)
               \/ StartAuto(f) \/ Guard(f) \/ UnpauseWrapper(f)
               \/ WrapperRaises(f) \/ GuardRaises(f)
               \/ TriggerInjectRaises(f)
        PROVE  Goal
    <2>1. injector' = injector
      BY <1>5 DEF TriggerStopHold, TriggerResolve, Logout, RecordPid,
         InjectorExitSeen, ClassifyExit, AwaitFix, ArmTimer, OrphanGone,
         StartAuto, Guard, UnpauseWrapper, WrapperRaises, GuardRaises,
         TriggerInjectRaises, processes
    <2>2. \E step \in WrapperStep \ {"pause", "spawn"} :
             wrapper' \in {wrapper, [wrapper EXCEPT ![f] = step]}
      BY <1>5 DEF TriggerStopHold, TriggerResolve, Logout, RecordPid,
         InjectorExitSeen, ClassifyExit, AwaitFix, ArmTimer, OrphanGone,
         StartAuto, Guard, UnpauseWrapper, WrapperRaises, GuardRaises,
         TriggerInjectRaises, threads, AfterTerminal, WrapperStep
    <2>3. QED
      BY <1>k, <1>t, <2>1, <2>2
  <1>6. ASSUME NEW f \in Episodes, NEW t \in Callers,
               \/ ResolverNext(f, t) \/ ScorerTimesOut(f, t)
               \/ ResolverRaises(f, t)
        PROVE  Goal
    <2>1. injector' = injector
      BY <1>6 DEF ResolverNext, CompareAndSet, StartScorer, ScorerDone,
         UnpauseResolver, Republish, ScorerTimesOut, ResolverRaises,
         processes
    <2>2. \E step \in WrapperStep \ {"pause", "spawn"} :
             wrapper' \in {wrapper, [wrapper EXCEPT ![f] = step]}
      BY <1>6 DEF ResolverNext, CompareAndSet, StartScorer, ScorerDone,
         UnpauseResolver, Republish, ScorerTimesOut, ResolverRaises,
         Resolver, threads, WrapperStep
    <2>3. QED
      BY <1>k, <1>t, <2>1, <2>2
  <1>7. ASSUME NEW f \in Episodes,
               \/ TimerFires(f) \/ ScorerScores(f)
               \/ \E confirmed \in BOOLEAN : Tick(f, confirmed)
               \/ \E code \in {"ok", "failed"} : ScorerExits(f, code)
        PROVE  Goal
    BY <1>k, <1>7 DEF TimerFires, ScorerScores, Tick, ScorerExits, processes,
                      threads
  <1>8. ASSUME Restart PROVE Goal
    <2>1. /\ injector' = injector
          /\ wrapper' = wrapper \/ wrapper'[e] \notin {"pause", "spawn"}
      BY <1>8 DEF Restart, ReadRows, ReconcileOnStartup, processes, threads
    <2>2. QED
      BY <1>k, <2>1
  <1>9. ASSUME NEW survivors \in SUBSET {"injector", "scorer"},
               Crash(survivors)
        PROVE  Goal
    <2>1. /\ injector'[e] = injector[e] \/ injector[e] # "none"
          /\ wrapper'[e] \notin {"pause", "spawn"}
      BY <1>9 DEF Crash, Alive
    <2>2. QED
      BY <2>1
  <1>10. ASSUME Done \/ UNCHANGED vars PROVE Goal
    <2>1. UNCHANGED vars
      BY <1>10 DEF Done
    <2>2. injector' = injector /\ wrapper' = wrapper
      BY <2>1 DEF vars, processes, threads
    <2>3. QED
      BY <1>k, <2>2
  <1> HIDE DEF Goal
  <1>a. ASSUME NEW f \in Episodes, Requests(f)
        PROVE  Goal
    BY <1>a, <1>1, <1>5 DEF Requests
  <1>b. ASSUME NEW f \in Episodes,
               \/ WrapperNext(f) \/ InjectorTimesOut(f) \/ WrapperRaises(f)
               \/ GuardRaises(f) \/ TriggerInjectRaises(f)
        PROVE  Goal
    BY <1>b, <1>2, <1>3, <1>4, <1>5 DEF WrapperNext
  <1>d. ASSUME NEW f \in Episodes,
               \/ \E confirmed \in BOOLEAN : Tick(f, confirmed)
               \/ InjectorRecords(f) \/ TimerFires(f) \/ ScorerScores(f)
               \/ \E code \in {"ok", "failed"} :
                     InjectorExits(f, code) \/ ScorerExits(f, code)
               \/ \E t \in Callers : \/ ResolverNext(f, t)
                                     \/ ScorerTimesOut(f, t)
                                     \/ ResolverRaises(f, t)
        PROVE  Goal
    BY <1>d, <1>4, <1>6, <1>7
  <1>11. Goal
    BY <1>a, <1>b, <1>d, <1>8, <1>9, <1>10 DEF Next
  <1>12. QED
    BY <1>11 DEF Goal

\* A row in flight was in flight before, unless it was triggered just now.
LEMMA InFlightBefore ==
    ASSUME LiveInv, [Next]_vars, NEW e \in Episodes
    PROVE  /\ InFlight(e)' =>
                 \/ \E c \in FaultClasses : TriggerInject(e, c)
                 \/ InFlight(e) /\ row[e].class = row'[e].class
           /\ row'[e].state = "absent" => row[e].state = "absent"
  <1>t. row \in [Episodes -> Row]
    BY DEF LiveInv, TypeOK
  <1>1. RowsMove
    BY RowStep
  <1>2. ASSUME NEW f \in Episodes, NEW c \in FaultClasses,
               TriggerInject(f, c), f # e
        PROVE  row'[e] = row[e]
    BY <1>t, <1>2 DEF TriggerInject
  <1>3. ASSUME NEW c \in FaultClasses, TriggerInject(e, c)
        PROVE  row[e].state = "absent"
    BY <1>3 DEF TriggerInject
  <1>4. CASE (\E f \in Episodes : Wrote(f)) \/ Kept
    BY <1>4 DEF Wrote, Kept, InFlight, NonTerminal, Terminal
  <1>5. QED
    BY <1>1, <1>2, <1>3, <1>4 DEF RowsMove, InFlight

\* An episode whose pause is due had it due before, or has just been paused.
LEMMA DueBefore ==
    ASSUME LiveInv, [Next]_vars, NotStarted, NEW e \in Episodes, Due(e)'
    PROVE  Due(e) \/ leakPaused'
  <1>t. /\ row \in [Episodes -> Row]
        /\ wrapper \in [Episodes -> WrapperStep]
        /\ injector \in [Episodes -> InjectorStatus]
    BY DEF LiveInv, TypeOK
  <1>1. CASE \E c \in FaultClasses : TriggerInject(e, c)
    <2>1. injector'[e] = "none" /\ wrapper'[e] = "pause"
      BY <1>t, <1>1 DEF TriggerInject, processes, NotStarted
    <2>2. QED
      BY <2>1 DEF Due
  <1>2. CASE InFlight(e) /\ row[e].class = row'[e].class
    <2>1. row[e].class = MemoryLeak
      BY <1>2 DEF Due
    <2>2. CASE PauseCheckout(e)
      BY <2>1, <2>2 DEF PauseCheckout
    <2>3. CASE SpawnInjector(e)
      BY <1>2, <2>1, <2>3 DEF SpawnInjector, Due
    <2>4. QED
      BY <1>2, <2>1, <2>2, <2>3, FirstSteps DEF Due
  <1>3. QED
    BY <1>1, <1>2, InFlightBefore DEF Due

\* Who takes the flag: the un-pause of an episode that is over, or a crash;
\* and either leaves the episodes it was still meant for in lostPause.
LEMMA FlagMoves ==
    ASSUME LiveInv, [Next]_vars
    PROVE  \/ (leakPaused => leakPaused') /\ lostPause' = lostPause
           \/ \E f \in Episodes : Unpause(f) /\ ~InFlight(f)
           \/ lostPause' = lostPause \cup Leaking
  <1> DEFINE Same == (leakPaused => leakPaused') /\ lostPause' = lostPause
             Freed == \E f \in Episodes : Unpause(f) /\ ~InFlight(f)
  <1>1. ASSUME NEW f \in Episodes, UnpauseWrapper(f)
        PROVE  Freed
    BY <1>1 DEF UnpauseWrapper, LiveInv, ThreadsFit, InFlight, NonTerminal,
                Terminal
  <1>2. ASSUME NEW f \in Episodes, NEW t \in Callers, UnpauseResolver(f, t)
        PROVE  Freed
    BY <1>2 DEF UnpauseResolver, LiveInv, ThreadsFit, InFlight, NonTerminal,
                Terminal
  <1>3. ASSUME NEW f \in Episodes,
               \/ Requests(f)
               \/ PauseCheckout(f) \/ SpawnInjector(f) \/ RecordPid(f)
               \/ InjectorExitSeen(f) \/ ClassifyExit(f) \/ AwaitFix(f)
               \/ ArmTimer(f) \/ OrphanGone(f) \/ StartAuto(f) \/ Guard(f)
               \/ InjectorTimesOut(f) \/ WrapperRaises(f) \/ GuardRaises(f)
               \/ TriggerInjectRaises(f)
        PROVE  Same
    <2>1. lostPause' = lostPause
      BY <1>3 DEF Requests, TriggerInject, TriggerStopHold, TriggerResolve,
         Logout, PauseCheckout, SpawnInjector, RecordPid, InjectorExitSeen,
         ClassifyExit, AwaitFix, ArmTimer, OrphanGone, StartAuto, Guard,
         InjectorTimesOut, WrapperRaises, GuardRaises, TriggerInjectRaises,
         ghosts
    <2>2. leakPaused => leakPaused'
      BY <1>3 DEF Requests, TriggerInject, TriggerStopHold, TriggerResolve,
         Logout, PauseCheckout, SpawnInjector, RecordPid, InjectorExitSeen,
         ClassifyExit, AwaitFix, ArmTimer, OrphanGone, StartAuto, Guard,
         InjectorTimesOut, WrapperRaises, GuardRaises, TriggerInjectRaises
    <2>3. QED
      BY <2>1, <2>2
  <1>4. ASSUME NEW f \in Episodes,
               \/ TimerFires(f) \/ ScorerScores(f) \/ InjectorRecords(f)
               \/ \E confirmed \in BOOLEAN : Tick(f, confirmed)
               \/ \E code \in {"ok", "failed"} :
                     InjectorExits(f, code) \/ ScorerExits(f, code)
               \/ \E t \in Callers :
                     \/ CompareAndSet(f, t) \/ StartScorer(f, t)
                     \/ ScorerDone(f, t) \/ Republish(f, t)
                     \/ ScorerTimesOut(f, t) \/ ResolverRaises(f, t)
        PROVE  Same
    <2>1. UNCHANGED <<leakPaused, lostPause>>
      BY <1>4 DEF TimerFires, ScorerScores, InjectorRecords, Tick,
         InjectorExits, ScorerExits, CompareAndSet, StartScorer, ScorerDone,
         Republish, ScorerTimesOut, ResolverRaises, ghosts
    <2>2. QED
      BY <2>1
  <1>5. CASE Restart \/ Done \/ UNCHANGED vars
    BY <1>5 DEF Restart, ReadRows, ReconcileOnStartup, Done, vars, ghosts
  <1>6. ASSUME NEW survivors \in SUBSET {"injector", "scorer"},
               Crash(survivors)
        PROVE  lostPause' = lostPause \cup Leaking
    BY <1>6 DEF Crash
  <1>7. QED
    BY <1>1, <1>2, <1>3, <1>4, <1>5, <1>6
       DEF Next, WrapperNext, ResolverNext

\* Who sets the flag.
LEMMA FlagRaised ==
    ASSUME LiveInv, [Next]_vars, leakPaused', ~leakPaused
    PROVE  \E e \in Episodes : PauseCheckout(e) \/ TriggerInjectRaises(e)
  <1>1. ASSUME NEW f \in Episodes,
               \/ Requests(f)
               \/ SpawnInjector(f) \/ RecordPid(f)
               \/ InjectorExitSeen(f) \/ ClassifyExit(f) \/ AwaitFix(f)
               \/ ArmTimer(f) \/ OrphanGone(f) \/ StartAuto(f) \/ Guard(f)
               \/ UnpauseWrapper(f) \/ InjectorTimesOut(f)
               \/ WrapperRaises(f) \/ GuardRaises(f)
        PROVE  FALSE
    BY <1>1 DEF Requests, TriggerInject, TriggerStopHold, TriggerResolve,
       Logout, SpawnInjector, RecordPid, InjectorExitSeen, ClassifyExit,
       AwaitFix, ArmTimer, OrphanGone, StartAuto, Guard, UnpauseWrapper,
       Unpause, InjectorTimesOut, WrapperRaises, GuardRaises
  <1>2. ASSUME NEW f \in Episodes,
               \/ TimerFires(f) \/ ScorerScores(f) \/ InjectorRecords(f)
               \/ \E confirmed \in BOOLEAN : Tick(f, confirmed)
               \/ \E code \in {"ok", "failed"} :
                     InjectorExits(f, code) \/ ScorerExits(f, code)
               \/ \E t \in Callers :
                     \/ ResolverNext(f, t)
                     \/ ScorerTimesOut(f, t) \/ ResolverRaises(f, t)
        PROVE  FALSE
    BY <1>2 DEF TimerFires, ScorerScores, InjectorRecords, Tick,
       InjectorExits, ScorerExits, ResolverNext, CompareAndSet, StartScorer,
       ScorerDone, UnpauseResolver, Unpause, Republish, ScorerTimesOut,
       ResolverRaises
  <1>3. ASSUME \/ Restart \/ Done \/ UNCHANGED vars
               \/ \E survivors \in SUBSET {"injector", "scorer"} :
                     Crash(survivors)
        PROVE  FALSE
    BY <1>3 DEF Restart, ReadRows, ReconcileOnStartup, Done, vars, Crash
  <1>4. QED
    BY <1>1, <1>2, <1>3 DEF Next, WrapperNext

LEMMA StartStep ==
    ASSUME LiveInv, NotStarted, [Next]_vars
    PROVE  NotStarted'
  <1>1. SUFFICES ASSUME NEW e \in Episodes,
                        row'[e].state = "absent" \/ wrapper'[e] = "pause",
                        injector'[e] # "none"
                 PROVE  FALSE
    BY DEF NotStarted
  <1>t. /\ row \in [Episodes -> Row]
        /\ wrapper \in [Episodes -> WrapperStep]
    BY DEF LiveInv, TypeOK
  <1>2. row[e].state = "absent" \/ wrapper[e] = "pause"
    BY <1>1, FirstSteps, InFlightBefore DEF TriggerInject
  <1>3. injector[e] = "none"
    BY <1>2 DEF NotStarted
  <1>4. SpawnInjector(e)
    BY <1>1, <1>3, FirstSteps
  <1>5. /\ row[e].state = "injecting" /\ row' = row
        /\ wrapper'[e] = "pid"
    BY <1>t, <1>4 DEF SpawnInjector, LiveInv, ThreadsFit, db
  <1>6. QED
    BY <1>1, <1>5

LEMMA PauseStep ==
    ASSUME LiveInv, StartedOnce, PauseInv, [Next]_vars
    PROVE  PauseInv'
  <1>f. /\ unguardedFaults \in Nat /\ unguardedFaults' \in Nat
        /\ unguardedFaults' >= unguardedFaults
    BY FaultsCounted
  <1>t. row \in [Episodes -> Row]
    BY DEF LiveInv, TypeOK
  \* The flag does not outlast the episode.
  <1>1. PauseEndsWithEpisode'
    <2>1. SUFFICES ASSUME leakPaused', unguardedFaults' = 0
                   PROVE  \E e \in Episodes : Holds(e)'
      BY DEF PauseEndsWithEpisode, Holds, Releasing, InFlight
    <2>2. unguardedFaults = 0
      BY <1>f, <2>1
    <2>3. CASE leakPaused
      <3>1. PICK e \in Episodes : Holds(e)
        BY <2>2, <2>3 DEF PauseInv, CheckoutPause, PauseEndsWithEpisode,
                          Holds, Releasing, InFlight
      <3>2. Holds(e)'
        BY <2>1, <3>1, HoldsKept
      <3>3. QED
        BY <3>2
    <2>4. CASE ~leakPaused
      <3>1. PICK e \in Episodes : PauseCheckout(e) \/ TriggerInjectRaises(e)
        BY <2>1, <2>4, FlagRaised
      <3>2. PauseCheckout(e)
        BY <1>f, <2>1, <2>2, <3>1 DEF TriggerInjectRaises
      <3>3. row[e].class = MemoryLeak /\ row[e].state = "injecting"
               /\ row' = row
        BY <2>1, <2>4, <3>2 DEF PauseCheckout, LiveInv, ThreadsFit, db
      <3>4. Holds(e)'
        BY <3>3 DEF Holds, InFlight, NonTerminal
      <3>5. QED
        BY <3>4
    <2>5. QED
      BY <2>3, <2>4
  \* Nor does it end before it, but by what lostPause keeps.
  <1>2. PausedWhileLeaking'
    <2>1. SUFFICES ASSUME NEW e \in Episodes, Due(e)'
                   PROVE  leakPaused' \/ e \in lostPause'
      BY DEF PausedWhileLeaking, Due, InFlight
    <2>2. CASE Due(e)
      <3>1. leakPaused \/ e \in lostPause
        BY <2>2 DEF PauseInv, CheckoutPause, PausedWhileLeaking, Due
      <3>2. e \in Leaking
        BY <2>2 DEF Due, Leaking, PauseInv, NotStarted
      <3>3. CASE (leakPaused => leakPaused') /\ lostPause' = lostPause
        BY <3>1, <3>3
      <3>4. ASSUME NEW f \in Episodes, Unpause(f), ~InFlight(f)
            PROVE  e \in lostPause'
        BY <2>2, <3>2, <3>4 DEF Unpause, Due
      <3>5. CASE lostPause' = lostPause \cup Leaking
        BY <3>2, <3>5
      <3>6. QED
        BY <3>3, <3>4, <3>5, FlagMoves
    <2>3. CASE leakPaused'
      BY <2>3
    <2>4. QED
      BY <2>1, <2>2, <2>3, DueBefore DEF PauseInv
  <1>3. QED
    BY <1>1, <1>2, StartStep DEF PauseInv, CheckoutPause

\* _leak_checkout_paused follows the memory-leak episode.  Unless an exception
\* ends a thread that no guard covers, the flag outlasts no episode but by
\* the threads that are about to clear it (_set_episode_state); and from the
\* injector's start on it is set until the episode ends, or a crash forgets
\* it, or a thread of an earlier episode clears it late (/trigger/inject).
THEOREM PauseFollowsEpisode == Spec => []CheckoutPause
  <1>1. Init => PauseInv
    BY DEF Init, PauseInv, NotStarted, CheckoutPause, PauseEndsWithEpisode,
           PausedWhileLeaking, InFlight, NoRows, EmptyRow, NonTerminal
  <1>2. LiveInv /\ StartedOnce /\ PauseInv /\ [Next]_vars => PauseInv'
    BY PauseStep
  <1>3. PauseInv => CheckoutPause
    BY DEF PauseInv
  <1>4. QED
    BY <1>1, <1>2, <1>3, StartedInit, StartedStep, LiveInvariant, PTL
       DEF Spec

-----------------------------------------------------------------------------
(* Who owns a subprocess, while nothing has failed.                        *)

Clean == crashes + guardedFaults + unguardedFaults = 0

\* An injector has its wrapper and a scorer its thread.
Owned ==
    \A e \in Episodes :
        /\ Alive(e) => wrapper[e] \in {"pid", "polling"}
        /\ scorer[e] = "running" =>
              \E t \in Callers : resolver[e][t] = "scoring"

ProcessesOwned == StartedOnce /\ (Clean => Owned)

LEMMA CleanBefore ==
    ASSUME LiveInv, [Next]_vars, Clean'
    PROVE  /\ Clean
           /\ crashes' = 0 /\ guardedFaults' = 0 /\ unguardedFaults' = 0
  <1>1. crashes' = 0 /\ guardedFaults' = 0 /\ unguardedFaults' = 0
    BY FaultsCounted, NoneOfThree DEF Clean
  <1>2. crashes = 0 /\ guardedFaults = 0 /\ unguardedFaults = 0
    BY <1>1, FaultsCounted
  <1>3. QED
    BY <1>1, <1>2 DEF Clean

\* A thread of _attempt_resolve at work, or a wrapper past its await, has no
\* injector left to own.
LEMMA PastInjector ==
    ASSUME LiveInv, NEW e \in Episodes,
           \/ row[e].state \notin {"injecting", "holding"}
           \/ \E t \in Callers : resolver[e][t] # "none"
    PROVE  wrapper[e] \notin {"pid", "polling"}
  <1>1. row[e].state \notin {"injecting", "holding"}
    BY DEF LiveInv, ThreadsFit, Early
  <1>2. QED
    BY <1>1 DEF LiveInv, ThreadsFit

LEMMA OwnedStep ==
    ASSUME LiveInv, StartedOnce, Owned, [Next]_vars, Clean'
    PROVE  Owned'
  <1>t. /\ wrapper \in [Episodes -> WrapperStep]
        /\ resolver \in [Episodes -> [Callers -> ResolverStep]]
        /\ injector \in [Episodes -> InjectorStatus]
        /\ scorer \in [Episodes -> ScorerStatus]
        /\ {"timer", "auto", "inline"} \subseteq Callers
    BY DEF LiveInv, TypeOK, Callers
  <1>c. crashes' = 0 /\ guardedFaults' = 0 /\ unguardedFaults' = 0
    BY CleanBefore
  <1>f. /\ crashes \in Nat /\ guardedFaults \in Nat /\ unguardedFaults \in Nat
    BY FaultsCounted
  <1>k. ASSUME UNCHANGED <<injector, scorer, wrapper, resolver>> PROVE Owned'
    BY <1>k DEF Owned, Alive
  <1>1. ASSUME NEW e \in Episodes, Requests(e)
        PROVE  Owned'
    <2>1. ASSUME NEW c \in FaultClasses, TriggerInject(e, c)
          PROVE  Owned'
      <3>1. ~Alive(e)
        BY <2>1, PastInjector DEF TriggerInject, Owned
      <3>2. QED
        BY <1>t, <2>1, <3>1 DEF TriggerInject, processes, Owned, Alive
    <2>2. CASE TriggerStopHold(e) \/ Logout(e)
      BY <1>k, <2>2 DEF TriggerStopHold, Logout, processes, threads
    <2>3. ASSUME NEW k \in Clicks, TriggerResolve(e, k)
          PROVE  Owned'
      <3>1. k \in Callers /\ "cas" \in ResolverStep
        BY DEF Callers, ResolverStep
      <3>2. \A f \in Episodes : \A u \in Callers :
               resolver[f][u] = "scoring" => resolver'[f][u] = "scoring"
        BY <1>t, <2>3, <3>1, ThreadWritten DEF TriggerResolve
      <3>3. QED
        BY <2>3, <3>2 DEF TriggerResolve, processes, Owned, Alive
    <2>4. QED
      BY <1>1, <2>1, <2>2, <2>3 DEF Requests
  <1>2. ASSUME NEW e \in Episodes,
               \/ PauseCheckout(e) \/ SpawnInjector(e) \/ RecordPid(e)
               \/ InjectorExitSeen(e) \/ ClassifyExit(e) \/ ArmTimer(e)
               \/ Guard(e) \/ UnpauseWrapper(e) \/ InjectorTimesOut(e)
        PROVE  Owned'
    <2>1. scorer' = scorer /\ resolver' = resolver
      BY <1>2 DEF PauseCheckout, SpawnInjector, RecordPid, InjectorExitSeen,
         ClassifyExit, ArmTimer, Guard, UnpauseWrapper, InjectorTimesOut,
         processes
    <2>2. \A f \in Episodes : f # e =>
             injector'[f] = injector[f] /\ wrapper'[f] = wrapper[f]
      BY <1>t, <1>2 DEF PauseCheckout, SpawnInjector, RecordPid,
         InjectorExitSeen, ClassifyExit, ArmTimer, Guard, UnpauseWrapper,
         InjectorTimesOut, processes
    <2>3. Alive(e)' => wrapper'[e] \in {"pid", "polling"}
      <3>1. CASE SpawnInjector(e) \/ RecordPid(e)
        BY <1>t, <3>1 DEF SpawnInjector, RecordPid
      <3>2. CASE \/ PauseCheckout(e) \/ InjectorExitSeen(e) \/ ClassifyExit(e)
                 \/ ArmTimer(e) \/ Guard(e) \/ UnpauseWrapper(e)
        <4>1. ~Alive(e) /\ injector' = injector
          BY <3>2 DEF PauseCheckout, InjectorExitSeen, ClassifyExit, ArmTimer,
             Guard, UnpauseWrapper, Owned, processes
        <4>2. QED
          BY <4>1 DEF Alive
      <3>3. CASE InjectorTimesOut(e)
        BY <1>t, <3>3 DEF InjectorTimesOut, Alive
      <3>4. QED
        BY <1>2, <3>1, <3>2, <3>3
    <2>4. QED
      BY <2>1, <2>2, <2>3 DEF Owned, Alive
  <1>3. ASSUME NEW e \in Episodes,
               AwaitFix(e) \/ OrphanGone(e) \/ StartAuto(e)
        PROVE  Owned'
    <2>1. ~Alive(e) /\ injector' = injector /\ scorer' = scorer
      BY <1>3 DEF AwaitFix, OrphanGone, StartAuto, Owned, processes
    <2>2. \A u \in Callers : resolver[e][u] = "scoring" =>
             resolver'[e][u] = "scoring"
      <3>1. CASE AwaitFix(e) \/ OrphanGone(e)
        <4>1. row[e].state \in Early
          BY <3>1 DEF AwaitFix, OrphanGone, LiveInv, ThreadsFit, Early
        <4>2. QED
          BY <4>1 DEF LiveInv, ThreadsFit
      <3>2. CASE StartAuto(e)
        <4>1. resolver[e]["auto"] = "none"
          BY <3>2 DEF StartAuto, StartedOnce
        <4>2. QED
          BY <1>t, <3>2, <4>1 DEF StartAuto
      <3>3. QED
        BY <1>3, <3>1, <3>2
    <2>3. \A f \in Episodes : f # e =>
             wrapper'[f] = wrapper[f] /\ resolver'[f] = resolver[f]
      BY <1>t, <1>3 DEF AwaitFix, OrphanGone, StartAuto
    <2>4. QED
      BY <2>1, <2>2, <2>3 DEF Owned, Alive
  <1>4. ASSUME NEW e \in Episodes, TimerFires(e)
        PROVE  Owned'
    <2>1. resolver[e]["timer"] = "none" /\ "cas" \in ResolverStep
      BY <1>4 DEF TimerFires, StartedOnce, ResolverStep
    <2>2. \A f \in Episodes : \A u \in Callers :
             resolver[f][u] = "scoring" => resolver'[f][u] = "scoring"
      BY <1>t, <1>4, <2>1, ThreadWritten DEF TimerFires
    <2>3. QED
      BY <1>4, <2>2 DEF TimerFires, processes, Owned, Alive
  <1>5. ASSUME NEW e \in Episodes, NEW t \in Callers,
               ResolverNext(e, t)
        PROVE  Owned'
    <2>1. PICK step \in ResolverStep : Resolver(e, t, step)
      BY <1>5 DEF ResolverNext, CompareAndSet, StartScorer, ScorerDone,
         UnpauseResolver, Republish, AfterTerminal, ResolverStep
    <2>2. resolver[e][t] # "none" /\ injector' = injector
      BY <1>5 DEF ResolverNext, CompareAndSet, StartScorer, ScorerDone,
         UnpauseResolver, Republish, processes
    <2>3. \A f \in Episodes : Alive(f)' => wrapper'[f] \in {"pid", "polling"}
      <3>1. ~Alive(e)
        BY <2>2, PastInjector DEF Owned
      <3>2. \A f \in Episodes : f # e => wrapper'[f] = wrapper[f]
        BY <1>t, <2>1 DEF Resolver
      <3>3. QED
        BY <2>2, <3>1, <3>2 DEF Owned, Alive
    <2>4. /\ resolver'[e][t] = step
          /\ \A u \in Callers : u # t => resolver'[e][u] = resolver[e][u]
          /\ \A f \in Episodes : f # e => resolver'[f] = resolver[f]
      BY <1>t, <2>1, ThreadWritten DEF Resolver
    <2>5. \A f \in Episodes : f # e => scorer'[f] = scorer[f]
      BY <1>t, <1>5 DEF ResolverNext, CompareAndSet, StartScorer, ScorerDone,
         UnpauseResolver, Republish, processes
    <2>6. scorer'[e] = "running" =>
             \E u \in Callers : resolver'[e][u] = "scoring"
      <3>1. CASE StartScorer(e, t)
        BY <1>t, <3>1 DEF StartScorer, Resolver
      <3>2. CASE \/ CompareAndSet(e, t) \/ UnpauseResolver(e, t)
                 \/ Republish(e, t)
        BY <2>4, <3>2 DEF CompareAndSet, UnpauseResolver, Republish,
                          processes, Owned
      <3>3. CASE ScorerDone(e, t)
        BY <1>t, <3>3 DEF ScorerDone, processes
      <3>4. QED
        BY <1>5, <3>1, <3>2, <3>3 DEF ResolverNext
    <2>7. QED
      BY <2>3, <2>4, <2>5, <2>6 DEF Owned
  <1>6. ASSUME NEW e \in Episodes, InjectorRecords(e)
        PROVE  Owned'
    BY <1>t, <1>6 DEF InjectorRecords, threads, Owned, Alive
  <1>7. ASSUME NEW e \in Episodes, NEW code \in {"ok", "failed"},
               InjectorExits(e, code) \/ ScorerExits(e, code)
        PROVE  Owned'
    <2>1. CASE InjectorExits(e, code)
      BY <1>t, <2>1 DEF InjectorExits, threads, Owned, Alive
    <2>2. CASE ScorerExits(e, code)
      BY <1>t, <2>2 DEF ScorerExits, threads, Owned, Alive
    <2>3. QED
      BY <1>7, <2>1, <2>2
  <1>15. ASSUME NEW e \in Episodes, NEW t \in Callers, ScorerTimesOut(e, t)
         PROVE  Owned'
    BY <1>t, <1>15 DEF ScorerTimesOut, threads, Owned, Alive
  <1>8. ASSUME NEW e \in Episodes,
               \/ ScorerScores(e)
               \/ \E confirmed \in BOOLEAN : Tick(e, confirmed)
        PROVE  Owned'
    BY <1>k, <1>8 DEF ScorerScores, Tick, threads, processes
  <1>10. CASE Restart
    <2>1. CASE ReadRows
      BY <1>k, <2>1 DEF ReadRows, processes, threads
    <2>2. ASSUME NEW overdue \in BOOLEAN, ReconcileOnStartup(overdue)
          PROVE  Owned'
      <3>1. \A e \in Episodes : \A u \in Callers : resolver[e][u] = "none"
        BY <2>2 DEF ReconcileOnStartup, LiveInv, DownIsQuiet
      <3>2. /\ UNCHANGED <<injector, scorer>>
            /\ \A e \in Episodes : wrapper[e] = "none"
        BY <2>2 DEF ReconcileOnStartup, LiveInv, DownIsQuiet, processes
      <3>3. QED
        BY <3>1, <3>2 DEF Owned, Alive
    <2>3. QED
      BY <1>10, <2>1, <2>2 DEF Restart
  <1>11. ASSUME NEW e \in Episodes,
                \/ WrapperRaises(e) \/ GuardRaises(e)
                \/ TriggerInjectRaises(e)
                \/ \E t \in Callers : ResolverRaises(e, t)
         PROVE  FALSE
    BY <1>c, <1>f, <1>11 DEF WrapperRaises, GuardRaises, TriggerInjectRaises,
                             ResolverRaises
  <1>12. ASSUME NEW survivors \in SUBSET {"injector", "scorer"},
                Crash(survivors)
         PROVE  FALSE
    BY <1>c, <1>f, <1>12 DEF Crash
  <1>13. CASE Done \/ UNCHANGED vars
    BY <1>k, <1>13 DEF Done, vars, processes, threads
  <1>14. QED
    BY <1>1, <1>2, <1>3, <1>4, <1>5, <1>6, <1>7, <1>8, <1>10, <1>11,
       <1>12, <1>13, <1>15 DEF Next, WrapperNext

\* While the API neither crashes nor meets an exception, no injector is on
\* the cluster while another episode's scorer runs ("at most one episode in
\* flight system-wide", operator_api.py:98): the row in flight is one, the
\* injector of a row belongs to its wrapper, and its scorer to the thread
\* that won the compare-and-set.
THEOREM InjectorAndScorerApart == Spec => []InjectorNeverMeetsScorer
  <1>1. Init => ProcessesOwned
    <2>1. Init => Owned
      BY DEF Init, Owned, Alive
    <2>2. QED
      BY <2>1, StartedInit DEF ProcessesOwned
  <1>2. LiveInv /\ ProcessesOwned /\ [Next]_vars => ProcessesOwned'
    <2> SUFFICES ASSUME LiveInv, ProcessesOwned, [Next]_vars
                 PROVE  ProcessesOwned'
      OBVIOUS
    <2>1. StartedOnce'
      BY StartedStep DEF ProcessesOwned
    <2>2. ASSUME Clean' PROVE Owned'
      BY <2>2, CleanBefore, OwnedStep DEF ProcessesOwned
    <2>3. QED
      BY <2>1, <2>2 DEF ProcessesOwned
  <1>3. LiveInv /\ SingleInFlight /\ ProcessesOwned
           => InjectorNeverMeetsScorer
    <2> SUFFICES ASSUME LiveInv, SingleInFlight, ProcessesOwned, Clean,
                        NEW e \in Episodes, NEW f \in Episodes,
                        Alive(e), scorer[f] = "running"
                 PROVE  e = f
      BY DEF InjectorNeverMeetsScorer, Clean
    <2>1. InFlight(e)
      BY DEF ProcessesOwned, Owned, LiveInv, ThreadsFit, InFlight,
             NonTerminal
    <2>2. InFlight(f)
      <3>1. guardedFaults = 0
        BY NoneOfThree DEF Clean, LiveInv, TypeOK
      <3>2. QED
        BY <3>1 DEF ProcessesOwned, Owned, LiveInv, ThreadsFit, InFlight,
                    NonTerminal
    <2>3. QED
      BY <2>1, <2>2 DEF SingleInFlight
  <1>4. QED
    BY <1>1, <1>2, <1>3, LiveInvariant, OneInFlight, PTL DEF Spec

-----------------------------------------------------------------------------
(* What an abandon stops.                                                  *)

\* An episode that was abandoned before its wrapper looked: no thread of it
\* gets past the wrapper.
Barred(e) ==
    /\ row[e].abandon
    /\ row[e].state \in {"injecting", "holding", "failed"}
    /\ wrapper[e] \notin {"await", "arm", "inline"}
    /\ e \notin timers
    /\ \A t \in Callers : resolver[e][t] = "none"
    /\ runs[e] = 0

\* In an API that has not crashed nobody watches an orphan, either.
AbandonSticks ==
    crashes = 0 =>
        /\ api = "up"
        /\ \A e \in Episodes : wrapper[e] \notin {"watch", "auto"}
        /\ \A e \in abandoned : Barred(e)

LEMMA AbandonStep == LiveInv /\ AbandonSticks /\ [Next]_vars => AbandonSticks'
  <1> SUFFICES ASSUME LiveInv, AbandonSticks, [Next]_vars, crashes' = 0
               PROVE  /\ api' = "up"
                      /\ \A f \in Episodes : wrapper'[f] \notin {"watch", "auto"}
                      /\ \A f \in abandoned' : Barred(f)'
    BY DEF AbandonSticks
  <1>t. /\ row \in [Episodes -> Row] /\ runs \in [Episodes -> Nat]
        /\ wrapper \in [Episodes -> WrapperStep]
        /\ resolver \in [Episodes -> [Callers -> ResolverStep]]
        /\ abandoned \subseteq Episodes /\ crashes \in Nat
    BY DEF LiveInv, TypeOK
  <1>c. crashes = 0 /\ api = "up"
    <2>1. crashes = 0
      BY <1>t, FaultsCounted
    <2>2. QED
      BY <2>1 DEF AbandonSticks
  <1>w. \A f \in Episodes : wrapper[f] \notin {"watch", "auto"}
    BY <1>c DEF AbandonSticks
  <1>a. \A f \in abandoned : f \in Episodes /\ Barred(f)
    BY <1>t, <1>c DEF AbandonSticks
  <1> DEFINE Quiet == \A f \in Episodes : wrapper'[f] \notin {"watch", "auto"}
             Goal == /\ api' = "up" /\ Quiet
                     /\ \A f \in abandoned' : Barred(f)'
  \* A step of e alone: the others stay barred.
  <1>k. ASSUME NEW e \in Episodes, api' = api, abandoned' = abandoned,
               \A f \in Episodes : f # e =>
                  /\ row'[f] = row[f] /\ wrapper'[f] = wrapper[f]
                  /\ resolver'[f] = resolver[f] /\ runs'[f] = runs[f]
                  /\ f \in timers' => f \in timers,
               wrapper'[e] \notin {"watch", "auto"},
               e \in abandoned => Barred(e)'
        PROVE  Goal
    <2>1. Quiet
      BY <1>k, <1>w
    <2>2. ASSUME NEW f \in abandoned PROVE Barred(f)'
      <3>1. CASE f = e
        BY <1>k, <2>2, <3>1
      <3>2. CASE f # e
        BY <1>k, <1>a, <2>2, <3>2 DEF Barred
      <3>3. QED
        BY <3>1, <3>2
    <2>3. QED
      BY <1>c, <1>k, <2>1, <2>2
  \* A step that leaves states, flags and threads alone.
  <1>s. ASSUME UNCHANGED <<api, runs, abandoned, wrapper, resolver, timers>>,
               \A f \in Episodes : /\ row'[f].state = row[f].state
                                   /\ row'[f].abandon = row[f].abandon
        PROVE  Goal
    <2>1. ASSUME NEW f \in abandoned' PROVE Barred(f)'
      <3>1. f \in Episodes /\ Barred(f)
        BY <1>a, <1>s, <2>1
      <3>2. QED
        BY <1>s, <3>1 DEF Barred
    <2>2. QED
      BY <1>c, <1>s, <1>w, <2>1
  <1>1. ASSUME NEW e \in Episodes, NEW c \in FaultClasses, TriggerInject(e, c)
        PROVE  Goal
    <2>1. /\ e \notin abandoned
          /\ UNCHANGED <<api, runs, abandoned, resolver, timers>>
      BY <1>1, <1>a DEF TriggerInject, ghosts, Barred
    <2>2. /\ \A f \in Episodes : f # e =>
                row'[f] = row[f] /\ wrapper'[f] = wrapper[f]
          /\ wrapper'[e] = "pause"
      BY <1>t, <1>1 DEF TriggerInject
    <2> HIDE DEF Goal
    <2>3. QED
      BY <1>k, <2>1, <2>2
  <1>2. ASSUME NEW e \in Episodes,
               \/ TriggerStopHold(e) \/ InjectorRecords(e)
               \/ \E confirmed \in BOOLEAN : Tick(e, confirmed)
        PROVE  Goal
    <2>1. UNCHANGED <<api, runs, abandoned, wrapper, resolver, timers>>
      BY <1>2 DEF TriggerStopHold, InjectorRecords, Tick, ghosts, threads
    <2>2. \A f \in Episodes : /\ row'[f].state = row[f].state
                              /\ row'[f].abandon = row[f].abandon
      <3>1. CASE TriggerStopHold(e)
        BY <1>t, <3>1 DEF TriggerStopHold, Row
      <3>2. CASE InjectorRecords(e)
        BY <1>t, <3>2 DEF InjectorRecords, Row
      <3>3. CASE \E confirmed \in BOOLEAN : Tick(e, confirmed)
        BY <1>t, <3>3 DEF Tick, Row
      <3>4. QED
        BY <1>2, <3>1, <3>2, <3>3
    <2> HIDE DEF Goal
    <2>3. QED
      BY <1>s, <2>1, <2>2
  <1>3. ASSUME NEW e \in Episodes, Logout(e)
        PROVE  Goal
    <2>1. /\ UNCHANGED <<api, runs, wrapper, resolver, timers>>
          /\ \A f \in abandoned' : f \in abandoned \/
                (f = e /\ wrapper[e] \in {"pause", "spawn", "pid", "polling",
                                          "exited"})
      BY <1>3 DEF Logout, threads
    <2>2. /\ \A f \in Episodes : /\ row'[f].state = row[f].state
                                 /\ row[f].abandon => row'[f].abandon
          /\ row'[e].abandon
      BY <1>t, <1>3 DEF Logout, Row
    <2>3. ASSUME wrapper[e] \in {"pause", "spawn", "pid", "polling", "exited"}
          PROVE  Barred(e)'
      <3>1. row[e].state \in {"injecting", "holding"}
        BY <2>3 DEF LiveInv, ThreadsFit
      <3>2. /\ runs[e] = 0 /\ e \notin timers
            /\ \A t \in Callers : resolver[e][t] = "none"
        BY <3>1 DEF LiveInv, ScorerIsOwed, ThreadsFit, Early
      <3>3. QED
        BY <2>1, <2>2, <2>3, <3>1, <3>2 DEF Barred
    <2>4. ASSUME NEW f \in abandoned PROVE Barred(f)'
      <3>1. f \in Episodes /\ Barred(f)
        BY <1>a, <2>4
      <3>2. QED
        BY <2>1, <2>2, <3>1 DEF Barred
    <2>5. QED
      BY <1>c, <1>w, <2>1, <2>3, <2>4
  <1>4. ASSUME NEW e \in Episodes,
               \/ PauseCheckout(e) \/ SpawnInjector(e) \/ RecordPid(e)
               \/ InjectorExitSeen(e) \/ ClassifyExit(e) \/ AwaitFix(e)
               \/ ArmTimer(e) \/ Guard(e) \/ UnpauseWrapper(e)
               \/ InjectorTimesOut(e) \/ WrapperRaises(e) \/ GuardRaises(e)
               \/ TriggerInjectRaises(e)
        PROVE  Goal
    <2>1. UNCHANGED <<api, runs, abandoned>>
      BY <1>4 DEF PauseCheckout, SpawnInjector, RecordPid, InjectorExitSeen,
         ClassifyExit, AwaitFix, ArmTimer, Guard, UnpauseWrapper, Unpause,
         InjectorTimesOut, WrapperRaises, GuardRaises, TriggerInjectRaises,
         ghosts
    <2>2. \E step \in WrapperStep \ {"watch", "auto"} :
             wrapper' = [wrapper EXCEPT ![e] = step]
      <3>1. CASE ClassifyExit(e) \/ AwaitFix(e) \/ Guard(e)
        BY <3>1 DEF ClassifyExit, AwaitFix, Guard, AfterTerminal, WrapperStep
      <3>2. CASE ~(ClassifyExit(e) \/ AwaitFix(e) \/ Guard(e))
        BY <1>4, <3>2 DEF PauseCheckout, SpawnInjector, RecordPid,
           InjectorExitSeen, ArmTimer, UnpauseWrapper, InjectorTimesOut,
           WrapperRaises, GuardRaises, TriggerInjectRaises, WrapperStep
      <3>3. QED
        BY <3>1, <3>2
    <2>3. \A f \in Episodes : f # e => row'[f] = row[f]
      <3>1. CASE RecordPid(e)
        BY <1>t, <3>1 DEF RecordPid
      <3>2. CASE ClassifyExit(e) \/ AwaitFix(e) \/ Guard(e)
        BY <1>t, <3>2 DEF ClassifyExit, AwaitFix, Guard, SetEpisodeState
      <3>3. CASE ~(RecordPid(e) \/ ClassifyExit(e) \/ AwaitFix(e) \/ Guard(e))
        BY <1>4, <3>3 DEF PauseCheckout, SpawnInjector, InjectorExitSeen,
           ArmTimer, UnpauseWrapper, InjectorTimesOut, WrapperRaises,
           GuardRaises, TriggerInjectRaises, db
      <3>4. QED
        BY <3>1, <3>2, <3>3
    <2>4. /\ \A f \in Episodes : f # e => resolver'[f] = resolver[f]
          /\ \A f \in timers' : f = e \/ f \in timers
      <3>1. CASE AwaitFix(e)
        BY <1>t, <3>1 DEF AwaitFix
      <3>2. CASE ArmTimer(e)
        BY <3>2 DEF ArmTimer
      <3>3. CASE ~(AwaitFix(e) \/ ArmTimer(e))
        BY <1>4, <3>3 DEF PauseCheckout, SpawnInjector, RecordPid,
           InjectorExitSeen, ClassifyExit, Guard, UnpauseWrapper,
           InjectorTimesOut, WrapperRaises, GuardRaises, TriggerInjectRaises
      <3>4. QED
        BY <3>1, <3>2, <3>3
    <2>5. ASSUME e \in abandoned PROVE Barred(e)'
      <3>0. Barred(e)
        BY <1>a, <2>5
      <3>1. ~AwaitFix(e) /\ ~ArmTimer(e)
        BY <3>0 DEF Barred, AwaitFix, ArmTimer
      <3>2. UNCHANGED <<resolver, timers>>
        BY <1>4, <3>1 DEF PauseCheckout, SpawnInjector, RecordPid,
           InjectorExitSeen, ClassifyExit, Guard, UnpauseWrapper,
           InjectorTimesOut, WrapperRaises, GuardRaises, TriggerInjectRaises
      <3>3. /\ row'[e].abandon = row[e].abandon
            /\ row'[e].state \in {"injecting", "holding", "failed"}
            /\ wrapper'[e] \notin {"await", "arm", "inline"}
        <4>1. CASE RecordPid(e)
          <5>1. row[e].state = "injecting"
            BY <4>1 DEF RecordPid, LiveInv, ThreadsFit
          <5>2. QED
            BY <1>t, <4>1, <5>1 DEF RecordPid, Row
        <4>2. CASE ClassifyExit(e) \/ Guard(e)
          <5>1. SetEpisodeState(e, "failed")
            BY <3>0, <4>2 DEF ClassifyExit, Guard, Barred
          <5>2. "failed" \in States
            BY DEF States, Terminal
          <5>3. row'[e].state = "failed" /\ row'[e].abandon = row[e].abandon
            BY <1>t, <5>1, <5>2, StateWritten DEF SetEpisodeState
          <5>4. wrapper'[e] \notin {"await", "arm", "inline"}
            BY <1>t, <3>0, <4>2 DEF ClassifyExit, Guard, Barred, AfterTerminal
          <5>5. QED
            BY <5>3, <5>4
        <4>3. CASE ~(RecordPid(e) \/ ClassifyExit(e) \/ Guard(e))
          <5>1. row' = row
            BY <1>4, <3>1, <4>3 DEF PauseCheckout, SpawnInjector,
               InjectorExitSeen, UnpauseWrapper, InjectorTimesOut,
               WrapperRaises, GuardRaises, TriggerInjectRaises, db
          <5>2. wrapper'[e] \notin {"await", "arm", "inline"}
            BY <1>4, <1>t, <3>1, <4>3 DEF PauseCheckout, SpawnInjector,
               InjectorExitSeen, UnpauseWrapper, InjectorTimesOut,
               WrapperRaises, GuardRaises, TriggerInjectRaises
          <5>3. QED
            BY <3>0, <5>1, <5>2 DEF Barred
        <4>4. QED
          BY <4>1, <4>2, <4>3
      <3>4. QED
        BY <2>1, <3>0, <3>2, <3>3 DEF Barred
    <2>6. /\ wrapper'[e] \notin {"watch", "auto"}
          /\ \A f \in Episodes : f # e => wrapper'[f] = wrapper[f]
      BY <1>t, <2>2
    <2> HIDE DEF Goal
    <2>7. QED
      BY <1>k, <2>1, <2>3, <2>4, <2>5, <2>6
  <1>5. ASSUME NEW e \in Episodes, NEW t \in Callers,
               ResolverNext(e, t) \/ ResolverRaises(e, t)
        PROVE  Goal
    <2>1. resolver[e][t] # "none"
      BY <1>5 DEF ResolverNext, CompareAndSet, StartScorer, ScorerDone,
         UnpauseResolver, Republish, ResolverRaises
    <2>2. e \notin abandoned
      BY <1>a, <2>1 DEF Barred
    <2>3. UNCHANGED <<api, abandoned>> /\ timers' \subseteq timers
      BY <1>5 DEF ResolverNext, CompareAndSet, StartScorer, ScorerDone,
         UnpauseResolver, Unpause, Republish, ResolverRaises, ghosts
    <2>4. /\ wrapper' \in {wrapper, [wrapper EXCEPT ![e] = "none"],
                           [wrapper EXCEPT ![e] = "guard"]}
          /\ \E step : resolver' = [resolver EXCEPT ![e][t] = step]
      BY <1>5 DEF ResolverNext, CompareAndSet, StartScorer, ScorerDone,
         UnpauseResolver, Republish, ResolverRaises, Resolver
    <2>5. \A f \in Episodes : f # e =>
             row'[f] = row[f] /\ runs'[f] = runs[f]
      <3>1. CASE StartScorer(e, t) \/ UnpauseResolver(e, t) \/ Republish(e, t)
                 \/ ResolverRaises(e, t)
        BY <1>t, <3>1 DEF StartScorer, UnpauseResolver, Unpause, Republish,
                          ResolverRaises, db, ghosts
      <3>2. CASE CompareAndSet(e, t) \/ ScorerDone(e, t)
        BY <1>t, <3>2 DEF CompareAndSet, ScorerDone, SetEpisodeState, ghosts
      <3>3. QED
        BY <1>5, <3>1, <3>2 DEF ResolverNext
    <2>6. /\ \A f \in Episodes : f # e =>
                wrapper'[f] = wrapper[f] /\ resolver'[f] = resolver[f]
          /\ wrapper'[e] \notin {"watch", "auto"}
      BY <1>t, <1>w, <2>4
    <2> HIDE DEF Goal
    <2>7. QED
      BY <1>k, <2>2, <2>3, <2>5, <2>6
  <1>6. ASSUME NEW e \in Episodes,
               TimerFires(e) \/ \E k \in Clicks : TriggerResolve(e, k)
        PROVE  Goal
    <2>1. /\ e \in timers \/ row[e].state = "awaiting_fix"
          /\ UNCHANGED <<api, abandoned, row, wrapper, runs>>
          /\ timers' \subseteq timers
          /\ \E t : resolver' = [resolver EXCEPT ![e][t] = "cas"]
      BY <1>6 DEF TimerFires, TriggerResolve, db, ghosts
    <2>2. e \notin abandoned
      BY <1>a, <2>1 DEF Barred
    <2>3. \A f \in Episodes : f # e => resolver'[f] = resolver[f]
      BY <1>t, <2>1
    <2>4. wrapper'[e] \notin {"watch", "auto"}
      BY <1>w, <2>1
    <2> HIDE DEF Goal
    <2>5. QED
      BY <1>k, <2>1, <2>2, <2>3, <2>4
  <1>7. ASSUME NEW e \in Episodes,
               \/ ScorerScores(e) \/ \E t \in Callers : ScorerTimesOut(e, t)
               \/ \E code \in {"ok", "failed"} :
                     InjectorExits(e, code) \/ ScorerExits(e, code)
        PROVE  Goal
    <2>1. UNCHANGED <<api, runs, abandoned, wrapper, resolver, timers, row>>
      BY <1>7 DEF ScorerScores, ScorerTimesOut, InjectorExits, ScorerExits,
                  ghosts, threads, db
    <2> HIDE DEF Goal
    <2>2. QED
      BY <1>s, <2>1
  <1>8. ASSUME NEW e \in Episodes, OrphanGone(e) \/ StartAuto(e)
        PROVE  FALSE
    BY <1>w, <1>8 DEF OrphanGone, StartAuto
  <1>9. ~Restart
    BY <1>c DEF Restart, ReadRows, ReconcileOnStartup
  <1>10. ASSUME NEW survivors \in SUBSET {"injector", "scorer"},
                Crash(survivors)
         PROVE  FALSE
    BY <1>t, <1>10 DEF Crash
  <1>11. ASSUME Done \/ UNCHANGED vars PROVE Goal
    <2>1. UNCHANGED vars
      BY <1>11 DEF Done
    <2>2. UNCHANGED <<api, runs, abandoned, wrapper, resolver, timers, row>>
      BY <2>1 DEF vars, ghosts, threads, db
    <2> HIDE DEF Goal
    <2>3. QED
      BY <1>s, <2>2
  <1> HIDE DEF Goal
  <1>12. ASSUME NEW e \in Episodes, Requests(e)
         PROVE  Goal
    BY <1>1, <1>2, <1>3, <1>6, <1>12 DEF Requests
  <1>13. ASSUME NEW e \in Episodes,
                \/ WrapperNext(e) \/ InjectorTimesOut(e) \/ WrapperRaises(e)
                \/ GuardRaises(e) \/ TriggerInjectRaises(e)
         PROVE  Goal
    BY <1>4, <1>8, <1>13 DEF WrapperNext
  <1>14. ASSUME NEW e \in Episodes,
                \/ \E confirmed \in BOOLEAN : Tick(e, confirmed)
                \/ InjectorRecords(e) \/ TimerFires(e) \/ ScorerScores(e)
                \/ \E code \in {"ok", "failed"} :
                      InjectorExits(e, code) \/ ScorerExits(e, code)
                \/ \E t \in Callers : \/ ResolverNext(e, t)
                                      \/ ScorerTimesOut(e, t)
                                      \/ ResolverRaises(e, t)
         PROVE  Goal
    BY <1>2, <1>5, <1>6, <1>7, <1>14
  <1>15. Goal
    BY <1>9, <1>10, <1>11, <1>12, <1>13, <1>14 DEF Next
  <1>16. QED
    BY <1>15 DEF Goal

\* A user who abandons before the injector's exit is classified is never
\* scored, as long as the API does not restart (operator_api.py:1575).
THEOREM AbandonIsFinal == Spec => []AbandonHonoured
  <1>1. Init => AbandonSticks
    BY DEF Init, AbandonSticks
  <1>2. AbandonSticks => AbandonHonoured
    BY DEF AbandonSticks, AbandonHonoured, Barred
  <1>3. QED
    BY <1>1, <1>2, AbandonStep, LiveInvariant, PTL DEF Spec
=============================================================================
