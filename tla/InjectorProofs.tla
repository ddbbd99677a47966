--------------------------- MODULE InjectorProofs ---------------------------
(***************************************************************************)
(* Proofs about Injector, for any set of fault classes, any number of runs *)
(* and any number of attempts.                                             *)
(*                                                                         *)
(* The three invariants the runs check need each other, so they are proved *)
(* together (Healthy). Beside what the rest of the system sees of a run    *)
(* (RecordedIsReal, EvidenceIsKept, StopEndsRetries) InjectorInv says what *)
(* makes that inductive: how far a run has come (Course), that a fault     *)
(* which was seen is there (SeenIsThere), that the attempt after a stop    *)
(* sees the stop file (StopIsSeen), and whose the resources in the cluster *)
(* are (Leftovers).                                                        *)
(***************************************************************************)
EXTENDS Injector, TLAPS

\* What every step keeps.
Healthy == InjectorInv /\ TidyEnd /\ CleanStart

-----------------------------------------------------------------------------
(* The types of what the steps assign.                                     *)

\* A cluster with one field changed.
LEMMA ClusterTypes ==
    ASSUME NEW k \in Cluster
    PROVE  /\ \A v \in SUBSET (Runs \X FaultClasses) : [k EXCEPT !.chaos = v] \in Cluster
           /\ \A v \in SUBSET (Runs \X FaultClasses) : [k EXCEPT !.load = v] \in Cluster
           /\ \A v \in {"carts", "carts-warm"} : [k EXCEPT !.selector = v] \in Cluster
           /\ \A v \in {"base", "forced", "raised"} : [k EXCEPT !.memory = v] \in Cluster
           /\ \A v \in {"base", "off"} : [k EXCEPT !.surge = v] \in Cluster
           /\ \A v \in {1, 3} : [k EXCEPT !.replicas = v] \in Cluster
           /\ \A v \in BOOLEAN : [k EXCEPT !.sticky = v] \in Cluster
           /\ \A v \in BOOLEAN : [k EXCEPT !.fill = v] \in Cluster
           /\ \A v \in BOOLEAN : [k EXCEPT !.deadPods = v] \in Cluster
           /\ \A v \in BOOLEAN : [k EXCEPT !.leak = v] \in Cluster
           /\ \A v \in BOOLEAN : [k EXCEPT !.flood = v] \in Cluster
           /\ \A v \in {"base", "fault"} : [k EXCEPT !.payment = v] \in Cluster
           /\ \A v \in BOOLEAN : [k EXCEPT !.recovering = v] \in Cluster
           /\ \A v \in {0, 1} : [k EXCEPT !.session = v] \in Cluster
           /\ \A v \in {"base", "fault"} : [k EXCEPT !.image = v] \in Cluster
           /\ \A v \in {"base", "raised"} : [k EXCEPT !.cpu = v] \in Cluster
           /\ \A v \in {"tight", "loose"} : [k EXCEPT !.probes = v] \in Cluster
           /\ \A v \in {"base", "raised"} : [k EXCEPT !.cpuTemplate = v] \in Cluster
           /\ \A v \in {1, 3} : [k EXCEPT !.available = v] \in Cluster
  <1>1. ASSUME NEW v \in SUBSET (Runs \X FaultClasses) PROVE [k EXCEPT !.chaos = v] \in Cluster
    BY DEF Cluster
  <1>2. ASSUME NEW v \in SUBSET (Runs \X FaultClasses) PROVE [k EXCEPT !.load = v] \in Cluster
    BY DEF Cluster
  <1>3. ASSUME NEW v \in {"carts", "carts-warm"} PROVE [k EXCEPT !.selector = v] \in Cluster
    BY DEF Cluster
  <1>4. ASSUME NEW v \in {"base", "forced", "raised"} PROVE [k EXCEPT !.memory = v] \in Cluster
    BY DEF Cluster
  <1>5. ASSUME NEW v \in {"base", "off"} PROVE [k EXCEPT !.surge = v] \in Cluster
    BY DEF Cluster
  <1>6. ASSUME NEW v \in {1, 3} PROVE [k EXCEPT !.replicas = v] \in Cluster
    BY DEF Cluster
  <1>7. ASSUME NEW v \in BOOLEAN PROVE [k EXCEPT !.sticky = v] \in Cluster
    BY DEF Cluster
  <1>8. ASSUME NEW v \in BOOLEAN PROVE [k EXCEPT !.fill = v] \in Cluster
    BY DEF Cluster
  <1>9. ASSUME NEW v \in BOOLEAN PROVE [k EXCEPT !.deadPods = v] \in Cluster
    BY DEF Cluster
  <1>10. ASSUME NEW v \in BOOLEAN PROVE [k EXCEPT !.leak = v] \in Cluster
    BY DEF Cluster
  <1>11. ASSUME NEW v \in BOOLEAN PROVE [k EXCEPT !.flood = v] \in Cluster
    BY DEF Cluster
  <1>12. ASSUME NEW v \in {"base", "fault"} PROVE [k EXCEPT !.payment = v] \in Cluster
    BY DEF Cluster
  <1>13. ASSUME NEW v \in BOOLEAN PROVE [k EXCEPT !.recovering = v] \in Cluster
    BY DEF Cluster
  <1>14. ASSUME NEW v \in {0, 1} PROVE [k EXCEPT !.session = v] \in Cluster
    BY DEF Cluster
  <1>15. ASSUME NEW v \in {"base", "fault"} PROVE [k EXCEPT !.image = v] \in Cluster
    BY DEF Cluster
  <1>16. ASSUME NEW v \in {"base", "raised"} PROVE [k EXCEPT !.cpu = v] \in Cluster
    BY DEF Cluster
  <1>17. ASSUME NEW v \in {"tight", "loose"} PROVE [k EXCEPT !.probes = v] \in Cluster
    BY DEF Cluster
  <1>18. ASSUME NEW v \in {"base", "raised"} PROVE [k EXCEPT !.cpuTemplate = v] \in Cluster
    BY DEF Cluster
  <1>19. ASSUME NEW v \in {1, 3} PROVE [k EXCEPT !.available = v] \in Cluster
    BY DEF Cluster
  <1>20. QED
    BY <1>1, <1>2, <1>3, <1>4, <1>5, <1>6, <1>7, <1>8, <1>9, <1>10, <1>11, <1>12,
       <1>13, <1>14, <1>15, <1>16, <1>17, <1>18, <1>19

\* user's pod is replaced after a change of its probes.
LEMMA RolledCluster ==
    ASSUME NEW k \in Cluster, NEW p \in {"tight", "loose"}
    PROVE  /\ Rolled(k) \in Cluster /\ Rolled([k EXCEPT !.probes = p]) \in Cluster
           /\ Rolled(k).chaos = k.chaos /\ Rolled(k).load = k.load
           /\ Rolled(k).cpu = k.cpuTemplate /\ Rolled(k).cpuTemplate = k.cpuTemplate
           /\ Rolled(k).probes = k.probes
           /\ Rolled([k EXCEPT !.probes = p]).chaos = k.chaos
           /\ Rolled([k EXCEPT !.probes = p]).load = k.load
           /\ Rolled([k EXCEPT !.probes = p]).cpu = k.cpuTemplate
           /\ Rolled([k EXCEPT !.probes = p]).cpuTemplate = k.cpuTemplate
           /\ Rolled([k EXCEPT !.probes = p]).probes = p
  <1> DEFINE m == [k EXCEPT !.probes = p]
  <1>1. m \in Cluster
    BY ClusterTypes
  <1>2. m.cpuTemplate = k.cpuTemplate /\ m.chaos = k.chaos /\ m.load = k.load /\ m.probes = p
    BY DEF Cluster
  <1> HIDE DEF m
  <1>3. ASSUME NEW j \in Cluster
        PROVE  /\ Rolled(j) \in Cluster
               /\ Rolled(j).chaos = j.chaos /\ Rolled(j).load = j.load
               /\ Rolled(j).cpu = j.cpuTemplate /\ Rolled(j).cpuTemplate = j.cpuTemplate
               /\ Rolled(j).probes = j.probes
    <2>1. j.cpuTemplate \in {"base", "raised"}
      BY DEF Cluster
    <2>2. Rolled(j) \in Cluster
      BY <2>1, ClusterTypes DEF Rolled
    <2>3. QED
      BY <2>2 DEF Rolled, Cluster
  <1> USE DEF m
  <1>4. /\ Rolled(m) \in Cluster
        /\ Rolled(m).chaos = m.chaos /\ Rolled(m).load = m.load
        /\ Rolled(m).cpu = m.cpuTemplate /\ Rolled(m).cpuTemplate = m.cpuTemplate
        /\ Rolled(m).probes = m.probes
    BY <1>1, <1>3
  <1>5. QED
    BY <1>2, <1>3, <1>4

\* A process with one local variable changed.
LEMMA ProcessTypes ==
    ASSUME NEW r \in Process
    PROVE  /\ \A v \in {"idle", "baseline", "inject", "ramp", "load", "verify", "hold",
                      "cleanup", "exit"} : [r EXCEPT !.pc = v] \in Process
           /\ \A v \in 1..MAX_INJECT_ATTEMPTS : [r EXCEPT !.attempt = v] \in Process
           /\ \A v \in 0..MAX_INJECT_ATTEMPTS : [r EXCEPT !.stopAt = v] \in Process
           /\ \A v \in BOOLEAN : [r EXCEPT !.landed = v] \in Process
           /\ \A v \in BOOLEAN : [r EXCEPT !.verified = v] \in Process
           /\ \A v \in BOOLEAN : [r EXCEPT !.interrupted = v] \in Process
           /\ \A v \in BOOLEAN : [r EXCEPT !.blind = v] \in Process
           /\ \A v \in BOOLEAN : [r EXCEPT !.restarted = v] \in Process
           /\ \A v \in BOOLEAN : [r EXCEPT !.raised = v] \in Process
           /\ \A v \in BOOLEAN : [r EXCEPT !.named = v] \in Process
  BY DEF Process

LEMMA ProcessFields ==
    ASSUME NEW r \in Process
    PROVE  /\ r.n \in 0..MaxRuns /\ r.class \in FaultClasses \cup {"none"} /\ r.live \in BOOLEAN
           /\ r.attempt \in 1..MAX_INJECT_ATTEMPTS /\ r.stopAt \in 0..MAX_INJECT_ATTEMPTS
           /\ r.landed \in BOOLEAN /\ r.verified \in BOOLEAN /\ r.interrupted \in BOOLEAN
           /\ r.blind \in BOOLEAN /\ r.restarted \in BOOLEAN /\ r.raised \in BOOLEAN /\ r.named \in BOOLEAN
  BY DEF Process

\* The moves of a process lead to a process.
LEMMA Moves ==
    ASSUME run \in Process
    PROVE  /\ \A p \in {"inject", "ramp", "load", "hold", "cleanup", "exit"} : Goto(p) \in Process
           /\ \A p \in {"verify", "load", "hold"}, b \in BOOLEAN : Injected(p, b) \in Process
           /\ \A b \in BOOLEAN : Judged(b) \in Process
           /\ {StoppedEarly, RaisedInTry, RaisedOutside, Named, Nameless} \subseteq Process
  <1>1. ASSUME NEW p \in {"inject", "ramp", "load", "hold", "cleanup", "exit"}
        PROVE  Goto(p) \in Process
    BY DEF Process, Goto
  <1>2. ASSUME NEW p \in {"verify", "load", "hold"}, NEW b \in BOOLEAN
        PROVE  Injected(p, b) \in Process
    BY DEF Process, Injected
  <1>3. ASSUME NEW b \in BOOLEAN
        PROVE  Judged(b) \in Process
    BY DEF Process, Judged
  <1>4. StoppedEarly \in Process /\ RaisedInTry \in Process
    BY DEF Process, StoppedEarly, RaisedInTry
  <1>5. RaisedOutside \in Process
    BY DEF Process, RaisedOutside
  <1>6. Named \in Process
    BY DEF Process, Named
  <1>7. Nameless \in Process
    BY DEF Process, Nameless
  <1>8. QED
    BY <1>1, <1>2, <1>3, <1>4, <1>5, <1>6, <1>7

\* The attempts are counted up to MAX_INJECT_ATTEMPTS.
LEMMA Retries ==
    ASSUME run \in Process
    PROVE  NextAttempt \in Process
  <1>1. CASE run.attempt < MAX_INJECT_ATTEMPTS
    <2>1. run.attempt + 1 \in 1..MAX_INJECT_ATTEMPTS
      BY <1>1, ProcessFields, InjectorAssumption
    <2>2. NextAttempt = [run EXCEPT !.pc = "inject", !.attempt = run.attempt + 1,
                                    !.landed = FALSE, !.interrupted = FALSE]
      BY <1>1 DEF NextAttempt
    <2>3. QED
      BY <2>1, <2>2 DEF Process
  <1>2. CASE ~(run.attempt < MAX_INJECT_ATTEMPTS)
    BY <1>2, Moves DEF NextAttempt
  <1>3. QED
    BY <1>1, <1>2

\* A cluster with several fields changed.
LEMMA ClusterPairs ==
    ASSUME NEW k \in Cluster
    PROVE  /\ \A s \in {"base", "off"}, m \in {"base", "forced", "raised"} :
                /\ [k EXCEPT !.surge = s, !.memory = m] \in Cluster
                /\ [k EXCEPT !.memory = m, !.surge = s] \in Cluster
           /\ \A p \in {"base", "fault"}, r \in BOOLEAN :
                [k EXCEPT !.payment = p, !.recovering = r] \in Cluster
           /\ \A f, d \in BOOLEAN : [k EXCEPT !.fill = f, !.deadPods = d] \in Cluster
           /\ \A v \in SUBSET (Runs \X FaultClasses), l \in BOOLEAN :
                [k EXCEPT !.load = v, !.leak = l] \in Cluster
           /\ \A v, w \in SUBSET (Runs \X FaultClasses) :
                /\ [k EXCEPT !.chaos = v, !.load = w] \in Cluster
                /\ \A p \in {"tight", "loose"} :
                     [k EXCEPT !.chaos = v, !.load = w, !.probes = p] \in Cluster
  <1>1. ASSUME NEW s \in {"base", "off"}, NEW m \in {"base", "forced", "raised"}
        PROVE  /\ [k EXCEPT !.surge = s, !.memory = m] \in Cluster
               /\ [k EXCEPT !.memory = m, !.surge = s] \in Cluster
    BY ZenonT(60) DEF Cluster
  <1>2. ASSUME NEW p \in {"base", "fault"}, NEW r \in BOOLEAN
        PROVE  [k EXCEPT !.payment = p, !.recovering = r] \in Cluster
    BY ZenonT(60) DEF Cluster
  <1>3. ASSUME NEW f \in BOOLEAN, NEW d \in BOOLEAN
        PROVE  [k EXCEPT !.fill = f, !.deadPods = d] \in Cluster
    BY ZenonT(60) DEF Cluster
  <1>4. ASSUME NEW v \in SUBSET (Runs \X FaultClasses), NEW l \in BOOLEAN
        PROVE  [k EXCEPT !.load = v, !.leak = l] \in Cluster
    BY DEF Cluster
  <1>5. ASSUME NEW v \in SUBSET (Runs \X FaultClasses), NEW w \in SUBSET (Runs \X FaultClasses)
        PROVE  [k EXCEPT !.chaos = v, !.load = w] \in Cluster
    BY DEF Cluster
  <1>6. ASSUME NEW v \in SUBSET (Runs \X FaultClasses), NEW w \in SUBSET (Runs \X FaultClasses),
               NEW p \in {"tight", "loose"}
        PROVE  [k EXCEPT !.chaos = v, !.load = w, !.probes = p] \in Cluster
    BY DEF Cluster
  <1>7. QED
    BY <1>1, <1>2, <1>3, <1>4, <1>5, <1>6

\* A process that moves and changes other variables with that.
LEMMA ProcessPairs ==
    ASSUME NEW r \in Process,
           NEW p \in {"verify", "hold", "cleanup", "exit", "load"},
           NEW a \in BOOLEAN, NEW b \in BOOLEAN
    PROVE  /\ [r EXCEPT !.pc = p, !.landed = a] \in Process
           /\ [r EXCEPT !.pc = p, !.verified = a] \in Process
           /\ [r EXCEPT !.pc = p, !.interrupted = a] \in Process
           /\ [r EXCEPT !.pc = p, !.restarted = a] \in Process
           /\ [r EXCEPT !.verified = a, !.pc = p] \in Process
           /\ [r EXCEPT !.pc = p, !.landed = a, !.interrupted = b] \in Process
           /\ [r EXCEPT !.pc = p, !.landed = a, !.raised = b] \in Process
           /\ [r EXCEPT !.pc = p, !.landed = a, !.blind = b] \in Process
           /\ [r EXCEPT !.pc = p, !.named = a, !.landed = b] \in Process
           /\ [r EXCEPT !.pc = p, !.verified = a, !.interrupted = b] \in Process
  <1>1. [r EXCEPT !.pc = p, !.landed = a] \in Process
    BY DEF Process
  <1>2. [r EXCEPT !.pc = p, !.verified = a] \in Process
    BY DEF Process
  <1>3. [r EXCEPT !.pc = p, !.interrupted = a] \in Process
    BY DEF Process
  <1>4. [r EXCEPT !.pc = p, !.restarted = a] \in Process
    BY DEF Process
  <1>5. [r EXCEPT !.verified = a, !.pc = p] \in Process
    BY DEF Process
  <1>6. [r EXCEPT !.pc = p, !.landed = a, !.interrupted = b] \in Process
    BY DEF Process
  <1>7. [r EXCEPT !.pc = p, !.landed = a, !.raised = b] \in Process
    BY DEF Process
  <1>8. [r EXCEPT !.pc = p, !.landed = a, !.blind = b] \in Process
    BY DEF Process
  <1>9. [r EXCEPT !.pc = p, !.named = a, !.landed = b] \in Process
    BY DEF Process
  <1>10. [r EXCEPT !.pc = p, !.verified = a, !.interrupted = b] \in Process
    BY DEF Process
  <1>11. QED
    BY <1>1, <1>2, <1>3, <1>4, <1>5, <1>6, <1>7, <1>8, <1>9, <1>10

\* Adding and removing this run's own resource.
LEMMA Resources ==
    ASSUME k8s \in Cluster, run.n \in Runs, run.class \in FaultClasses
    PROVE  {k8s.chaos, k8s.chaos \cup {Mine}, k8s.chaos \ {Mine},
            k8s.load, k8s.load \cup {Mine}, k8s.load \ {Mine}}
                \subseteq SUBSET (Runs \X FaultClasses)
  BY DEF Cluster, Mine

LEMMA ClusterFields ==
    ASSUME NEW k \in Cluster
    PROVE  /\ k.selector \in {"carts", "carts-warm"}
           /\ k.memory \in {"base", "forced", "raised"} /\ k.surge \in {"base", "off"}
           /\ k.replicas \in {1, 3} /\ k.sticky \in BOOLEAN /\ k.fill \in BOOLEAN
           /\ k.deadPods \in BOOLEAN /\ k.leak \in BOOLEAN /\ k.flood \in BOOLEAN
           /\ k.payment \in {"base", "fault"} /\ k.recovering \in BOOLEAN
           /\ k.session \in {0, 1} /\ k.image \in {"base", "fault"}
           /\ k.cpu \in {"base", "raised"} /\ k.probes \in {"tight", "loose"}
           /\ k.cpuTemplate \in {"base", "raised"} /\ k.available \in {1, 3}
  BY DEF Cluster

-----------------------------------------------------------------------------
(* The invariant, and one lemma per action. A step that may go one of      *)
(* several ways has a case for each.                                       *)

\* The ways that actions with a choice of readings or of results can go.
LEMMA LatencyReadings ==
    ASSUME inject_network_latency
    PROVE  \E ms \in probe_orders_latency_ms, landed \in BOOLEAN :
              \/ flaky /\ run' = RaisedOutside /\ UNCHANGED k8s
              \/ /\ k8s' = [k8s EXCEPT !.chaos = k8s.chaos \cup {Mine}]
                 /\ run' = [run EXCEPT !.pc = "hold", !.landed = landed, !.blind = ms = 0]
  BY DEF inject_network_latency

LEMMA ThrottleReadings ==
    ASSUME verify_cpu_throttle_effect
    PROVE  \/ run' = RaisedInTry
           \/ \E seen \in {run.verified, run.verified \/ run.landed},
                 interrupted \in {FALSE, stop /\ run.live} :
                 run' = [run EXCEPT !.pc = "cleanup", !.verified = seen,
                                    !.interrupted = interrupted]
  BY DEF verify_cpu_throttle_effect

LEMMA InitRestored ==
    ASSUME run.class = "init-failure", NEW k \in RestorePatch
    PROVE  \E j \in Tried(k8s, [k8s EXCEPT !.payment = "base"]) :
              k \in Tried(j, [j EXCEPT !.recovering = StillRecovering])
  BY DEF RestorePatch

\* What the baseline checks promise of the cluster k they leave.
BaselineOf(k) ==
    /\ k.chaos = k8s.chaos /\ k.load = k8s.load
    /\ ~flaky =>
        /\ run.class \in {"oom", "under-provisioned-replicas"} =>
               /\ k.memory = "base" /\ k.surge = "base"
               /\ k.replicas = 1 \/ k.available = 1
               /\ k.sticky = k8s.sticky
        /\ run.class = "cpu-throttling" =>
               /\ k.cpu = "base" \/ k.cpuTemplate = "raised"
               /\ run.live => k.probes = "tight"
        /\ run.class = "init-failure" => k.payment = "base" /\ ~k.recovering
        /\ run.class = "session-cart-failure" => k.session = 1 \/ AfterRaise
        /\ run.class = "bad-rollout" => k.image = "base"
        /\ run.class = "memory-leak" => ~k.leak

\* They keep that promise, whatever state an earlier run left.
LEMMA EnsuredBaseline ==
    ASSUME k8s \in Cluster, run \in Process, NEW k \in Ensured
    PROVE  k \in Cluster /\ BaselineOf(k)
  <1>1. CASE run.class \in {"oom", "under-provisioned-replicas"}
    <2>1. PICK i \in ensure_catalogue_replica_baseline(k8s) : k \in ensure_oom_baseline(i)
      BY <1>1 DEF Ensured
    <2>2. PICK j \in Tried(i, [i EXCEPT !.surge = "base"]) :
            k \in Tried(j, [j EXCEPT !.memory = "base"])
      BY <2>1 DEF ensure_oom_baseline
    <2>3. /\ i \in Cluster /\ i.chaos = k8s.chaos /\ i.load = k8s.load
          /\ i.sticky = k8s.sticky
          /\ ~flaky => i.replicas = 1 \/ i.available = 1
      <3>1. CASE (flaky \/ k8s.available = 1) /\ i = k8s
        BY <3>1
      <3>2. CASE i = [k8s EXCEPT !.replicas = 1, !.available = 1]
        <4>1. [k8s EXCEPT !.replicas = 1] \in Cluster
          BY ClusterTypes
        <4>2. i = [[k8s EXCEPT !.replicas = 1] EXCEPT !.available = 1]
          BY <3>2
        <4>3. i \in Cluster
          BY <4>1, <4>2, ClusterTypes
        <4>4. QED
          BY <3>2, <4>3 DEF Cluster
      <3>3. QED
        BY <2>1, <3>1, <3>2 DEF Tried, ensure_catalogue_replica_baseline
    <2>4. /\ j \in Cluster /\ j.chaos = k8s.chaos /\ j.load = k8s.load
          /\ j.sticky = k8s.sticky
          /\ ~flaky => j.surge = "base" /\ (j.replicas = 1 \/ j.available = 1)
      <3>1. CASE flaky /\ j = i
        BY <2>3, <3>1
      <3>2. CASE j = [i EXCEPT !.surge = "base"]
        BY <2>3, <3>2 DEF Cluster
      <3>3. QED
        BY <2>2, <3>1, <3>2 DEF Tried
    <2>5. /\ k \in Cluster /\ k.chaos = k8s.chaos /\ k.load = k8s.load
          /\ k.sticky = k8s.sticky
          /\ ~flaky => /\ k.surge = "base" /\ k.memory = "base"
                       /\ k.replicas = 1 \/ k.available = 1
      <3>1. CASE flaky /\ k = j
        BY <2>4, <3>1
      <3>2. CASE k = [j EXCEPT !.memory = "base"]
        BY <2>4, <3>2 DEF Cluster
      <3>3. QED
        BY <2>2, <3>1, <3>2 DEF Tried
    <2>6. QED
      BY <1>1, <2>5 DEF BaselineOf
  <1>2. CASE run.class = "cpu-throttling"
    <2>1. PICK j \in ensure_cpu_throttle_baseline(k8s) :
            k \in ensure_cpu_throttle_probe_baseline(j)
      BY <1>2 DEF Ensured
    <2>2. /\ j \in Cluster /\ j.chaos = k8s.chaos /\ j.load = k8s.load
          /\ ~flaky => j.cpu = "base"
      <3>1. CASE (flaky \/ k8s.cpu = "base") /\ j = k8s
        BY <3>1
      <3>2. CASE j = [k8s EXCEPT !.cpu = "base"]
        BY <3>2 DEF Cluster
      <3>3. CASE j = [k8s EXCEPT !.cpu = "base", !.cpuTemplate = "base"]
        <4>1. [k8s EXCEPT !.cpu = "base"] \in Cluster
          BY ClusterTypes
        <4>2. j = [[k8s EXCEPT !.cpu = "base"] EXCEPT !.cpuTemplate = "base"]
          BY <3>3
        <4>3. j \in Cluster
          BY <4>1, <4>2, ClusterTypes
        <4>4. QED
          BY <3>3, <4>3 DEF Cluster
      <3>4. QED
        BY <2>1, <3>1, <3>2, <3>3 DEF Tried, ensure_cpu_throttle_baseline
    <2>3. /\ k \in Cluster /\ k.chaos = k8s.chaos /\ k.load = k8s.load
          /\ ~flaky => /\ k.cpu = "base" \/ k.cpuTemplate = "raised"
                       /\ run.live => k.probes = "tight"
      <3>1. CASE (flaky \/ ~run.live \/ j.probes # "loose") /\ k = j
        BY <2>2, <3>1, ClusterFields
      <3>2. CASE k = Rolled([j EXCEPT !.probes = "tight"])
        <4>1. /\ k \in Cluster /\ k.chaos = j.chaos /\ k.load = j.load
              /\ k.cpu = j.cpuTemplate /\ k.cpuTemplate = j.cpuTemplate
              /\ k.probes = "tight"
          BY <2>2, <3>2, RolledCluster
        <4>2. j.cpuTemplate \in {"base", "raised"}
          BY <2>2, ClusterFields
        <4>3. QED
          BY <2>2, <4>1, <4>2
      <3>3. QED
        BY <2>1, <3>1, <3>2 DEF Tried, ensure_cpu_throttle_probe_baseline
    <2>4. QED
      BY <1>2, <2>3 DEF BaselineOf
  <1>3. CASE run.class = "init-failure"
    <2>1. PICK j \in Tried(k8s, [k8s EXCEPT !.payment = "base"]) :
            k \in Tried(j, [j EXCEPT !.recovering = FALSE])
      BY <1>3 DEF Ensured, ensure_init_failure_baseline
    <2>2. /\ j \in Cluster /\ j.chaos = k8s.chaos /\ j.load = k8s.load
          /\ ~flaky => j.payment = "base"
      <3>1. CASE flaky /\ j = k8s
        BY <3>1
      <3>2. CASE j = [k8s EXCEPT !.payment = "base"]
        BY <3>2 DEF Cluster
      <3>3. QED
        BY <2>1, <3>1, <3>2 DEF Tried
    <2>3. /\ k \in Cluster /\ k.chaos = k8s.chaos /\ k.load = k8s.load
          /\ ~flaky => k.payment = "base" /\ ~k.recovering
      <3>1. CASE flaky /\ k = j
        BY <2>2, <3>1
      <3>2. CASE k = [j EXCEPT !.recovering = FALSE]
        BY ZenonT(60), <2>2, <3>2 DEF Cluster
      <3>3. QED
        BY <2>1, <3>1, <3>2 DEF Tried
    <2>4. QED
      BY <1>3, <2>3 DEF BaselineOf
  <1>4. CASE run.class = "bad-rollout"
    <2>1. k \in Tried(k8s, [k8s EXCEPT !.image = "base"])
      BY <1>4 DEF Ensured, ensure_front_end_image_baseline
    <2>2. CASE flaky /\ k = k8s
      BY <2>2 DEF BaselineOf
    <2>3. CASE k = [k8s EXCEPT !.image = "base"]
      BY <1>4, <2>3 DEF BaselineOf, Cluster
    <2>4. QED
      BY <2>1, <2>2, <2>3 DEF Tried
  <1>5. CASE run.class = "session-cart-failure"
    <2>1. \/ k \in Tried(k8s, [k8s EXCEPT !.session = 1])
          \/ AfterRaise /\ k = k8s
      <3>1. k \in ensure_session_failure_baseline(k8s)
        BY <1>5 DEF Ensured
      <3>2. QED
        BY <3>1, Zenon DEF ensure_session_failure_baseline
    <2>2. CASE (flaky \/ AfterRaise) /\ k = k8s
      BY <1>5, <2>2 DEF BaselineOf
    <2>3. CASE k = [k8s EXCEPT !.session = 1]
      BY <1>5, <2>3 DEF BaselineOf, Cluster
    <2>4. QED
      BY <2>1, <2>2, <2>3 DEF Tried
  <1>6. CASE run.class = "disk-full"
    <2>1. k \in Tried(k8s, [k8s EXCEPT !.deadPods = FALSE])
      BY <1>6 DEF Ensured, ensure_queue_master_pod_cleanup
    <2>2. CASE flaky /\ k = k8s
      BY <2>2 DEF BaselineOf
    <2>3. CASE k = [k8s EXCEPT !.deadPods = FALSE]
      BY <1>6, <2>3 DEF BaselineOf, Cluster
    <2>4. QED
      BY <2>1, <2>2, <2>3 DEF Tried
  <1>7. CASE run.class = "memory-leak"
    <2>1. k \in Tried(k8s, [k8s EXCEPT !.leak = FALSE])
      BY <1>7 DEF Ensured, ensure_memory_leak_baseline
    <2>2. CASE flaky /\ k = k8s
      BY <2>2 DEF BaselineOf
    <2>3. CASE k = [k8s EXCEPT !.leak = FALSE]
      BY <1>7, <2>3 DEF BaselineOf, Cluster
    <2>4. QED
      BY <2>1, <2>2, <2>3 DEF Tried
  <1>8. CASE run.class \notin {"oom", "under-provisioned-replicas", "cpu-throttling", "init-failure",
                             "bad-rollout", "session-cart-failure", "disk-full", "memory-leak"}
    <2>1. k = k8s
      BY <1>8 DEF Ensured
    <2>2. QED
      BY <1>8, <2>1 DEF BaselineOf
  <1>9. QED
    BY <1>1, <1>2, <1>3, <1>4, <1>5, <1>6, <1>7, <1>8

\* All of Healthy but the types.
Sound ==
    /\ Course /\ SeenIsThere /\ RecordedIsReal /\ EvidenceIsKept
    /\ StopEndsRetries /\ StopIsSeen /\ Leftovers /\ TidyEnd /\ CleanStart

USE InjectorAssumption
    DEF Healthy, InjectorInv, TypeOK, Sound, Course, SeenIsThere,
        RecordedIsReal, EvidenceIsKept, StopEndsRetries, StopIsSeen,
        Leftovers, TidyEnd, CleanStart, Faulted, FAULT_CONFIG,
        Mine, At, Network, Configured, AfterRaise

LEMMA EnsureCrashLoopStep ==
    ASSUME Healthy, EnsureCrashLoop
    PROVE  Healthy'
  <1>a. /\ At("crash-loop", "baseline")
        /\ UNCHANGED <<rows, ended, lock, stop, evidence, flaky>>
    BY DEF EnsureCrashLoop
  <1> USE DEF Tried
  <1>1. ASSUME run' = Goto("inject"), k8s'.selector = "carts",
               k8s' \in {k8s, [k8s EXCEPT !.selector = "carts"]}
        PROVE  Healthy'
    <2>1. [k8s EXCEPT !.selector = "carts"] \in Cluster
      BY ClusterTypes, ClusterPairs, ClusterFields
    <2>2. TypeOK'
      BY <1>a, <1>1, <2>1, Moves
    <2>3. Sound'
      BY <1>a, <1>1, SMTT(60) DEF Goto, Process, Cluster
    <2>4. QED
      BY <2>2, <2>3, Zenon
  <1>2. ASSUME run' = Nameless, k8s' \in {k8s, [k8s EXCEPT !.selector = "carts"]}
        PROVE  Healthy'
    <2>1. [k8s EXCEPT !.selector = "carts"] \in Cluster
      BY ClusterTypes, ClusterPairs, ClusterFields
    <2>2. TypeOK'
      BY <1>a, <1>2, <2>1, Moves
    <2>3. Sound'
      BY <1>a, <1>2, SMTT(60) DEF Nameless, Process, Cluster
    <2>4. QED
      BY <2>2, <2>3, Zenon
  <1>3. QED
    BY <1>1, <1>2, Zenon DEF EnsureCrashLoop

LEMMA run_crash_loop_injectionStep ==
    ASSUME Healthy, run_crash_loop_injection
    PROVE  Healthy'
  <1>a. /\ At("crash-loop", "inject")
        /\ UNCHANGED <<k8s, rows, ended, lock, stop, evidence, flaky>>
    BY DEF run_crash_loop_injection
  <1>1. ASSUME run' = RaisedOutside
        PROVE  Healthy'
    <2>1. TypeOK'
      BY <1>a, <1>1, Moves
    <2>2. Sound'
      BY <1>a, <1>1, SMTT(60) DEF RaisedOutside, Process, Cluster
    <2>3. QED
      BY <2>1, <2>2, Zenon
  <1>2. ASSUME NEW landed \in BOOLEAN,
               run' = [run EXCEPT !.pc = "verify", !.landed = landed, !.interrupted = stop]
        PROVE  Healthy'
    <2>1. TypeOK'
      BY <1>a, <1>2, ProcessPairs
    <2>2. Sound'
      BY <1>a, <1>2, SMTT(60) DEF Process, Cluster
    <2>3. QED
      BY <2>1, <2>2, Zenon
  <1>3. QED
    BY <1>1, <1>2, Zenon DEF run_crash_loop_injection

LEMMA verify_crash_loop_effectStep ==
    ASSUME Healthy, verify_crash_loop_effect
    PROVE  Healthy'
  <1>a. /\ At("crash-loop", "verify")
        /\ UNCHANGED <<k8s, rows, ended, lock, stop, evidence, flaky>>
    BY DEF verify_crash_loop_effect
  <1>1. ASSUME run' = RaisedOutside
        PROVE  Healthy'
    <2>1. TypeOK'
      BY <1>a, <1>1, Moves
    <2>2. Sound'
      BY <1>a, <1>1, SMTT(60) DEF RaisedOutside, Process, Cluster
    <2>3. QED
      BY <2>1, <2>2, Zenon
  <1>2. ASSUME run.landed, run' = Named
        PROVE  Healthy'
    <2>1. TypeOK'
      BY <1>a, <1>2, Moves
    <2>2. Sound'
      BY <1>a, <1>2, SMTT(60) DEF Named, Process, Cluster
    <2>3. QED
      BY <2>1, <2>2, Zenon
  <1>3. ASSUME run' = Decide
        PROVE  Healthy'
    <2>1. TypeOK'
      BY <1>a, <1>3, Moves, Retries DEF Decide
    <2>2. Sound'
      BY <1>a, <1>3, SMTT(60) DEF Decide, Named, NextAttempt, Nameless, Process, Cluster
    <2>3. QED
      BY <2>1, <2>2, Zenon
  <1>4. QED
    BY <1>1, <1>2, <1>3, Zenon DEF verify_crash_loop_effect

LEMMA run_disk_full_injectionStep ==
    ASSUME Healthy, run_disk_full_injection
    PROVE  Healthy'
  <1>a. /\ At("disk-full", "inject")
        /\ UNCHANGED <<rows, ended, lock, stop, evidence, flaky>>
    BY DEF run_disk_full_injection
  <1>1. ASSUME flaky, run' = Nameless, UNCHANGED k8s
        PROVE  Healthy'
    <2>1. TypeOK'
      BY <1>a, <1>1, Moves
    <2>2. Sound'
      BY <1>a, <1>1, SMTT(60) DEF Nameless, Process, Cluster
    <2>3. QED
      BY <2>1, <2>2, Zenon
  <1>2. ASSUME NEW landed \in BOOLEAN, run' = Injected("verify", landed),
               k8s' = [k8s EXCEPT !.fill = ~landed, !.deadPods = landed]
        PROVE  Healthy'
    <2>1. [k8s EXCEPT !.fill = ~landed, !.deadPods = landed] \in Cluster
      BY ClusterTypes, ClusterPairs, ClusterFields
    <2>2. TypeOK'
      BY <1>a, <1>2, <2>1, Moves
    <2>3. Sound'
      BY <1>a, <1>2, SMTT(60) DEF Injected, Process, Cluster
    <2>4. QED
      BY <2>2, <2>3, Zenon
  <1>3. ASSUME NEW landed \in BOOLEAN,
               run' = [run EXCEPT !.pc = "exit", !.landed = landed, !.raised = TRUE],
               k8s' = [k8s EXCEPT !.fill = ~landed, !.deadPods = landed]
        PROVE  Healthy'
    <2>1. [k8s EXCEPT !.fill = ~landed, !.deadPods = landed] \in Cluster
      BY ClusterTypes, ClusterPairs, ClusterFields
    <2>2. TypeOK'
      BY <1>a, <1>3, <2>1, ProcessPairs
    <2>3. Sound'
      BY <1>a, <1>3, SMTT(60) DEF Process, Cluster
    <2>4. QED
      BY <2>2, <2>3, Zenon
  <1>4. QED
    BY <1>1, <1>2, <1>3, Zenon DEF run_disk_full_injection, current_pod_name

LEMMA verify_disk_full_effectStep ==
    ASSUME Healthy, verify_disk_full_effect
    PROVE  Healthy'
  <1>a. /\ At("disk-full", "verify")
        /\ UNCHANGED <<k8s, rows, ended, lock, stop, evidence, flaky>>
    BY DEF verify_disk_full_effect
  <1>1. ASSUME run' = Judged(FALSE)
        PROVE  Healthy'
    <2>1. TypeOK'
      BY <1>a, <1>1, Moves, ProcessFields
    <2>2. Sound'
      BY <1>a, <1>1, SMTT(60) DEF Judged, Process, Cluster
    <2>3. QED
      BY <2>1, <2>2, Zenon
  <1>2. ASSUME run' = Judged(run.landed)
        PROVE  Healthy'
    <2>1. TypeOK'
      BY <1>a, <1>2, Moves, ProcessFields
    <2>2. Sound'
      BY <1>a, <1>2, SMTT(60) DEF Judged, Process, Cluster
    <2>3. QED
      BY <2>1, <2>2, Zenon
  <1>3. ASSUME run' = RaisedInTry
        PROVE  Healthy'
    <2>1. TypeOK'
      BY <1>a, <1>3, Moves
    <2>2. Sound'
      BY <1>a, <1>3, SMTT(60) DEF RaisedInTry, Process, Cluster
    <2>3. QED
      BY <2>1, <2>2, Zenon
  <1>4. QED
    BY <1>1, <1>2, <1>3, Zenon DEF verify_disk_full_effect

LEMMA cleanup_disk_full_filesStep ==
    ASSUME Healthy, cleanup_disk_full_files
    PROVE  Healthy'
  <1> USE DEF cleanup_disk_full_files, Tried, write_evidence_file_once
  <1>1. [k8s EXCEPT !.fill = FALSE] \in Cluster
    BY ClusterTypes, ClusterPairs, ClusterFields
  <1>2. TypeOK'
    BY <1>1, Moves, Retries DEF DecideRegardless
  <1>3. Sound'
    BY SMTT(60) DEF Goto, DecideRegardless, Named, NextAttempt, Nameless, Process, Cluster
  <1>4. QED
    BY <1>2, <1>3, Zenon

LEMMA inject_network_latencyStep ==
    ASSUME Healthy, inject_network_latency
    PROVE  Healthy'
  <1>a. /\ At("network-latency", "inject")
        /\ UNCHANGED <<rows, ended, lock, stop, evidence, flaky>>
    BY DEF inject_network_latency
  <1>1. ASSUME flaky, run' = RaisedOutside, UNCHANGED k8s
        PROVE  Healthy'
    <2>1. TypeOK'
      BY <1>a, <1>1, Moves
    <2>2. Sound'
      BY <1>a, <1>1, SMTT(60) DEF RaisedOutside, Process, Cluster
    <2>3. QED
      BY <2>1, <2>2, Zenon
  <1>2. ASSUME NEW landed \in BOOLEAN, NEW ms \in probe_orders_latency_ms,
               k8s' = [k8s EXCEPT !.chaos = k8s.chaos \cup {Mine}],
               run' = [run EXCEPT !.pc = "hold", !.landed = landed, !.blind = ms = 0]
        PROVE  Healthy'
    <2>1. [k8s EXCEPT !.chaos = k8s.chaos \cup {Mine}] \in Cluster
      BY <1>a, ClusterTypes, ClusterPairs, ClusterFields, Resources
    <2>2. TypeOK'
      BY <1>a, <1>2, <2>1, ProcessPairs
    <2>3. Sound'
      BY <1>a, <1>2, SMTT(60) DEF probe_orders_latency_ms, Process, Cluster
    <2>4. QED
      BY <2>2, <2>3, Zenon
  <1>3. PICK ms \in probe_orders_latency_ms, landed \in BOOLEAN :
          \/ flaky /\ run' = RaisedOutside /\ UNCHANGED k8s
          \/ /\ k8s' = [k8s EXCEPT !.chaos = k8s.chaos \cup {Mine}]
             /\ run' = [run EXCEPT !.pc = "hold", !.landed = landed, !.blind = ms = 0]
    BY LatencyReadings
  <1>4. CASE flaky /\ run' = RaisedOutside /\ UNCHANGED k8s
    BY <1>1, <1>4
  <1>5. QED
    BY <1>2, <1>3, <1>4, ZenonT(60)

LEMMA inject_network_partitionStep ==
    ASSUME Healthy, inject_network_partition
    PROVE  Healthy'
  <1>a. /\ At("network-partition", "inject")
        /\ UNCHANGED <<rows, ended, lock, stop, evidence, flaky>>
    BY DEF inject_network_partition
  <1> USE DEF apply_manifest
  <1>1. ASSUME flaky, run' = RaisedOutside, UNCHANGED k8s
        PROVE  Healthy'
    <2>1. TypeOK'
      BY <1>a, <1>1, Moves
    <2>2. Sound'
      BY <1>a, <1>1, SMTT(60) DEF RaisedOutside, Process, Cluster
    <2>3. QED
      BY <2>1, <2>2, Zenon
  <1>2. ASSUME NEW landed \in BOOLEAN,
               k8s' = [k8s EXCEPT !.chaos = k8s.chaos \cup {Mine}],
               run' = Injected("hold", landed)
        PROVE  Healthy'
    <2>1. [k8s EXCEPT !.chaos = k8s.chaos \cup {Mine}] \in Cluster
      BY <1>a, ClusterTypes, ClusterPairs, ClusterFields, Resources
    <2>2. TypeOK'
      BY <1>a, <1>2, <2>1, Moves
    <2>3. Sound'
      BY <1>a, <1>2, SMTT(60) DEF Injected, Process, Cluster
    <2>4. QED
      BY <2>2, <2>3, Zenon
  <1>3. QED
    BY <1>1, <1>2, Zenon DEF inject_network_partition

LEMMA persist_network_probeStep ==
    ASSUME Healthy, persist_network_probe
    PROVE  Healthy'
  <1> USE DEF persist_network_probe, LatencyRise, Partitioned,
              probe_frontend_connectivity, write_evidence_file_once, PendingRow
  <1>1. TypeOK'
    BY ProcessTypes
  <1>2. Sound'
    BY SMTT(60) DEF Process, Cluster
  <1>3. QED
    BY <1>1, <1>2, Zenon

LEMMA EndNetworkHoldStep ==
    ASSUME Healthy, EndNetworkHold
    PROVE  Healthy'
  <1>a. /\ run.class \in Network /\ run.pc = "hold"
        /\ UNCHANGED <<k8s, rows, ended, lock, stop, evidence, flaky>>
    BY DEF EndNetworkHold
  <1>1. ASSUME stop => run.stopAt = run.attempt, run' = Goto("cleanup")
        PROVE  Healthy'
    <2>1. TypeOK'
      BY <1>a, <1>1, Moves
    <2>2. Sound'
      BY <1>a, <1>1, SMTT(60) DEF Goto, Process, Cluster
    <2>3. QED
      BY <2>1, <2>2, Zenon
  <1>2. ASSUME run' = StoppedEarly
        PROVE  Healthy'
    <2>1. TypeOK'
      BY <1>a, <1>2, Moves
    <2>2. Sound'
      BY <1>a, <1>2, SMTT(60) DEF StoppedEarly, Process, Cluster
    <2>3. QED
      BY <2>1, <2>2, Zenon
  <1>3. ASSUME run' = RaisedInTry
        PROVE  Healthy'
    <2>1. TypeOK'
      BY <1>a, <1>3, Moves
    <2>2. Sound'
      BY <1>a, <1>3, SMTT(60) DEF RaisedInTry, Process, Cluster
    <2>3. QED
      BY <2>1, <2>2, Zenon
  <1>4. QED
    BY <1>1, <1>2, <1>3, Zenon DEF EndNetworkHold

LEMMA CleanNetworkStep ==
    ASSUME Healthy, CleanNetwork
    PROVE  Healthy'
  <1> USE DEF CleanNetwork, delete_chaos_resource, Tried
  <1>1. [k8s EXCEPT !.chaos = k8s.chaos \ {Mine}] \in Cluster
    BY ClusterTypes, ClusterPairs, ClusterFields, Resources
  <1>2. TypeOK'
    BY <1>1, Moves, Retries DEF Decide, DecideRegardless
  <1>3. Sound'
    BY SMTT(60) DEF Goto, Decide, DecideRegardless, Named, NextAttempt, Nameless, Process,
           Cluster
  <1>4. QED
    BY <1>2, <1>3, Zenon

LEMMA capture_memory_leak_baselineStep ==
    ASSUME Healthy, capture_memory_leak_baseline
    PROVE  Healthy'
  <1>a. /\ At("memory-leak", "inject")
        /\ UNCHANGED <<k8s, ended, lock, stop, evidence, flaky>>
    BY DEF capture_memory_leak_baseline
  <1> USE DEF PendingRow
  <1>1. ASSUME run' = Nameless, UNCHANGED rows
        PROVE  Healthy'
    <2>1. TypeOK'
      BY <1>a, <1>1, Moves
    <2>2. Sound'
      BY <1>a, <1>1, SMTT(60) DEF Nameless, Process, Cluster
    <2>3. QED
      BY <2>1, <2>2, Zenon
  <1>2. ASSUME run' = Nameless, PendingRow
        PROVE  Healthy'
    <2>1. TypeOK'
      BY <1>a, <1>2, Moves
    <2>2. Sound'
      BY <1>a, <1>2, SMTT(60) DEF Nameless, Process, Cluster
    <2>3. QED
      BY <2>1, <2>2, Zenon
  <1>3. ASSUME run' = Goto("ramp"), PendingRow
        PROVE  Healthy'
    <2>1. TypeOK'
      BY <1>a, <1>3, Moves
    <2>2. Sound'
      BY <1>a, <1>3, SMTT(60) DEF Goto, Process, Cluster
    <2>3. QED
      BY <2>1, <2>2, Zenon
  <1>4. QED
    BY <1>1, <1>2, <1>3, Zenon DEF capture_memory_leak_baseline

LEMMA leak_agent_send_cmdStep ==
    ASSUME Healthy, leak_agent_send_cmd
    PROVE  Healthy'
  <1>a. /\ At("memory-leak", "ramp")
        /\ UNCHANGED <<rows, ended, lock, stop, evidence, flaky>>
    BY DEF leak_agent_send_cmd
  <1>1. ASSUME flaky, run' = Nameless, UNCHANGED k8s
        PROVE  Healthy'
    <2>1. TypeOK'
      BY <1>a, <1>1, Moves
    <2>2. Sound'
      BY <1>a, <1>1, SMTT(60) DEF Nameless, Process, Cluster
    <2>3. QED
      BY <2>1, <2>2, Zenon
  <1>2. ASSUME NEW leak \in BOOLEAN, k8s' = [k8s EXCEPT !.leak = leak],
               run' = Nameless
        PROVE  Healthy'
    <2>1. [k8s EXCEPT !.leak = leak] \in Cluster
      BY ClusterTypes, ClusterPairs, ClusterFields
    <2>2. TypeOK'
      BY <1>a, <1>2, <2>1, Moves
    <2>3. Sound'
      BY <1>a, <1>2, SMTT(60) DEF Nameless, Process, Cluster
    <2>4. QED
      BY <2>2, <2>3, Zenon
  <1>3. ASSUME NEW leak \in BOOLEAN, leak, k8s' = [k8s EXCEPT !.leak = leak],
               run' = Injected("load", TRUE)
        PROVE  Healthy'
    <2>1. [k8s EXCEPT !.leak = leak] \in Cluster
      BY ClusterTypes, ClusterPairs, ClusterFields
    <2>2. TypeOK'
      BY <1>a, <1>3, <2>1, Moves
    <2>3. Sound'
      BY <1>a, <1>3, SMTT(60) DEF Injected, Process, Cluster
    <2>4. QED
      BY <2>2, <2>3, Zenon
  <1>4. QED
    BY <1>1, <1>2, <1>3, Zenon DEF leak_agent_send_cmd

LEMMA StartMemoryLeakLoadStep ==
    ASSUME Healthy, StartMemoryLeakLoad
    PROVE  Healthy'
  <1>a. /\ At("memory-leak", "load")
        /\ UNCHANGED <<rows, ended, lock, stop, flaky>>
    BY DEF StartMemoryLeakLoad
  <1> USE DEF Tried, write_evidence_file_once
  <1>1. ASSUME flaky, k8s' \in Tried(k8s, [k8s EXCEPT !.leak = FALSE]),
               run' = Nameless, UNCHANGED evidence
        PROVE  Healthy'
    <2>1. [k8s EXCEPT !.leak = FALSE] \in Cluster
      BY ClusterTypes, ClusterPairs, ClusterFields
    <2>2. TypeOK'
      BY <1>a, <1>1, <2>1, Moves
    <2>3. Sound'
      BY <1>a, <1>1, SMTT(60) DEF Nameless, Process, Cluster
    <2>4. QED
      BY <2>2, <2>3, Zenon
  <1>2. ASSUME k8s' = [k8s EXCEPT !.load = k8s.load \cup {Mine}],
               run' = Goto("hold"), write_evidence_file_once
        PROVE  Healthy'
    <2>1. [k8s EXCEPT !.load = k8s.load \cup {Mine}] \in Cluster
      BY <1>a, ClusterTypes, ClusterPairs, ClusterFields, Resources
    <2>2. TypeOK'
      BY <1>a, <1>2, <2>1, Moves
    <2>3. Sound'
      BY <1>a, <1>2, SMTT(60) DEF Goto, Process, Cluster
    <2>4. QED
      BY <2>2, <2>3, Zenon
  <1>3. ASSUME k8s' = [k8s EXCEPT !.load = k8s.load \cup {Mine}],
               run' = RaisedOutside, write_evidence_file_once
        PROVE  Healthy'
    <2>1. [k8s EXCEPT !.load = k8s.load \cup {Mine}] \in Cluster
      BY <1>a, ClusterTypes, ClusterPairs, ClusterFields, Resources
    <2>2. TypeOK'
      BY <1>a, <1>3, <2>1, Moves
    <2>3. Sound'
      BY <1>a, <1>3, SMTT(60) DEF RaisedOutside, Process, Cluster
    <2>4. QED
      BY <2>2, <2>3, Zenon
  <1>4. QED
    BY <1>1, <1>2, <1>3, Zenon DEF StartMemoryLeakLoad, launch_checkout_load_burst

LEMMA HoldMemoryLeakStep ==
    ASSUME Healthy, HoldMemoryLeak
    PROVE  Healthy'
  <1>a. /\ At("memory-leak", "hold")
        /\ UNCHANGED <<k8s, rows, ended, lock, stop, evidence, flaky>>
    BY DEF HoldMemoryLeak
  <1>1. ASSUME run' = Goto("cleanup")
        PROVE  Healthy'
    <2>1. TypeOK'
      BY <1>a, <1>1, Moves
    <2>2. Sound'
      BY <1>a, <1>1, SMTT(60) DEF Goto, Process, Cluster
    <2>3. QED
      BY <2>1, <2>2, Zenon
  <1>2. ASSUME run' = StoppedEarly
        PROVE  Healthy'
    <2>1. TypeOK'
      BY <1>a, <1>2, Moves
    <2>2. Sound'
      BY <1>a, <1>2, SMTT(60) DEF StoppedEarly, Process, Cluster
    <2>3. QED
      BY <2>1, <2>2, Zenon
  <1>3. ASSUME run' = [run EXCEPT !.pc = "cleanup", !.restarted = TRUE]
        PROVE  Healthy'
    <2>1. TypeOK'
      BY <1>a, <1>3, ProcessPairs
    <2>2. Sound'
      BY <1>a, <1>3, SMTT(60) DEF Process, Cluster
    <2>3. QED
      BY <2>1, <2>2, Zenon
  <1>4. ASSUME run' = RaisedInTry
        PROVE  Healthy'
    <2>1. TypeOK'
      BY <1>a, <1>4, Moves
    <2>2. Sound'
      BY <1>a, <1>4, SMTT(60) DEF RaisedInTry, Process, Cluster
    <2>3. QED
      BY <2>1, <2>2, Zenon
  <1>5. QED
    BY <1>1, <1>2, <1>3, <1>4, Zenon DEF HoldMemoryLeak

LEMMA CleanMemoryLeakStep ==
    ASSUME Healthy, CleanMemoryLeak
    PROVE  Healthy'
  <1>a. /\ At("memory-leak", "cleanup")
        /\ run' = IF run.raised THEN Goto("exit")
                  ELSE IF run.restarted THEN Nameless
                  ELSE Named
        /\ UNCHANGED <<rows, ended, lock, stop, evidence, flaky>>
    BY DEF CleanMemoryLeak
  <1>1. PICK load \in Tried(k8s.load, k8s.load \ {Mine}), leak \in Tried(k8s.leak, FALSE) :
            k8s' = [k8s EXCEPT !.load = load, !.leak = leak]
    BY DEF CleanMemoryLeak
  <1>2. load \in SUBSET (Runs \X FaultClasses) /\ leak \in BOOLEAN
    BY ZenonT(60), <1>a, <1>1, Resources, ClusterFields DEF Tried
  <1>3. ~flaky => load = k8s.load \ {Mine} /\ ~leak
    BY <1>1 DEF Tried
  <1>4. load \subseteq k8s.load
    BY <1>1 DEF Tried
  <1>5. TypeOK'
    BY <1>a, <1>1, <1>2, Moves, ClusterPairs
  <1>6. Sound'
    <2>1. Course' /\ RecordedIsReal' /\ EvidenceIsKept' /\ StopEndsRetries' /\ StopIsSeen'
      BY <1>a, SMTT(60) DEF Goto, Named, Nameless, Process
    <2>2. SeenIsThere'
      BY <1>a, <1>1, SMTT(60) DEF Goto, Named, Nameless, Process, Cluster
    <2>3. Leftovers' /\ TidyEnd' /\ CleanStart'
      BY <1>a, <1>1, <1>2, <1>3, <1>4, SMTT(60) DEF Goto, Named, Nameless, Process, Cluster
    <2>4. QED
      BY <2>1, <2>2, <2>3, Zenon
  <1>7. QED
    BY <1>5, <1>6, Zenon

LEMMA flood_connectionsStep ==
    ASSUME Healthy, flood_connections
    PROVE  Healthy'
  <1>a. /\ At("connection-pool-exhaustion", "inject")
        /\ UNCHANGED <<rows, ended, lock, stop, evidence, flaky>>
    BY DEF flood_connections
  <1> USE DEF Tried, restart_catalogue_db_pod
  <1>1. ASSUME flaky, k8s' = [k8s EXCEPT !.flood = FALSE], run' = NextAttempt
        PROVE  Healthy'
    <2>1. [k8s EXCEPT !.flood = FALSE] \in Cluster
      BY ClusterTypes, ClusterPairs, ClusterFields
    <2>2. TypeOK'
      BY <1>a, <1>1, <2>1, Moves, Retries
    <2>3. Sound'
      BY <1>a, <1>1, SMTT(60) DEF NextAttempt, Nameless, Process, Cluster
    <2>4. QED
      BY <2>2, <2>3, Zenon
  <1>2. ASSUME flaky, k8s' \in Tried(k8s, [k8s EXCEPT !.flood = TRUE]),
               run' = RaisedOutside
        PROVE  Healthy'
    <2>1. [k8s EXCEPT !.flood = TRUE] \in Cluster
      BY ClusterTypes, ClusterPairs, ClusterFields
    <2>2. TypeOK'
      BY <1>a, <1>2, <2>1, Moves
    <2>3. Sound'
      BY <1>a, <1>2, SMTT(60) DEF RaisedOutside, Process, Cluster
    <2>4. QED
      BY <2>2, <2>3, Zenon
  <1>3. ASSUME NEW landed \in BOOLEAN, k8s' = [k8s EXCEPT !.flood = TRUE],
               run' = Injected("verify", landed)
        PROVE  Healthy'
    <2>1. [k8s EXCEPT !.flood = TRUE] \in Cluster
      BY ClusterTypes, ClusterPairs, ClusterFields
    <2>2. TypeOK'
      BY <1>a, <1>3, <2>1, Moves
    <2>3. Sound'
      BY <1>a, <1>3, SMTT(60) DEF Injected, Process, Cluster
    <2>4. QED
      BY <2>2, <2>3, Zenon
  <1>4. QED
    BY <1>1, <1>2, <1>3, Zenon DEF flood_connections

LEMMA test_connection_failsStep ==
    ASSUME Healthy, test_connection_fails
    PROVE  Healthy'
  <1>a. /\ At("connection-pool-exhaustion", "verify")
        /\ UNCHANGED <<k8s, rows, ended, lock, stop, flaky>>
    BY DEF test_connection_fails
  <1> USE DEF write_evidence_file_once
  <1>1. ASSUME run' = RaisedInTry, UNCHANGED evidence
        PROVE  Healthy'
    <2>1. TypeOK'
      BY <1>a, <1>1, Moves
    <2>2. Sound'
      BY <1>a, <1>1, SMTT(60) DEF RaisedInTry, Process, Cluster
    <2>3. QED
      BY <2>1, <2>2, Zenon
  <1>2. ASSUME run' = Judged(FALSE), UNCHANGED evidence
        PROVE  Healthy'
    <2>1. TypeOK'
      BY <1>a, <1>2, Moves, ProcessFields, ClusterFields
    <2>2. Sound'
      BY <1>a, <1>2, SMTT(60) DEF Judged, Process, Cluster
    <2>3. QED
      BY <2>1, <2>2, Zenon
  <1>3. ASSUME run' = Judged(run.landed),
               IF run.landed THEN write_evidence_file_once ELSE UNCHANGED evidence
        PROVE  Healthy'
    <2>1. TypeOK'
      BY <1>a, <1>3, Moves, ProcessFields, ClusterFields
    <2>2. Sound'
      BY <1>a, <1>3, SMTT(60) DEF Judged, Process, Cluster
    <2>3. QED
      BY <2>1, <2>2, Zenon
  <1>4. QED
    BY <1>1, <1>2, <1>3, Zenon DEF test_connection_fails

LEMMA cleanup_connection_floodStep ==
    ASSUME Healthy, cleanup_connection_flood
    PROVE  Healthy'
  <1> USE DEF cleanup_connection_flood, Tried
  <1>1. [k8s EXCEPT !.flood = FALSE] \in Cluster
    BY ClusterTypes, ClusterPairs, ClusterFields
  <1>2. TypeOK'
    BY <1>1, Moves, Retries DEF DecideRegardless
  <1>3. Sound'
    BY SMTT(60) DEF Goto, DecideRegardless, Named, NextAttempt, Nameless, Process, Cluster
  <1>4. QED
    BY <1>2, <1>3, Zenon

LEMMA InjectConfigStep ==
    ASSUME Healthy, InjectConfig
    PROVE  Healthy'
  <1>a. /\ run.class \in Configured /\ run.pc = "inject"
        /\ k8s' \in Tried(k8s, FaultPatch)
        /\ UNCHANGED <<rows, ended, lock, stop, evidence, flaky>>
    BY DEF InjectConfig
  <1> USE DEF Tried, FaultPatch
  <1>1. ASSUME NEW landed \in BOOLEAN, run' = Injected("verify", landed)
        PROVE  Healthy'
    <2>1. [k8s EXCEPT !.payment = "fault"] \in Cluster
      BY ClusterTypes, ClusterPairs, ClusterFields
    <2>2. [k8s EXCEPT !.session = 0] \in Cluster
      BY ClusterTypes, ClusterPairs, ClusterFields
    <2>3. [k8s EXCEPT !.image = "fault"] \in Cluster
      BY ClusterTypes, ClusterPairs, ClusterFields
    <2>4. TypeOK'
      BY <1>a, <1>1, <2>1, <2>2, <2>3, Moves
    <2>5. Sound'
      BY <1>a, <1>1, SMTT(60) DEF Injected, Process, Cluster
    <2>6. QED
      BY <2>4, <2>5, Zenon
  <1>2. QED
    BY <1>1, Zenon DEF InjectConfig

LEMMA VerifyConfigStep ==
    ASSUME Healthy, VerifyConfig
    PROVE  Healthy'
  <1>a. /\ run.class \in Configured /\ run.pc = "verify"
        /\ UNCHANGED <<k8s, rows, ended, lock, stop, flaky>>
    BY DEF VerifyConfig
  <1> USE DEF write_evidence_file_once, NotReadyAnyway
  <1>1. ASSUME run' = RaisedOutside, UNCHANGED evidence
        PROVE  Healthy'
    <2>1. TypeOK'
      BY <1>a, <1>1, Moves
    <2>2. Sound'
      BY <1>a, <1>1, SMTT(60) DEF RaisedOutside, Process, Cluster
    <2>3. QED
      BY <2>1, <2>2, Zenon
  <1>2. ASSUME run' = Judged(FALSE), UNCHANGED evidence
        PROVE  Healthy'
    <2>1. TypeOK'
      BY <1>a, <1>2, Moves, ProcessFields, ClusterFields
    <2>2. Sound'
      BY <1>a, <1>2, SMTT(60) DEF Judged, Process, Cluster
    <2>3. QED
      BY <2>1, <2>2, Zenon
  <1>3. ASSUME run' = Judged((run.landed \/ NotReadyAnyway)),
               IF (run.landed \/ NotReadyAnyway) THEN write_evidence_file_once ELSE UNCHANGED evidence
        PROVE  Healthy'
    <2>1. TypeOK'
      BY <1>a, <1>3, Moves, ProcessFields, ClusterFields
    <2>2. Sound'
      BY <1>a, <1>3, SMTT(60) DEF Judged, Process, Cluster
    <2>3. QED
      BY <2>1, <2>2, Zenon
  <1>4. QED
    BY <1>1, <1>2, <1>3, Zenon DEF VerifyConfig

LEMMA RestoreConfigStep ==
    ASSUME Healthy, RestoreConfig
    PROVE  Healthy'
  <1>a. /\ run.class \in Configured /\ run.pc = "cleanup"
        /\ k8s' \in RestorePatch
        /\ run' = DecideRegardless \/ (run.class = "session-cart-failure" /\ run' = RaisedOutside)
        /\ UNCHANGED <<rows, ended, lock, stop, evidence, flaky>>
    BY DEF RestoreConfig
  <1>b. run' \in Process
    BY <1>a, Moves, Retries DEF DecideRegardless
  <1>1. CASE run.class = "init-failure"
    <2>1. PICK j \in Tried(k8s, [k8s EXCEPT !.payment = "base"]) :
            k8s' \in Tried(j, [j EXCEPT !.recovering = StillRecovering])
      BY <1>a, <1>1, InitRestored
    <2>2. /\ j \in Cluster /\ j.chaos = k8s.chaos /\ j.load = k8s.load
          /\ ~flaky => j.payment = "base"
      <3>1. CASE flaky /\ j = k8s
        BY <3>1
      <3>2. CASE j = [k8s EXCEPT !.payment = "base"]
        BY <3>2 DEF Cluster
      <3>3. QED
        BY <2>1, <3>1, <3>2, Zenon DEF Tried
    <2>3. /\ k8s' \in Cluster /\ k8s'.chaos = k8s.chaos /\ k8s'.load = k8s.load
          /\ ~flaky => k8s'.payment = "base" /\ (k8s'.recovering <=> StillRecovering)
      <3>1. CASE flaky /\ k8s' = j
        BY <2>2, <3>1
      <3>2. CASE k8s' = [j EXCEPT !.recovering = StillRecovering]
        <4>1. StillRecovering \in BOOLEAN
          BY ProcessFields DEF StillRecovering
        <4>2. k8s' \in Cluster
          BY <2>2, <3>2, <4>1, ClusterTypes
        <4>3. /\ k8s'.chaos = j.chaos /\ k8s'.load = j.load /\ k8s'.payment = j.payment
              /\ k8s'.recovering = StillRecovering
          BY <2>2, <3>2 DEF Cluster
        <4>4. QED
          BY <2>2, <4>2, <4>3, Zenon
      <3>3. QED
        BY <2>1, <3>1, <3>2, Zenon DEF Tried
    <2>4. run' = DecideRegardless
      BY <1>a, <1>1
    <2>5. TypeOK'
      BY <1>a, <1>b, <2>3
    <2>6. Sound'
      BY <1>a, <1>1, <2>3, <2>4, SMTT(60)
         DEF DecideRegardless, Named, NextAttempt, Nameless, Process, StillRecovering
    <2>7. QED
      BY <2>5, <2>6, Zenon
  <1>2. CASE run.class = "session-cart-failure"
    <2>1. k8s' \in Tried(k8s, [k8s EXCEPT !.session = 1])
      BY <1>a, <1>2 DEF RestorePatch
    <2>2. TypeOK'
      <3>1. [k8s EXCEPT !.session = 1] \in Cluster
        BY ClusterTypes
      <3>2. QED
        BY <1>a, <1>b, <2>1, <3>1, Zenon DEF Tried
    <2>3. CASE run' = DecideRegardless
      <3>1. Sound'
        <4>1. CASE flaky /\ k8s' = k8s
          BY <1>a, <1>2, <2>3, <4>1, SMTT(60)
             DEF DecideRegardless, Named, NextAttempt, Nameless, Process
        <4>2. CASE k8s' = [k8s EXCEPT !.session = 1]
          BY <1>a, <1>2, <2>3, <4>2, SMTT(60)
             DEF DecideRegardless, Named, NextAttempt, Nameless, Process, Cluster
        <4>3. QED
          BY <2>1, <4>1, <4>2, Zenon DEF Tried
      <3>2. QED
        BY <2>2, <3>1, Zenon
    <2>4. CASE run' = RaisedOutside
      <3>1. Sound'
        BY <1>a, <1>2, <2>1, <2>4, SMTT(60) DEF Tried, RaisedOutside, Process, Cluster
      <3>2. QED
        BY <2>2, <3>1, Zenon
    <2>5. QED
      BY <1>a, <2>3, <2>4, Zenon
  <1>3. CASE run.class = "bad-rollout"
    <2>1. k8s' \in IF run.verified THEN {k8s} ELSE Tried(k8s, [k8s EXCEPT !.image = "base"])
      BY <1>a, <1>3 DEF RestorePatch
    <2>2. run' = DecideRegardless
      BY <1>a, <1>3
    <2>3. TypeOK'
      <3>1. [k8s EXCEPT !.image = "base"] \in Cluster
        BY ClusterTypes
      <3>2. QED
        BY <1>a, <1>b, <2>1, <3>1, Zenon DEF Tried
    <2>4. Sound'
      <3>1. CASE (flaky \/ run.verified) /\ k8s' = k8s
        BY <1>a, <1>3, <2>2, <3>1, SMTT(60)
           DEF DecideRegardless, Named, NextAttempt, Nameless, Process
      <3>2. CASE ~run.verified /\ k8s' = [k8s EXCEPT !.image = "base"]
        BY <1>a, <1>3, <2>2, <3>2, SMTT(60)
           DEF DecideRegardless, Named, NextAttempt, Nameless, Process, Cluster
      <3>3. QED
        BY <2>1, <3>1, <3>2, Zenon DEF Tried
    <2>5. QED
      BY <2>3, <2>4, Zenon
  <1>4. QED
    BY <1>a, <1>1, <1>2, <1>3, Zenon

LEMMA loosen_user_probes_for_faultStep ==
    ASSUME Healthy, loosen_user_probes_for_fault
    PROVE  Healthy'
  <1>a. /\ At("cpu-throttling", "inject") /\ run.live
        /\ UNCHANGED <<rows, ended, lock, stop, evidence, flaky>>
    BY DEF loosen_user_probes_for_fault
  <1> USE DEF Tried, wait_for_fresh_user_pod
  <1>r. /\ \A p \in {"tight", "loose"} :
              LET k == Rolled([k8s EXCEPT !.probes = p]) IN
              /\ k \in Cluster /\ k.chaos = k8s.chaos /\ k.load = k8s.load
              /\ k.cpu = k8s.cpuTemplate /\ k.cpuTemplate = k8s.cpuTemplate
              /\ k.probes = p
    BY RolledCluster
  <1>1. ASSUME flaky, k8s' \in Tried(k8s, Rolled([k8s EXCEPT !.probes = "tight"])),
               run' = Nameless
        PROVE  Healthy'
    <2>1. k8s' \in Cluster /\ k8s'.chaos = k8s.chaos /\ k8s'.load = k8s.load
      BY <1>1, <1>r
    <2>2. TypeOK'
      BY <1>a, <1>1, <2>1, Moves
    <2>3. Sound'
      BY <1>a, <1>1, <2>1, SMTT(60) DEF Nameless, Process
    <2>4. QED
      BY <2>2, <2>3, Zenon
  <1>2. ASSUME k8s' = Rolled([k8s EXCEPT !.probes = "loose"]), run' = Goto("load")
        PROVE  Healthy'
    <2>1. k8s' \in Cluster /\ k8s'.chaos = k8s.chaos /\ k8s'.load = k8s.load
      BY <1>2, <1>r
    <2>2. TypeOK'
      BY <1>a, <1>2, <2>1, Moves
    <2>3. Sound'
      BY <1>a, <1>2, <2>1, SMTT(60) DEF Goto, Process
    <2>4. QED
      BY <2>2, <2>3, Zenon
  <1>3. ASSUME flaky, k8s' = Rolled([k8s EXCEPT !.probes = "loose"]), run' = RaisedOutside
        PROVE  Healthy'
    <2>1. k8s' \in Cluster /\ k8s'.chaos = k8s.chaos /\ k8s'.load = k8s.load
      BY <1>3, <1>r
    <2>2. TypeOK'
      BY <1>a, <1>3, <2>1, Moves
    <2>3. Sound'
      BY <1>a, <1>3, <2>1, SMTT(60) DEF RaisedOutside, Process
    <2>4. QED
      BY <2>2, <2>3, Zenon
  <1>4. QED
    BY <1>1, <1>2, <1>3, Zenon DEF loosen_user_probes_for_fault, wait_for_fresh_user_pod

LEMMA InjectCpuLiveStep ==
    ASSUME Healthy, InjectCpuLive
    PROVE  Healthy'
  <1>a. /\ At("cpu-throttling", "load")
        /\ UNCHANGED <<rows, ended, lock, stop, evidence, flaky>>
    BY DEF InjectCpuLive
  <1>1. ASSUME run' = RaisedInTry, UNCHANGED k8s
        PROVE  Healthy'
    <2>1. TypeOK'
      BY <1>a, <1>1, Moves
    <2>2. Sound'
      BY <1>a, <1>1, SMTT(60) DEF RaisedInTry, Process, Cluster
    <2>3. QED
      BY <2>1, <2>2, Zenon
  <1>2. ASSUME NEW landed \in BOOLEAN,
               k8s' = [k8s EXCEPT !.chaos = k8s.chaos \cup {Mine}, !.load = k8s.load \cup {Mine}],
               run' = Injected("hold", landed)
        PROVE  Healthy'
    <2>1. [k8s EXCEPT !.chaos = k8s.chaos \cup {Mine}, !.load = k8s.load \cup {Mine}] \in Cluster
      BY <1>a, ClusterTypes, ClusterPairs, ClusterFields, Resources
    <2>2. TypeOK'
      BY <1>a, <1>2, <2>1, Moves
    <2>3. Sound'
      BY <1>a, <1>2, SMTT(60) DEF Injected, Process, Cluster
    <2>4. QED
      BY <2>2, <2>3, Zenon
  <1>3. QED
    BY <1>1, <1>2, Zenon DEF InjectCpuLive

LEMMA InjectCpuBatchStep ==
    ASSUME Healthy, InjectCpuBatch
    PROVE  Healthy'
  <1>a. /\ At("cpu-throttling", "inject") /\ ~run.live
        /\ UNCHANGED <<rows, ended, lock, stop, evidence, flaky>>
    BY DEF InjectCpuBatch
  <1> USE DEF apply_manifest
  <1>1. ASSUME run' = RaisedOutside, UNCHANGED k8s
        PROVE  Healthy'
    <2>1. TypeOK'
      BY <1>a, <1>1, Moves
    <2>2. Sound'
      BY <1>a, <1>1, SMTT(60) DEF RaisedOutside, Process, Cluster
    <2>3. QED
      BY <2>1, <2>2, Zenon
  <1>2. ASSUME NEW landed \in BOOLEAN,
               k8s' = [k8s EXCEPT !.chaos = k8s.chaos \cup {Mine}],
               run' = Injected("hold", landed)
        PROVE  Healthy'
    <2>1. [k8s EXCEPT !.chaos = k8s.chaos \cup {Mine}] \in Cluster
      BY <1>a, ClusterTypes, ClusterPairs, ClusterFields, Resources
    <2>2. TypeOK'
      BY <1>a, <1>2, <2>1, Moves
    <2>3. Sound'
      BY <1>a, <1>2, SMTT(60) DEF Injected, Process, Cluster
    <2>4. QED
      BY <2>2, <2>3, Zenon
  <1>3. QED
    BY <1>1, <1>2, Zenon DEF InjectCpuBatch

LEMMA ConfirmCpuThrottleStep ==
    ASSUME Healthy, ConfirmCpuThrottle
    PROVE  Healthy'
  <1> USE DEF ConfirmCpuThrottle, write_evidence_file_once
  <1>1. TypeOK'
    BY ProcessTypes
  <1>2. Sound'
    BY SMTT(60) DEF Process, Cluster
  <1>3. QED
    BY <1>1, <1>2, Zenon

LEMMA verify_cpu_throttle_effectStep ==
    ASSUME Healthy, verify_cpu_throttle_effect
    PROVE  Healthy'
  <1>a. /\ At("cpu-throttling", "hold")
        /\ UNCHANGED <<k8s, rows, ended, lock, stop, evidence, flaky>>
    BY DEF verify_cpu_throttle_effect
  <1>1. ASSUME run' = RaisedInTry
        PROVE  Healthy'
    <2>1. TypeOK'
      BY <1>a, <1>1, Moves
    <2>2. Sound'
      BY <1>a, <1>1, SMTT(60) DEF RaisedInTry, Process, Cluster
    <2>3. QED
      BY <2>1, <2>2, Zenon
  <1>2. ASSUME NEW seen \in {run.verified, run.verified \/ run.landed},
               NEW interrupted \in {FALSE, stop /\ run.live},
               run' = [run EXCEPT !.pc = "cleanup", !.verified = seen, !.interrupted = interrupted]
        PROVE  Healthy'
    <2>1. /\ seen \in BOOLEAN /\ interrupted \in BOOLEAN
          /\ seen => run.verified \/ run.landed
          /\ run.verified => seen
      BY <1>2, ProcessFields
    <2>2. TypeOK'
      BY <1>a, <1>2, <2>1, ProcessPairs
    <2>3. Sound'
      BY <1>a, <1>2, <2>1, SMTT(60) DEF Process, Cluster
    <2>4. QED
      BY <2>2, <2>3, Zenon
  <1>3. QED
    BY ZenonT(60), <1>1, <1>2, ThrottleReadings

LEMMA CleanCpuThrottleStep ==
    ASSUME Healthy, CleanCpuThrottle
    PROVE  Healthy'
  <1>a. /\ At("cpu-throttling", "cleanup")
        /\ run' = IF run.raised THEN Goto("exit")
                  ELSE IF run.live THEN (IF run.verified THEN Named ELSE Nameless)
                  ELSE Decide
        /\ UNCHANGED <<rows, ended, lock, stop, evidence, flaky>>
    BY DEF CleanCpuThrottle
  <1>1. PICK chaos \in Tried(k8s.chaos, k8s.chaos \ {Mine}) :
            IF run.live
            THEN \E load \in Tried(k8s.load, k8s.load \ {Mine}),
                    probes \in Tried(k8s.probes, "tight") :
                    k8s' = [k8s EXCEPT !.chaos = chaos, !.load = load, !.probes = probes]
            ELSE k8s' = [k8s EXCEPT !.chaos = chaos]
    BY DEF CleanCpuThrottle
  <1>2. chaos \in SUBSET (Runs \X FaultClasses)
    BY ZenonT(60), <1>a, <1>1, Resources DEF Tried
  <1>3. CASE run.live
    <2>1. PICK load \in Tried(k8s.load, k8s.load \ {Mine}), probes \in Tried(k8s.probes, "tight") :
            k8s' = [k8s EXCEPT !.chaos = chaos, !.load = load, !.probes = probes]
      BY <1>1, <1>3
    <2>2. load \in SUBSET (Runs \X FaultClasses) /\ probes \in {"tight", "loose"}
      BY <1>a, <2>1, Resources, ClusterFields DEF Tried
    <2>3. k8s' \in Cluster
      BY <1>2, <2>1, <2>2, ClusterPairs
    <2>4. TypeOK'
      BY <1>a, <2>3, Moves, Retries DEF Decide
    <2>5. Sound'
      <3>1. /\ chaos \subseteq k8s.chaos /\ load \subseteq k8s.load
            /\ ~flaky => /\ chaos = k8s.chaos \ {Mine} /\ load = k8s.load \ {Mine}
                         /\ probes = "tight"
        BY <1>1, <2>1 DEF Tried
      <3>2. /\ k8s'.chaos = chaos /\ k8s'.load = load /\ k8s'.probes = probes
            /\ k8s'.recovering = k8s.recovering /\ k8s'.sticky = k8s.sticky
            /\ k8s'.memory = k8s.memory /\ k8s'.surge = k8s.surge
        BY <2>1 DEF Cluster
      <3>3. QED
        BY <1>a, <1>3, <3>1, <3>2, SMTT(60) DEF Goto, Named, Nameless, Process
    <2>6. QED
      BY <2>4, <2>5, Zenon
  <1>4. CASE ~run.live
    <2>1. k8s' = [k8s EXCEPT !.chaos = chaos]
      BY <1>1, <1>4
    <2>2. k8s' \in Cluster
      BY <1>2, <2>1, ClusterTypes
    <2>3. TypeOK'
      BY <1>a, <2>2, Moves, Retries DEF Decide
    <2>4. Sound'
      BY <1>a, <1>1, <1>4, <2>1, SMTT(60)
         DEF Tried, Goto, Decide, Named, Nameless, NextAttempt, Process, Cluster
    <2>5. QED
      BY <2>3, <2>4, Zenon
  <1>5. QED
    BY <1>3, <1>4, Zenon

LEMMA InjectOomBatchStep ==
    ASSUME Healthy, InjectOomBatch
    PROVE  Healthy'
  <1>a. /\ At("oom", "inject") /\ ~run.live
        /\ UNCHANGED <<rows, ended, lock, stop, evidence, flaky>>
    BY DEF InjectOomBatch
  <1> USE DEF apply_manifest
  <1>1. ASSUME flaky, run' = RaisedOutside, UNCHANGED k8s
        PROVE  Healthy'
    <2>1. TypeOK'
      BY <1>a, <1>1, Moves
    <2>2. Sound'
      BY <1>a, <1>1, SMTT(60) DEF RaisedOutside, Process, Cluster
    <2>3. QED
      BY <2>1, <2>2, Zenon
  <1>2. ASSUME NEW landed \in BOOLEAN,
               k8s' = [k8s EXCEPT !.chaos = k8s.chaos \cup {Mine}],
               run' = Injected("hold", landed)
        PROVE  Healthy'
    <2>1. [k8s EXCEPT !.chaos = k8s.chaos \cup {Mine}] \in Cluster
      BY <1>a, ClusterTypes, ClusterPairs, ClusterFields, Resources
    <2>2. TypeOK'
      BY <1>a, <1>2, <2>1, Moves
    <2>3. Sound'
      BY <1>a, <1>2, SMTT(60) DEF Injected, Process, Cluster
    <2>4. QED
      BY <2>2, <2>3, Zenon
  <1>3. QED
    BY <1>1, <1>2, Zenon DEF InjectOomBatch

LEMMA InjectOomLiveStep ==
    ASSUME Healthy, InjectOomLive
    PROVE  Healthy'
  <1>a. /\ At("oom", "inject") /\ run.live
        /\ k8s' \in Tried(k8s, [k8s EXCEPT !.memory = "forced", !.surge = "off"])
        /\ UNCHANGED <<rows, ended, lock, stop, evidence, flaky>>
    BY DEF InjectOomLive
  <1> USE DEF Tried
  <1>1. ASSUME NEW landed \in BOOLEAN, run' = Injected("hold", landed),
               UNCHANGED k8s
        PROVE  Healthy'
    <2>1. [k8s EXCEPT !.memory = "forced", !.surge = "off"] \in Cluster
      BY ClusterTypes, ClusterPairs, ClusterFields
    <2>2. TypeOK'
      BY <1>a, <1>1, <2>1, Moves
    <2>3. Sound'
      BY <1>a, <1>1, SMTT(60) DEF Injected, Process, Cluster
    <2>4. QED
      BY <2>2, <2>3, Zenon
  <1>2. ASSUME NEW landed \in BOOLEAN, run' = Injected("hold", landed),
               k8s' = [k8s EXCEPT !.memory = "forced", !.surge = "off"]
        PROVE  Healthy'
    <2>1. [k8s EXCEPT !.memory = "forced", !.surge = "off"] \in Cluster
      BY ClusterTypes, ClusterPairs, ClusterFields
    <2>2. TypeOK'
      BY <1>a, <1>2, <2>1, Moves
    <2>3. Sound'
      BY <1>a, <1>2, SMTT(60) DEF Injected, Process, Cluster
    <2>4. QED
      BY <2>2, <2>3, Zenon
  <1>3. QED
    BY <1>1, <1>2, Zenon DEF InjectOomLive

LEMMA pod_oom_killedStep ==
    ASSUME Healthy, pod_oom_killed
    PROVE  Healthy'
  <1> USE DEF pod_oom_killed, write_evidence_file_once
  <1>1. [k8s EXCEPT !.sticky = TRUE] \in Cluster
    BY ClusterTypes, ClusterPairs, ClusterFields
  <1>2. TypeOK'
    BY <1>1, ProcessPairs
  <1>3. Sound'
    BY SMTT(60) DEF Process, Cluster
  <1>4. QED
    BY <1>2, <1>3, Zenon

LEMMA EndOomHoldStep ==
    ASSUME Healthy, EndOomHold
    PROVE  Healthy'
  <1>a. /\ At("oom", "hold")
        /\ UNCHANGED <<k8s, rows, ended, lock, stop, evidence, flaky>>
    BY DEF EndOomHold
  <1>1. ASSUME run' = Goto("cleanup")
        PROVE  Healthy'
    <2>1. TypeOK'
      BY <1>a, <1>1, Moves
    <2>2. Sound'
      BY <1>a, <1>1, SMTT(60) DEF Goto, Process, Cluster
    <2>3. QED
      BY <2>1, <2>2, Zenon
  <1>2. ASSUME run' = StoppedEarly
        PROVE  Healthy'
    <2>1. TypeOK'
      BY <1>a, <1>2, Moves
    <2>2. Sound'
      BY <1>a, <1>2, SMTT(60) DEF StoppedEarly, Process, Cluster
    <2>3. QED
      BY <2>1, <2>2, Zenon
  <1>3. QED
    BY <1>1, <1>2, Zenon DEF EndOomHold

LEMMA CleanOomStep ==
    ASSUME Healthy, CleanOom
    PROVE  Healthy'
  <1>a. /\ At("oom", "cleanup")
        /\ UNCHANGED <<rows, ended, lock, stop, evidence, flaky>>
    BY DEF CleanOom
  <1>1. CASE run.live
    <2>1. /\ k8s' \in Tried(k8s, [k8s EXCEPT !.memory = "base", !.surge = "base"])
          /\ run' = IF run.verified THEN Named ELSE Nameless
      BY <1>1 DEF CleanOom
    <2>2. [k8s EXCEPT !.memory = "base", !.surge = "base"] \in Cluster
      BY ClusterPairs
    <2>3. TypeOK'
      BY <1>a, <2>1, <2>2, Moves DEF Tried
    <2>4. Sound'
      <3>1. CASE flaky /\ k8s' = k8s
        BY <1>a, <1>1, <2>1, <3>1, SMTT(60) DEF Named, Nameless, Process
      <3>2. CASE k8s' = [k8s EXCEPT !.memory = "base", !.surge = "base"]
        BY <1>a, <1>1, <2>1, <3>2, SMTT(60) DEF Named, Nameless, Process, Cluster
      <3>3. QED
        BY <2>1, <3>1, <3>2, Zenon DEF Tried
    <2>5. QED
      BY <2>3, <2>4, Zenon
  <1>2. CASE ~run.live
    <2>1. /\ k8s' \in Tried(k8s, [k8s EXCEPT !.chaos = k8s.chaos \ {Mine}])
          /\ run' = DecideRegardless
      BY <1>2 DEF CleanOom, delete_chaos_resource
    <2>2. [k8s EXCEPT !.chaos = k8s.chaos \ {Mine}] \in Cluster
      BY <1>a, ClusterTypes, Resources
    <2>3. TypeOK'
      BY <1>a, <2>1, <2>2, Moves, Retries DEF Tried, DecideRegardless
    <2>4. Sound'
      <3>1. CASE flaky /\ k8s' = k8s
        BY <1>a, <1>2, <2>1, <3>1, SMTT(60)
           DEF DecideRegardless, Named, NextAttempt, Nameless, Process
      <3>2. CASE k8s' = [k8s EXCEPT !.chaos = k8s.chaos \ {Mine}]
        BY <1>a, <1>2, <2>1, <3>2, SMTT(60)
           DEF DecideRegardless, Named, NextAttempt, Nameless, Process, Cluster
      <3>3. QED
        BY <2>1, <3>1, <3>2, Zenon DEF Tried
    <2>5. QED
      BY <2>3, <2>4, Zenon
  <1>3. QED
    BY <1>1, <1>2, Zenon

LEMMA catalogue_burst_p95_msStep ==
    ASSUME Healthy, catalogue_burst_p95_ms
    PROVE  Healthy'
  <1>a. /\ At("under-provisioned-replicas", "inject") /\ ~run.live
        /\ UNCHANGED <<k8s, rows, ended, lock, stop, evidence, flaky>>
    BY SMTT(60) DEF catalogue_burst_p95_ms
  <1>1. ASSUME run' = [run EXCEPT !.pc = "exit", !.named = TRUE, !.landed = TRUE]
        PROVE  Healthy'
    <2>1. TypeOK'
      BY <1>a, <1>1, ProcessPairs
    <2>2. Sound'
      BY <1>a, <1>1, SMTT(60) DEF Process, Cluster
    <2>3. QED
      BY <2>1, <2>2, Zenon
  <1>2. ASSUME run' = NextAttempt
        PROVE  Healthy'
    <2>1. TypeOK'
      BY <1>a, <1>2, Moves, Retries
    <2>2. Sound'
      BY <1>a, <1>2, SMTT(60) DEF NextAttempt, Nameless, Process, Cluster
    <2>3. QED
      BY <2>1, <2>2, Zenon
  <1>3. QED
    BY <1>1, <1>2, Zenon DEF catalogue_burst_p95_ms

LEMMA launch_sustained_catalogue_burstStep ==
    ASSUME Healthy, launch_sustained_catalogue_burst
    PROVE  Healthy'
  <1>a. /\ At("under-provisioned-replicas", "inject") /\ run.live
        /\ k8s' = [k8s EXCEPT !.load = k8s.load \cup {Mine}]
        /\ UNCHANGED <<rows, ended, lock, stop, evidence, flaky>>
    BY DEF launch_sustained_catalogue_burst
  <1>1. ASSUME flaky, run' = RaisedOutside
        PROVE  Healthy'
    <2>1. [k8s EXCEPT !.load = k8s.load \cup {Mine}] \in Cluster
      BY <1>a, ClusterTypes, ClusterPairs, ClusterFields, Resources
    <2>2. TypeOK'
      BY <1>a, <1>1, <2>1, Moves
    <2>3. Sound'
      BY <1>a, <1>1, SMTT(60) DEF RaisedOutside, Process, Cluster
    <2>4. QED
      BY <2>2, <2>3, Zenon
  <1>2. ASSUME NEW landed \in BOOLEAN, run' = Injected("hold", landed)
        PROVE  Healthy'
    <2>1. [k8s EXCEPT !.load = k8s.load \cup {Mine}] \in Cluster
      BY <1>a, ClusterTypes, ClusterPairs, ClusterFields, Resources
    <2>2. TypeOK'
      BY <1>a, <1>2, <2>1, Moves
    <2>3. Sound'
      BY <1>a, <1>2, SMTT(60) DEF Injected, Process, Cluster
    <2>4. QED
      BY <2>2, <2>3, Zenon
  <1>3. QED
    BY <1>1, <1>2, Zenon DEF launch_sustained_catalogue_burst

LEMMA sampler_confirmed_real_degradationStep ==
    ASSUME Healthy, sampler_confirmed_real_degradation
    PROVE  Healthy'
  <1> USE DEF sampler_confirmed_real_degradation, write_evidence_file_once
  <1>1. TypeOK'
    BY ProcessTypes
  <1>2. Sound'
    BY SMTT(60) DEF Process, Cluster
  <1>3. QED
    BY <1>1, <1>2, Zenon

LEMMA EndBurstHoldStep ==
    ASSUME Healthy, EndBurstHold
    PROVE  Healthy'
  <1>a. /\ At("under-provisioned-replicas", "hold")
        /\ UNCHANGED <<k8s, rows, ended, lock, stop, evidence, flaky>>
    BY DEF EndBurstHold
  <1>1. ASSUME run' = Goto("cleanup")
        PROVE  Healthy'
    <2>1. TypeOK'
      BY <1>a, <1>1, Moves
    <2>2. Sound'
      BY <1>a, <1>1, SMTT(60) DEF Goto, Process, Cluster
    <2>3. QED
      BY <2>1, <2>2, Zenon
  <1>2. ASSUME run' = StoppedEarly
        PROVE  Healthy'
    <2>1. TypeOK'
      BY <1>a, <1>2, Moves
    <2>2. Sound'
      BY <1>a, <1>2, SMTT(60) DEF StoppedEarly, Process, Cluster
    <2>3. QED
      BY <2>1, <2>2, Zenon
  <1>3. ASSUME flaky, run' = RaisedInTry
        PROVE  Healthy'
    <2>1. TypeOK'
      BY <1>a, <1>3, Moves
    <2>2. Sound'
      BY <1>a, <1>3, SMTT(60) DEF RaisedInTry, Process, Cluster
    <2>3. QED
      BY <2>1, <2>2, Zenon
  <1>4. QED
    BY <1>1, <1>2, <1>3, Zenon DEF EndBurstHold

LEMMA CleanBurstStep ==
    ASSUME Healthy, CleanBurst
    PROVE  Healthy'
  <1> USE DEF CleanBurst, Tried
  <1>1. [k8s EXCEPT !.load = k8s.load \ {Mine}] \in Cluster
    BY ClusterTypes, ClusterPairs, ClusterFields, Resources
  <1>2. TypeOK'
    BY <1>1, Moves
  <1>3. Sound'
    BY SMTT(60) DEF Goto, Named, Nameless, Process, Cluster
  <1>4. QED
    BY <1>2, <1>3, Zenon

\* A baseline check that comes to its end, and one that raises.
LEMMA EnsureEnds ==
    ASSUME Healthy, Ensure, run' = Goto("inject")
    PROVE  Healthy'
  <1>a. /\ run.pc = "baseline" /\ run.class # "crash-loop"
        /\ k8s' \in Ensured
        /\ run' = Goto("inject")
        /\ UNCHANGED <<rows, ended, lock, stop, evidence, flaky>>
    BY DEF Ensure
  <1>1. k8s' \in Cluster /\ BaselineOf(k8s')
    BY <1>a, EnsuredBaseline
  <1>2. TypeOK'
    BY <1>a, <1>1, Moves
  <1>3. /\ run'.n = run.n /\ run'.class = run.class /\ run'.live = run.live
        /\ run'.stopAt = run.stopAt /\ run'.attempt = run.attempt /\ run'.pc = "inject"
        /\ run'.landed = run.landed /\ run'.verified = run.verified
        /\ run'.interrupted = run.interrupted /\ run'.blind = run.blind
        /\ run'.restarted = run.restarted /\ run'.raised = run.raised /\ run'.named = run.named
    BY <1>a DEF Goto, Process
  <1>4. Sound'
    <2>1. Course' /\ RecordedIsReal' /\ EvidenceIsKept' /\ StopEndsRetries' /\ StopIsSeen'
      BY <1>a, <1>3, SMTT(60)
    <2>2. SeenIsThere'
      BY <1>a, <1>1, <1>3, SMTT(60) DEF BaselineOf
    <2>3. Leftovers' /\ TidyEnd'
      BY <1>a, <1>1, <1>3, SMTT(60) DEF BaselineOf
    <2>4. CleanStart'
      <3>1. Mine' = Mine /\ (~flaky => Mine \notin k8s.chaos \cup k8s.load)
        BY <1>a, <1>3
      <3>2. ~flaky => \A x \in k8s'.chaos : ended'[x[1]] = "killed"
        BY <1>a, <1>1 DEF BaselineOf
      <3>3. ~flaky /\ FAULT_CONFIG[run.class] = "catalogue" =>
                /\ k8s'.memory = "base" /\ k8s'.surge = "base"
                /\ k8s'.replicas = 1 \/ k8s'.available = 1
                /\ ~k8s'.sticky
        <4>1. FAULT_CONFIG[run.class] = "catalogue" =>
                run.class \in {"oom", "under-provisioned-replicas"}
          BY <1>a DEF FaultClasses
        <4>2. ~flaky /\ FAULT_CONFIG[run.class] = "catalogue" => ~k8s.sticky
          BY <1>a
        <4> HIDE DEF FAULT_CONFIG
        <4>3. QED
          BY <1>1, <4>1, <4>2, Zenon DEF BaselineOf
      <3>4. ~flaky /\ run.class \in Configured \cup {"memory-leak"} =>
                \/ ~Faulted(run.class)'
                \/ run.class = "session-cart-failure" /\ AfterRaise'
        BY <1>a, <1>1, <1>3, <3>1 DEF BaselineOf
      <3>5. ~flaky /\ run.class = "cpu-throttling" =>
                /\ k8s'.cpu = "base" \/ k8s'.cpuTemplate = "raised"
                /\ run.live => k8s'.probes = "tight"
        BY <1>1 DEF BaselineOf
      <3> HIDE DEF Faulted, FAULT_CONFIG, AfterRaise
      <3>6. QED
        BY <1>a, <1>3, <3>2, <3>3, <3>4, <3>5, Zenon
    <2>5. QED
      BY <2>1, <2>2, <2>3, <2>4, Zenon
  <1>5. QED
    BY <1>2, <1>4, Zenon

LEMMA EnsureRaises ==
    ASSUME Healthy, Ensure, run.class = "session-cart-failure", run' = RaisedOutside
    PROVE  Healthy'
  <1>a. /\ run.pc = "baseline" /\ k8s' \in Ensured
        /\ UNCHANGED <<rows, ended, lock, stop, evidence, flaky>>
    BY DEF Ensure
  <1>1. k8s' \in Cluster /\ k8s'.chaos = k8s.chaos /\ k8s'.load = k8s.load
    BY <1>a, EnsuredBaseline DEF BaselineOf
  <1>2. TypeOK'
    BY <1>a, <1>1, Moves
  <1>3. Sound'
    BY <1>a, <1>1, SMTT(60) DEF RaisedOutside, Process
  <1>4. QED
    BY <1>2, <1>3, Zenon

LEMMA EnsureStep ==
    ASSUME Healthy, Ensure
    PROVE  Healthy'
  BY EnsureEnds, EnsureRaises, Zenon DEF Ensure

-----------------------------------------------------------------------------
(* The end of a run, and what happens around the runs.                     *)

\* A step that only the lock can tell from a stuttering one.
LEMMA Unmoved ==
    ASSUME Healthy, UNCHANGED <<k8s, run, rows, ended, stop, evidence, flaky>>,
           lock' \in BOOLEAN
    PROVE  Healthy'
  <1>1. TypeOK'
    OBVIOUS
  <1>2. Course' /\ SeenIsThere'
    OBVIOUS
  <1>3. RecordedIsReal' /\ EvidenceIsKept' /\ StopEndsRetries' /\ StopIsSeen'
    OBVIOUS
  <1>4. Leftovers'
    OBVIOUS
  <1>5. TidyEnd'
    OBVIOUS
  <1>6. CleanStart'
    OBVIOUS
  <1>7. QED
    BY <1>1, <1>2, <1>3, <1>4, <1>5, <1>6, Zenon

\* A process that is gone.
LEMMA Gone ==
    ASSUME run \in Process, run.class \in FaultClasses,
           NEW r, r = [Idle EXCEPT !.n = run.n, !.class = run.class]
    PROVE  /\ r \in Process
           /\ r.n = run.n /\ r.class = run.class /\ r.pc = "idle" /\ r.attempt = 1
           /\ r.stopAt = 0 /\ ~r.live /\ ~r.landed /\ ~r.verified /\ ~r.interrupted
           /\ ~r.blind /\ ~r.restarted /\ ~r.raised /\ ~r.named
  <1>1. r = [n |-> run.n, class |-> run.class, live |-> FALSE, pc |-> "idle", attempt |-> 1,
             stopAt |-> 0, landed |-> FALSE, verified |-> FALSE, interrupted |-> FALSE,
             blind |-> FALSE, restarted |-> FALSE, raised |-> FALSE, named |-> FALSE]
    BY DEF Idle
  <1>2. run.n \in 0..MaxRuns
    BY ProcessFields
  <1>3. 1 \in 1..MAX_INJECT_ATTEMPTS /\ 0 \in 0..MAX_INJECT_ATTEMPTS
    OBVIOUS
  <1>4. ASSUME NEW q,
               q = [n |-> run.n, class |-> run.class, live |-> FALSE, pc |-> "idle", attempt |-> 1,
                    stopAt |-> 0, landed |-> FALSE, verified |-> FALSE, interrupted |-> FALSE,
                    blind |-> FALSE, restarted |-> FALSE, raised |-> FALSE, named |-> FALSE]
        PROVE  /\ q \in Process
               /\ q.n = run.n /\ q.class = run.class /\ q.pc = "idle" /\ q.attempt = 1
               /\ q.stopAt = 0 /\ ~q.live /\ ~q.landed /\ ~q.verified /\ ~q.interrupted
               /\ ~q.blind /\ ~q.restarted /\ ~q.raised /\ ~q.named
    BY <1>2, <1>3, <1>4 DEF Process
  <1>5. QED
    BY <1>1, <1>4, Zenon

LEMMA StartStep ==
    ASSUME Healthy, NEW c \in Faults, NEW live \in BOOLEAN, Start(c, live)
    PROVE  Healthy'
  <1>a. /\ run.pc = "idle" /\ run.n < MaxRuns /\ ~lock
        /\ lock' = TRUE
        /\ k8s' \in ClearSticky(c)
        /\ run' = [Idle EXCEPT !.n = run.n + 1, !.class = c, !.live = live, !.pc = "baseline"]
        /\ rows' = IF live THEN [rows EXCEPT ![run.n + 1] = "precreated"] ELSE rows
        /\ stop' = FALSE /\ evidence' = FALSE
        /\ UNCHANGED <<ended, flaky>>
    BY DEF Start
  <1>b. run.n + 1 \in Runs /\ c \in FaultClasses
    BY <1>a, ProcessFields DEF Runs
  <1>1. /\ run' \in Process
        /\ run'.n = run.n + 1 /\ run'.class = c /\ run'.live = live /\ run'.pc = "baseline"
        /\ run'.stopAt = 0 /\ run'.attempt = 1 /\ ~run'.landed /\ ~run'.verified
        /\ ~run'.interrupted /\ ~run'.blind /\ ~run'.restarted /\ ~run'.raised /\ ~run'.named
    <2>1. run' = [n |-> run.n + 1, class |-> c, live |-> live, pc |-> "baseline", attempt |-> 1,
                  stopAt |-> 0, landed |-> FALSE, verified |-> FALSE, interrupted |-> FALSE,
                  blind |-> FALSE, restarted |-> FALSE, raised |-> FALSE, named |-> FALSE]
      BY <1>a DEF Idle
    <2>2. 1 \in 1..MAX_INJECT_ATTEMPTS /\ 0 \in 0..MAX_INJECT_ATTEMPTS /\ run.n + 1 \in 0..MaxRuns
      BY <1>b DEF Runs
    <2>3. run' \in Process
      BY <1>b, <2>1, <2>2 DEF Process
    <2>4. QED
      BY <2>1, <2>3, Zenon
  <1>2. /\ k8s' \in Cluster /\ k8s'.chaos = k8s.chaos /\ k8s'.load = k8s.load
        /\ ~flaky /\ FAULT_CONFIG[c] = "catalogue" => ~k8s'.sticky
    <2>1. CASE k8s' = k8s /\ (flaky \/ ~(FAULT_CONFIG[c] = "catalogue" /\ k8s.sticky))
      BY <2>1
    <2>2. ASSUME NEW v \in {k8s.available, k8s.replicas},
                 k8s' = [k8s EXCEPT !.sticky = FALSE, !.available = v]
          PROVE  /\ k8s' \in Cluster /\ k8s'.chaos = k8s.chaos /\ k8s'.load = k8s.load
                 /\ ~k8s'.sticky
      <3>1. v \in {1, 3} /\ [k8s EXCEPT !.sticky = FALSE] \in Cluster
        BY ClusterFields, ClusterTypes
      <3>2. k8s' = [[k8s EXCEPT !.sticky = FALSE] EXCEPT !.available = v]
        BY <2>2
      <3>3. k8s' \in Cluster
        BY <3>1, <3>2, ClusterTypes
      <3>4. QED
        BY <2>2, <3>3 DEF Cluster
    <2>3. \/ k8s' = k8s /\ (flaky \/ ~(FAULT_CONFIG[c] = "catalogue" /\ k8s.sticky))
          \/ \E v \in {k8s.available, k8s.replicas} :
                k8s' = [k8s EXCEPT !.sticky = FALSE, !.available = v]
      <3>1. CASE FAULT_CONFIG[c] = "catalogue" /\ k8s.sticky
        <4>1. k8s' \in UNION {Tried(k8s, [k8s EXCEPT !.sticky = FALSE, !.available = v]) :
                                  v \in {k8s.available, k8s.replicas}}
          BY <1>a, <3>1, Zenon DEF ClearSticky
        <4>2. PICK v \in {k8s.available, k8s.replicas} :
                k8s' \in Tried(k8s, [k8s EXCEPT !.sticky = FALSE, !.available = v])
          BY <4>1, SMT
        <4>3. \/ k8s' = [k8s EXCEPT !.sticky = FALSE, !.available = v]
              \/ flaky /\ k8s' = k8s
          BY <4>2, SMT DEF Tried
        <4>4. QED
          BY <4>3, Zenon
      <3>2. CASE ~(FAULT_CONFIG[c] = "catalogue" /\ k8s.sticky)
        BY <1>a, <3>2, Zenon DEF ClearSticky
      <3>3. QED
        BY <3>1, <3>2, Zenon
    <2>4. QED
      BY <2>1, <2>2, <2>3, Zenon
  <1>3. TypeOK'
    BY <1>a, <1>b, <1>1, <1>2
  <1>4. Sound'
    <2>1. run.n \in Nat /\ run.class \in FaultClasses \cup {"none"}
      BY ProcessFields
    <2>2. \A x \in k8s.chaos \cup k8s.load : x[1] \in Runs /\ x[2] \in FaultClasses
      BY DEF Cluster
    <2>3. Course' /\ SeenIsThere' /\ RecordedIsReal' /\ EvidenceIsKept' /\ StopEndsRetries' /\ StopIsSeen'
      BY <1>a, <1>b, <1>1, <2>1, SMTT(60) DEF Runs
    <2>4. Leftovers'
      <3>1. \A x \in k8s.chaos \cup k8s.load : x[1] <= run.n
        OBVIOUS
      <3>2. <<run.n + 1, c>> \notin k8s.chaos \cup k8s.load
        BY <2>1, <3>1
      <3>3. ~flaky => \A x \in k8s.chaos : ended[x[1]] = "killed"
        BY <1>a
      <3>4. Mine' = <<run.n + 1, c>>
        BY <1>1
      <3>5. \A x \in k8s'.chaos \cup k8s'.load : x[1] <= run'.n
        BY <1>1, <1>2, <2>1, <2>2, <3>1 DEF Runs
      <3>6. QED
        BY <1>a, <1>1, <1>2, <3>2, <3>3, <3>4, <3>5, Zenon
    <2>5. TidyEnd' /\ CleanStart'
      BY <1>1
    <2>6. QED
      BY <2>3, <2>4, <2>5, Zenon
  <1>5. QED
    BY <1>3, <1>4, Zenon

LEMMA record_episodeStep ==
    ASSUME Healthy, record_episode
    PROVE  Healthy'
  <1>a. /\ run.pc = "exit"
        /\ ended' = [ended EXCEPT ![run.n] = IF run.raised THEN "raised"
                                             ELSE IF run.named THEN "recorded" ELSE "failed"]
        /\ rows' \in {rows, [rows EXCEPT ![run.n] = "recorded"]}
        /\ lock' = FALSE
        /\ run' = [Idle EXCEPT !.n = run.n, !.class = run.class]
        /\ UNCHANGED <<k8s, stop, evidence, flaky>>
    BY DEF record_episode
  <1>1. TypeOK'
    BY <1>a, Gone
  <1>2. Sound'
    BY <1>a, Gone, SMTT(60) DEF Idle, Process, Cluster, Runs
  <1>3. QED
    BY <1>1, <1>2, Zenon

LEMMA KillStep ==
    ASSUME Healthy, Kill
    PROVE  Healthy'
  <1>1. TypeOK'
    BY Gone DEF Kill
  <1>2. Sound'
    BY Gone, SMTT(60) DEF Kill, Idle, Process, Cluster, Runs
  <1>3. QED
    BY <1>1, <1>2, Zenon

LEMMA LockGoesStaleStep ==
    ASSUME Healthy, LockGoesStale
    PROVE  Healthy'
  BY Unmoved DEF LockGoesStale

LEMMA RequestStopStep ==
    ASSUME Healthy, RequestStop
    PROVE  Healthy'
  <1>a. /\ run.live /\ run.pc # "idle" /\ stop'
        /\ run' = [run EXCEPT !.stopAt = run.attempt]
        /\ UNCHANGED <<k8s, rows, ended, lock, evidence, flaky>>
    BY DEF RequestStop
  <1>1. run.attempt \in 0..MAX_INJECT_ATTEMPTS /\ run.attempt \in Nat /\ run.attempt > 0
    BY ProcessFields
  <1>2. TypeOK'
    <2>1. [run EXCEPT !.stopAt = run.attempt] \in Process
      BY <1>1, ProcessTypes
    <2>2. stop' \in BOOLEAN
      BY DEF RequestStop
    <2>3. QED
      BY <1>a, <2>1, <2>2, Zenon
  <1>3. /\ run'.n = run.n /\ run'.class = run.class /\ run'.live = run.live
        /\ run'.stopAt = run.attempt /\ run'.attempt = run.attempt /\ run'.pc = run.pc
        /\ run'.landed = run.landed /\ run'.verified = run.verified
        /\ run'.interrupted = run.interrupted /\ run'.blind = run.blind
        /\ run'.restarted = run.restarted /\ run'.raised = run.raised /\ run'.named = run.named
    BY <1>a DEF Process
  <1>4. Sound'
    <2>1. Course' /\ StopEndsRetries' /\ StopIsSeen'
      BY <1>a, <1>1, <1>3, SMTT(60)
    <2>2. SeenIsThere' /\ RecordedIsReal' /\ EvidenceIsKept'
      BY <1>a, <1>3, SMTT(60)
    <2>3. Mine' = Mine
      BY <1>3
    <2> HIDE DEF Mine, FAULT_CONFIG
    <2>4. Leftovers'
      BY <1>a, <1>3, <2>3, SMTT(60)
    <2>5. TidyEnd'
      BY <1>a, <1>3, <2>3, SMTT(60)
    <2>6. CleanStart'
      BY <1>a, <1>3, <2>3, SMTT(60)
    <2>7. QED
      BY <2>1, <2>2, <2>4, <2>5, <2>6, Zenon
  <1>5. QED
    BY <1>2, <1>4, Zenon

LEMMA ExpireStep ==
    ASSUME Healthy, Expire
    PROVE  Healthy'
  <1> DEFINE left == {x \in k8s.chaos : x[2] \notin Network}
  <1>1. left \in SUBSET (Runs \X FaultClasses) /\ {} \in SUBSET (Runs \X FaultClasses)
    BY DEF Cluster
  <1>2. left \subseteq k8s.chaos
    OBVIOUS
  <1>3. k8s' = [k8s EXCEPT !.chaos = left, !.load = {}, !.leak = FALSE, !.flood = FALSE,
                           !.recovering = FALSE, !.available = k8s.replicas]
    BY DEF Expire
  <1> HIDE DEF left
  <1>4. k8s' \in Cluster
    <2> DEFINE k == [k8s EXCEPT !.available = k8s.replicas]
    <2>1. k \in Cluster
      BY ClusterTypes, ClusterFields
    <2>2. k8s' = [k EXCEPT !.chaos = left, !.load = {}, !.leak = FALSE,
                           !.flood = FALSE, !.recovering = FALSE]
      BY <1>3
    <2> HIDE DEF k
    <2>3. QED
      BY ZenonT(60), <1>1, <2>1, <2>2 DEF Cluster
  <1>5. k8s'.chaos = left /\ k8s'.load = {}
    BY <1>3 DEF Cluster
  <1>6. TypeOK'
    BY <1>4 DEF Expire
  <1>7. Sound'
    BY <1>2, <1>5, SMTT(60) DEF Expire
  <1>8. QED
    BY <1>6, <1>7, Zenon

LEMMA ReplaceUserPodStep ==
    ASSUME Healthy, ReplaceUserPod
    PROVE  Healthy'
  <1>a. k8s' = Rolled(k8s) /\ UNCHANGED <<run, rows, ended, lock, stop, evidence, flaky>>
    BY DEF ReplaceUserPod
  <1>1. /\ k8s' \in Cluster /\ k8s' = [k8s EXCEPT !.cpu = k8s.cpuTemplate]
        /\ k8s'.cpu = k8s.cpuTemplate /\ k8s'.cpuTemplate = k8s.cpuTemplate
    BY <1>a, RolledCluster DEF Rolled
  <1>2. /\ k8s'.chaos = k8s.chaos /\ k8s'.load = k8s.load
        /\ k8s'.selector = k8s.selector /\ k8s'.memory = k8s.memory
        /\ k8s'.surge = k8s.surge /\ k8s'.replicas = k8s.replicas
        /\ k8s'.available = k8s.available /\ k8s'.sticky = k8s.sticky
        /\ k8s'.fill = k8s.fill /\ k8s'.leak = k8s.leak /\ k8s'.flood = k8s.flood
        /\ k8s'.payment = k8s.payment /\ k8s'.recovering = k8s.recovering
        /\ k8s'.session = k8s.session /\ k8s'.image = k8s.image
        /\ k8s'.probes = k8s.probes
    BY <1>1 DEF Cluster
  <1>3. TypeOK'
    BY <1>a, <1>1
  <1>4. Sound'
    <2>1. Course' /\ SeenIsThere' /\ RecordedIsReal' /\ EvidenceIsKept'
      BY <1>a, <1>2, SMTT(60)
    <2>2. StopEndsRetries' /\ StopIsSeen' /\ TidyEnd'
      BY <1>a, <1>2, SMTT(60)
    <2> HIDE DEF FAULT_CONFIG
    <2>3. Leftovers'
      BY <1>a, <1>2, SMTT(60)
    <2>4. CleanStart'
      <3>1. k8s.cpuTemplate \in {"base", "raised"}
        BY ClusterFields
      <3>2. Faulted(run.class)' <=> Faulted(run.class)
        BY <1>a, <1>2
      <3>3. AfterRaise' <=> AfterRaise
        BY <1>a
      <3> HIDE DEF Faulted, AfterRaise
      <3>4. QED
        BY <1>a, <1>1, <1>2, <3>1, <3>2, <3>3, SMTT(60)
    <2>5. QED
      BY <2>1, <2>2, <2>3, <2>4, Zenon
  <1>5. QED
    BY <1>3, <1>4, Zenon

LEMMA FixStep ==
    ASSUME Healthy, Fix
    PROVE  Healthy'
  <1>a. /\ run.pc = "idle" /\ run.class \in DOMAIN FIX_PARAMS
        /\ k8s' \in FIX_PARAMS[run.class]
        /\ UNCHANGED <<run, rows, ended, lock, stop, evidence, flaky>>
    BY DEF Fix
  <1>1. k8s' \in {[k8s EXCEPT !.memory = "raised"], [k8s EXCEPT !.cpu = "raised"],
                  [k8s EXCEPT !.replicas = 3], [k8s EXCEPT !.image = "base"],
                  [k8s EXCEPT !.selector = "carts-warm"], [k8s EXCEPT !.fill = FALSE],
                  [k8s EXCEPT !.cpu = "raised", !.cpuTemplate = "raised"]}
    BY <1>a DEF FIX_PARAMS
  <1>2. k8s' \in Cluster /\ k8s'.chaos = k8s.chaos /\ k8s'.load = k8s.load
    <2>1. CASE k8s' = [k8s EXCEPT !.memory = "raised"]
      BY <2>1 DEF Cluster
    <2>2. CASE k8s' = [k8s EXCEPT !.cpu = "raised"]
      BY <2>2 DEF Cluster
    <2>3. CASE k8s' = [k8s EXCEPT !.replicas = 3]
      BY <2>3 DEF Cluster
    <2>4. CASE k8s' = [k8s EXCEPT !.image = "base"]
      BY <2>4 DEF Cluster
    <2>5. CASE k8s' = [k8s EXCEPT !.selector = "carts-warm"]
      BY <2>5 DEF Cluster
    <2>6. CASE k8s' = [k8s EXCEPT !.fill = FALSE]
      BY <2>6 DEF Cluster
    <2>7. CASE k8s' = [k8s EXCEPT !.cpu = "raised", !.cpuTemplate = "raised"]
      <3>1. [k8s EXCEPT !.cpu = "raised"] \in Cluster
        BY ClusterTypes
      <3>2. k8s' = [[k8s EXCEPT !.cpu = "raised"] EXCEPT !.cpuTemplate = "raised"]
        BY <2>7
      <3>3. k8s' \in Cluster
        BY <3>1, <3>2, ClusterTypes
      <3>4. QED
        BY <2>7, <3>3 DEF Cluster
    <2>8. QED
      BY <1>1, <2>1, <2>2, <2>3, <2>4, <2>5, <2>6, <2>7, Zenon
  <1>3. TypeOK'
    BY <1>a, <1>2
  <1>4. Sound'
    <2>1. Course' /\ SeenIsThere' /\ RecordedIsReal' /\ EvidenceIsKept'
      BY <1>a, SMTT(60)
    <2>2. StopEndsRetries' /\ StopIsSeen' /\ TidyEnd' /\ CleanStart'
      BY <1>a, SMTT(60)
    <2>3. Leftovers'
      BY <1>a, <1>2, SMTT(60)
    <2>4. QED
      BY <2>1, <2>2, <2>3, Zenon
  <1>5. QED
    BY <1>3, <1>4, Zenon

-----------------------------------------------------------------------------
(* The theorems.                                                           *)

LEMMA InitHealthy == Init => Healthy
  <1> SUFFICES ASSUME Init
               PROVE  Healthy
    OBVIOUS
  <1>1. k8s \in Cluster
    BY DEF Init, Baseline, Cluster
  <1>2. run \in Process
    BY DEF Init, Idle, Process
  <1>3. TypeOK
    BY <1>1, <1>2 DEF Init
  <1>4. k8s.chaos = {} /\ k8s.load = {}
    BY DEF Init, Baseline
  <1>5. /\ run.n = 0 /\ run.class = "none" /\ run.pc = "idle" /\ run.stopAt = 0 /\ ~run.live
        /\ ~run.landed /\ ~run.verified /\ ~run.blind /\ ~run.restarted /\ ~run.raised
        /\ ~run.named
    BY DEF Init, Idle
  <1>6. run = [Idle EXCEPT !.n = run.n, !.class = run.class]
    BY DEF Init, Idle
  <1>7. Course
    BY <1>5, <1>6, SMTT(60) DEF Init
  <1>8. Sound
    BY <1>4, <1>5, <1>7, SMTT(60) DEF Init
  <1>9. QED
    BY <1>3, <1>8, Zenon

LEMMA InjectorStepHealthy ==
    ASSUME Healthy, InjectorStep
    PROVE  Healthy'
  <1> HIDE DEF Healthy
  <1>1. QED
    BY EnsureStep, EnsureCrashLoopStep, run_crash_loop_injectionStep,
       verify_crash_loop_effectStep, run_disk_full_injectionStep,
       verify_disk_full_effectStep, cleanup_disk_full_filesStep,
       inject_network_latencyStep, inject_network_partitionStep,
       persist_network_probeStep, EndNetworkHoldStep, CleanNetworkStep,
       capture_memory_leak_baselineStep, leak_agent_send_cmdStep,
       StartMemoryLeakLoadStep, HoldMemoryLeakStep, CleanMemoryLeakStep,
       flood_connectionsStep, test_connection_failsStep,
       cleanup_connection_floodStep, InjectConfigStep, VerifyConfigStep,
       RestoreConfigStep, loosen_user_probes_for_faultStep, InjectCpuLiveStep,
       InjectCpuBatchStep, ConfirmCpuThrottleStep, verify_cpu_throttle_effectStep,
       CleanCpuThrottleStep, InjectOomBatchStep, InjectOomLiveStep,
       pod_oom_killedStep, EndOomHoldStep, CleanOomStep, catalogue_burst_p95_msStep,
       launch_sustained_catalogue_burstStep, sampler_confirmed_real_degradationStep,
       EndBurstHoldStep, CleanBurstStep, record_episodeStep
       DEF InjectorStep

LEMMA NextHealthy == Healthy /\ [Next]_vars => Healthy'
  <1> SUFFICES ASSUME Healthy, [Next]_vars
               PROVE  Healthy'
    OBVIOUS
  <1>1. CASE UNCHANGED vars
    BY <1>1, Unmoved DEF vars
  <1> HIDE DEF Healthy
  <1>2. CASE Next
    BY <1>2, StartStep, InjectorStepHealthy, KillStep, LockGoesStaleStep, RequestStopStep,
       ExpireStep, ReplaceUserPodStep, FixStep DEF Next
  <1>3. QED
    BY <1>1, <1>2, Zenon

HIDE InjectorAssumption
    DEF Healthy, InjectorInv, TypeOK, Sound, Course, SeenIsThere,
        RecordedIsReal, EvidenceIsKept, StopEndsRetries, StopIsSeen,
        Leftovers, TidyEnd, CleanStart, Faulted, FAULT_CONFIG,
        Mine, At, Network, Configured, AfterRaise

LEMMA AlwaysHealthy == Spec => []Healthy
  BY InitHealthy, NextHealthy, PTL DEF Spec

\* What a run tells the rest of the system is true, whatever the number of
\* runs and attempts, the interleaving of kills, stops, expiries and fixes,
\* and whether or not kubectl fails: a recorded episode is a fault that took
\* hold, evidence ends in a record, a stop ends the retries (record_episode,
\* _write_evidence_file_once, the loops of _inject_and_verify_*).
THEOREM InjectorInvariant == Spec => []InjectorInv
  <1>1. Healthy => InjectorInv
    BY DEF Healthy
  <1>2. QED
    BY <1>1, AlwaysHealthy, PTL

\* No run that comes to its end leaves its fault in the cluster, except where
\* the code means to or cannot know (the finally blocks of _inject_and_verify_*).
THEOREM RunsEndTidy == Spec => []TidyEnd
  <1>1. Healthy => TidyEnd
    BY DEF Healthy
  <1>2. QED
    BY <1>1, AlwaysHealthy, PTL

\* What earlier runs, kills and fixes left of the target's configuration is
\* undone before the first attempt, but for the three things CleanStart names
\* (the _ensure_*_baseline functions).
THEOREM RunsStartClean == Spec => []CleanStart
  <1>1. Healthy => CleanStart
    BY DEF Healthy
  <1>2. QED
    BY <1>1, AlwaysHealthy, PTL
=============================================================================
