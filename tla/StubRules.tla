----------------------------- MODULE StubRules -----------------------------
(* The deterministic half of a diagnosis: what query_prometheus reads for a *)
(* target, the ordered rules of stub_diagnose, the two fallbacks of the     *)
(* /diagnose handlers (the capacity probe and the log detector), and the    *)
(* hint the ReAct loop adds to its transcript, which holds a second copy of *)
(* the thresholds.                                                          *)
(*                                                                          *)
(* A reading that may be missing (None) is a set with at most one element,  *)
(* so that "is not None and >= t" is \E v \in r : v >= t.  Everything here  *)
(* is an operator on values; Diagnosis says when it is evaluated.           *)
EXTENDS Integers, FiniteSets, FiniteSetsExt, Sequences, TLC

HIGH_LATENCY_THRESHOLD_MS == 300
NETWORK_PROBE_LATENCY_CEILING_MS == 10000
NETWORK_PROBE_MIN_CONNECT_FAILURES == 4
NETWORK_PARTITION_MAX_THROUGHPUT_BPS == 200
MEMORY_LEAK_RISE_THRESHOLD_KB == 20000
CONNECTION_POOL_THRESHOLD == 100
CPU_THROTTLE_INCREASE_THRESHOLD == 100
UNDER_PROVISIONED_PROBE_THRESHOLD_MS == 130

NoAnomaly == "no anomaly detected"
LogAnomaly == "log-anomaly detected (unclassified)"

DL_DETECTOR_SERVICES ==
    {"front-end", "orders", "user", "catalogue", "queue-master"}

FaultClasses ==
    {"crash-loop", "oom", "under-provisioned-replicas", "disk-full",
     "network-latency", "network-partition", "memory-leak",
     "connection-pool-exhaustion", "init-failure", "session-cart-failure",
     "cpu-throttling", "bad-rollout"}

(* The service each class is injected into. *)
FaultTarget == [class \in FaultClasses |->
    CASE class = "crash-loop" -> "carts"
      [] class \in {"oom", "under-provisioned-replicas"} -> "catalogue"
      [] class = "disk-full" -> "queue-master"
      [] class \in {"network-latency", "network-partition"} -> "orders"
      [] class = "memory-leak" -> "shipping"
      [] class = "connection-pool-exhaustion" -> "catalogue-db"
      [] class = "init-failure" -> "payment"
      [] class = "session-cart-failure" -> "session-db"
      [] class = "cpu-throttling" -> "user"
      [] class = "bad-rollout" -> "front-end"]

(***************************************************************************)
(* query_prometheus.  s is what the cluster would answer for the target's  *)
(* pods; the queries whose threshold was calibrated for one service are    *)
(* asked for that service only.                                            *)
(***************************************************************************)
OnlyFor(service, target, reading, missing) ==
    IF target = service THEN reading ELSE missing

(* The join with a restart of the last six minutes.  The query meant to catch
   an older kill by the age of the restarted container compares that age with
   the name of its constant, as a metric: there is none, and the answer is
   always empty. *)
OomPods(s) == s.oomRecent

(* An Evicted pod stays listed for long: it counts only beside a
   replacement that is itself new. *)
EvictedPods(s) == s.evicted /\ s.freshPod

(* CrashLoopBackOff, or any restart in the last three minutes. *)
CrashloopingPods(s) == s.restarting

P95LatencyMs(t, s) == OnlyFor("orders", t, s.completed, {})
CombinedThroughputBps(t, s) == OnlyFor("orders", t, s.throughput, {})
PaymentStuckNotReady(t, s) == OnlyFor("payment", t, s.notReady, FALSE)
FrontEndImagePullFailing(t, s) == OnlyFor("front-end", t, s.imagePull, FALSE)
SessionDbReplicasHitZero(t, s) == OnlyFor("session-db", t, s.zeroReplicas, FALSE)
PeakThreadsConnected(t, s) == OnlyFor("catalogue-db", t, s.threads, {})
CpuThrottlePeriodsIncrease(t, s) == OnlyFor("user", t, s.throttled, {})

(* The rise over the floor the injector captured before the episode; without
   that floor there is no reading. *)
HeapRiseKb(t, s) ==
    OnlyFor("shipping", t, {p - b : p \in s.heapPeak, b \in s.heapFloor}, {})

(* connect_failures and max_http_ms are the injector's frozen probe. *)
QueryPrometheus(t, s) ==
    [oom_pods |-> OomPods(s),
     evicted_pods |-> EvictedPods(s),
     crashlooping_pods |-> CrashloopingPods(s),
     connect_failures |-> {n.failures : n \in s.network},
     max_http_ms |-> UNION {n.http : n \in s.network},
     p95_latency_ms |-> P95LatencyMs(t, s),
     combined_throughput_bps |-> CombinedThroughputBps(t, s),
     payment_stuck_not_ready |-> PaymentStuckNotReady(t, s),
     session_db_replicas_hit_zero |-> SessionDbReplicasHitZero(t, s),
     peak_threads_connected |-> PeakThreadsConnected(t, s),
     cpu_throttle_periods_increase |-> CpuThrottlePeriodsIncrease(t, s),
     front_end_image_pull_failing |-> FrontEndImagePullFailing(t, s),
     heap_rise_kb |-> HeapRiseKb(t, s)]

(* k6 in a throwaway pod, up to three times: the first run whose p95 could
   be parsed counts. *)
ProbeCatalogueCapacity(s) ==
    LET read == {i \in DOMAIN s.capacity : s.capacity[i] # {}}
    IN IF read = {} THEN {} ELSE s.capacity[Min(read)]

(* None when the detector is down, answers an error or has too little data. *)
CallDlDetector(s) == s.anomalous

(***************************************************************************)
(* stub_diagnose: the first rule that fires.                               *)
(***************************************************************************)
FirstRule(rules) ==
    LET fired == {i \in DOMAIN rules : rules[i][1]}
    IN IF fired = {} THEN NoAnomaly ELSE rules[Min(fired)][2]

NetworkLatency(o) ==
    /\ \E ms \in o.max_http_ms : /\ HIGH_LATENCY_THRESHOLD_MS <= ms
                                 /\ ms < NETWORK_PROBE_LATENCY_CEILING_MS
    /\ \A n \in o.connect_failures : n <= 1

PodRulesRestartFirst(o) ==
    << <<o.crashlooping_pods, "crash-loop">>,
       <<o.oom_pods, "oom">>,
       <<o.evicted_pods, "disk-full">>,
       <<o.front_end_image_pull_failing, "bad-rollout">>,
       <<o.payment_stuck_not_ready, "init-failure">>,
       <<o.session_db_replicas_hit_zero, "session-cart-failure">> >>

PodRules(o) ==
    << <<o.oom_pods, "oom">>,
       <<o.evicted_pods, "disk-full">>,
       <<o.front_end_image_pull_failing, "bad-rollout">>,
       <<o.crashlooping_pods, "crash-loop">>,
       <<o.payment_stuck_not_ready, "init-failure">>,
       <<o.session_db_replicas_hit_zero, "session-cart-failure">> >>

(* The frozen probe first; latency and throughput only when it is silent. *)
NetworkRules(o) ==
    << <<\E n \in o.connect_failures : n >= NETWORK_PROBE_MIN_CONNECT_FAILURES,
         "network-partition">>,
       <<NetworkLatency(o), "network-latency">>,
       <<\E ms \in o.p95_latency_ms : ms >= HIGH_LATENCY_THRESHOLD_MS,
         "network-latency">>,
       <<\E b \in o.combined_throughput_bps : b < NETWORK_PARTITION_MAX_THROUGHPUT_BPS,
         "network-partition">> >>

LoadRules(o) ==
    << <<\E k \in o.heap_rise_kb : k >= MEMORY_LEAK_RISE_THRESHOLD_KB,
         "memory-leak">>,
       <<\E n \in o.peak_threads_connected : n >= CONNECTION_POOL_THRESHOLD,
         "connection-pool-exhaustion">>,
       <<\E n \in o.cpu_throttle_periods_increase :
                      n >= CPU_THROTTLE_INCREASE_THRESHOLD,
         "cpu-throttling">> >>

StubDiagnose(o) == FirstRule(PodRules(o) \o NetworkRules(o) \o LoadRules(o))

(* The handlers' fallbacks, each tried only while nothing has been found. *)
StubResult(t, s) ==
    LET stub == StubDiagnose(QueryPrometheus(t, s))
        probed == IF /\ stub = NoAnomaly /\ t = "catalogue"
                     /\ \E ms \in ProbeCatalogueCapacity(s) :
                            ms >= UNDER_PROVISIONED_PROBE_THRESHOLD_MS
                  THEN "under-provisioned-replicas" ELSE stub
    IN IF /\ probed = NoAnomaly /\ t \in DL_DETECTOR_SERVICES
          /\ CallDlDetector(s)
       THEN LogAnomaly ELSE probed

(***************************************************************************)
(* The ReAct loop's hint after a tool result.                              *)
(***************************************************************************)
HasStrongSignalForgetsRestarts(o) ==
    \/ o.oom_pods \/ o.evicted_pods
    \/ o.payment_stuck_not_ready \/ o.session_db_replicas_hit_zero
    \/ o.front_end_image_pull_failing

HasStrongSignal(o) ==
    \/ o.oom_pods \/ o.evicted_pods \/ o.crashlooping_pods
    \/ o.payment_stuck_not_ready \/ o.session_db_replicas_hit_zero
    \/ o.front_end_image_pull_failing

NUMERIC_THRESHOLD_FIELDS ==
    << <<"cpu_throttle_periods_increase", 100, "cpu-throttling">>,
       <<"heap_rise_kb", 20000, "memory-leak">>,
       <<"peak_threads_connected", 100, "connection-pool-exhaustion">>,
       <<"connect_failures", 4, "network-partition">> >>

NumericThresholdHit(o) ==
    FirstRule([i \in DOMAIN NUMERIC_THRESHOLD_FIELDS |->
        LET f == NUMERIC_THRESHOLD_FIELDS[i]
        IN << \E v \in o[f[1]] : v >= f[2], f[3] >>])

(* The class the transcript tells the model to answer, if it names one: a
   strong signal says "diagnose now" and names none. *)
Hint(o) == IF HasStrongSignal(o) THEN NoAnomaly ELSE NumericThresholdHit(o)
=============================================================================
