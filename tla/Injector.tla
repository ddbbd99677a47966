------------------------------ MODULE Injector ------------------------------
(***************************************************************************)
(* p2_readonly_loop/injector.py: consecutive runs of the fault injector    *)
(* against one cluster. A run takes the system lock, brings its target to  *)
(* baseline, then injects, verifies, holds and cleans up, and records the  *)
(* episode only when the fault was verified.                               *)
(*                                                                         *)
(* A run may be killed at any point (SIGTERM included: the script installs *)
(* no handler, so no finally block runs), may raise where it queries       *)
(* Prometheus, applies a manifest or writes the database, and, when flaky  *)
(* is TRUE, any kubectl call may fail. What a run leaves behind stays in   *)
(* the cluster for the next one. SystemLock models the lock in detail.     *)
(*                                                                         *)
(* Manifests, k6 scripts and probes are abstracted to what they do to the  *)
(* cluster and to the reading they return. A restart or a slow answer of a *)
(* target is assumed to come from the injected fault.                      *)
(***************************************************************************)
EXTENDS Naturals, FiniteSets

CONSTANTS
    Faults,               \* the fault classes the runs are for
    MaxRuns,              \* bound on the runs of injector.py
    MAX_INJECT_ATTEMPTS

FaultClasses ==
    {"crash-loop", "oom", "disk-full", "network-latency", "memory-leak",
     "connection-pool-exhaustion", "network-partition", "init-failure",
     "session-cart-failure", "under-provisioned-replicas", "bad-rollout",
     "cpu-throttling"}

ASSUME InjectorAssumption ==
    /\ Faults \subseteq FaultClasses
    /\ MaxRuns \in Nat \ {0}
    /\ MAX_INJECT_ATTEMPTS \in Nat \ {0}

VARIABLES
    k8s,        \* the cluster: what faults, fixes and clean-up change in it
    run,        \* the injector process and its local variables
    rows,       \* episodes: none, precreated, pending or recorded
    ended,      \* how each run ended
    lock,       \* the system_lock row has a holder
    stop,       \* --stop-file exists
    evidence,   \* --evidence-file exists
    flaky       \* kubectl calls, and the query for the sticky flag, may fail

vars == <<k8s, run, rows, ended, lock, stop, evidence, flaky>>

Runs == 1..MaxRuns

\* The deployment (or pod) each class is aimed at.
FAULT_CONFIG ==
    [c \in FaultClasses |->
        CASE c = "crash-loop" -> "carts"
          [] c \in {"oom", "under-provisioned-replicas"} -> "catalogue"
          [] c = "disk-full" -> "queue-master"
          [] c \in {"network-latency", "network-partition"} -> "orders"
          [] c = "memory-leak" -> "shipping"
          [] c = "connection-pool-exhaustion" -> "catalogue-db"
          [] c = "init-failure" -> "payment"
          [] c = "session-cart-failure" -> "session-db"
          [] c = "bad-rollout" -> "front-end"
          [] c = "cpu-throttling" -> "user"]

\* The cluster at baseline. chaos and load hold <<run, class>> of the Chaos
\* Mesh resources and load pods that exist. replicas is catalogue's
\* spec.replicas and available its status.availableReplicas, where 3 stands
\* for all but 1; cpu is the limit of user's pod, which a resize changes, and
\* cpuTemplate the one its Deployment gives a new pod.
Baseline ==
    [chaos |-> {}, load |-> {},
     selector |-> "carts",
     memory |-> "base", surge |-> "base", replicas |-> 1, available |-> 1,
     sticky |-> FALSE, fill |-> FALSE, deadPods |-> FALSE,
     leak |-> FALSE, flood |-> FALSE,
     payment |-> "base", recovering |-> FALSE,
     session |-> 1, image |-> "base",
     cpu |-> "base", cpuTemplate |-> "base", probes |-> "tight"]

Idle ==
    [n |-> 0, class |-> "none", live |-> FALSE, pc |-> "idle", attempt |-> 1,
     stopAt |-> 0, landed |-> FALSE, verified |-> FALSE, interrupted |-> FALSE,
     blind |-> FALSE, restarted |-> FALSE, raised |-> FALSE, named |-> FALSE]

Cluster ==
    [chaos : SUBSET (Runs \X FaultClasses), load : SUBSET (Runs \X FaultClasses),
     selector : {"carts", "carts-warm"},
     memory : {"base", "forced", "raised"}, surge : {"base", "off"},
     replicas : {1, 3}, available : {1, 3}, sticky : BOOLEAN,
     fill : BOOLEAN, deadPods : BOOLEAN,
     leak : BOOLEAN, flood : BOOLEAN,
     payment : {"base", "fault"}, recovering : BOOLEAN,
     session : {0, 1}, image : {"base", "fault"},
     cpu : {"base", "raised"}, cpuTemplate : {"base", "raised"},
     probes : {"tight", "loose"}]

Process ==
    [n : 0..MaxRuns, class : FaultClasses \cup {"none"}, live : BOOLEAN,
     pc : {"idle", "baseline", "inject", "ramp", "load", "verify", "hold",
           "cleanup", "exit"},
     attempt : 1..MAX_INJECT_ATTEMPTS, stopAt : 0..MAX_INJECT_ATTEMPTS,
     landed : BOOLEAN, verified : BOOLEAN, interrupted : BOOLEAN,
     blind : BOOLEAN, restarted : BOOLEAN, raised : BOOLEAN, named : BOOLEAN]

TypeOK ==
    /\ k8s \in Cluster
    /\ run \in Process
    /\ rows \in [Runs -> {"none", "precreated", "pending", "recorded"}]
    /\ ended \in [Runs -> {"no", "recorded", "failed", "raised", "killed"}]
    /\ lock \in BOOLEAN /\ stop \in BOOLEAN
    /\ evidence \in BOOLEAN /\ flaky \in BOOLEAN

Init ==
    /\ k8s = Baseline
    /\ run = Idle
    /\ rows = [n \in Runs |-> "none"]
    /\ ended = [n \in Runs |-> "no"]
    /\ lock = FALSE /\ stop = FALSE /\ evidence = FALSE
    /\ flaky \in BOOLEAN

-----------------------------------------------------------------------------
(* Building blocks. *)

\* What one kubectl call that is to change old into new can leave: nobody
\* looks at the return code of a patch, a scale or a delete.
Tried(old, new) == {new} \cup IF flaky THEN {old} ELSE {}

At(c, pc) == run.class = c /\ run.pc = pc

Goto(pc) == [run EXCEPT !.pc = pc]

Mine == <<run.n, run.class>>

\* _inject_and_verify_* returns a name (or True), or None (or False).
Named == [run EXCEPT !.pc = "exit", !.named = TRUE]
Nameless == [run EXCEPT !.pc = "exit"]

\* Where an attempt stands: the fault was injected, and took hold or not; the
\* stop file cut its hold short; its verification has an answer.
Injected(pc, landed) == [run EXCEPT !.pc = pc, !.landed = landed]
StoppedEarly == [run EXCEPT !.pc = "cleanup", !.interrupted = TRUE]
Judged(seen) == [run EXCEPT !.pc = "cleanup", !.verified = seen]

\* The bottom of "for attempt in range(1, MAX_INJECT_ATTEMPTS + 1)".
NextAttempt ==
    IF run.attempt < MAX_INJECT_ATTEMPTS
    THEN [run EXCEPT !.pc = "inject", !.attempt = run.attempt + 1,
                     !.landed = FALSE, !.interrupted = FALSE]
    ELSE Nameless

\* What the classes that watch the stop file do after an attempt ...
Decide ==
    IF run.verified THEN Named
    ELSE IF run.interrupted THEN Nameless
    ELSE NextAttempt

\* ... and what the others do: the stop file only cuts their hold short.
DecideRegardless == IF run.verified THEN Named ELSE NextAttempt

\* Wrong: the finally block is lost.
RaisedNoFinally == [run EXCEPT !.pc = "exit", !.raised = TRUE]

\* An exception inside a try block runs its finally block first.
RaisedInTry == [run EXCEPT !.pc = "cleanup", !.raised = TRUE]
RaisedOutside == [run EXCEPT !.pc = "exit", !.raised = TRUE]

\* What a read of the cluster answers: a Running pod was found, a rollout
\* produced a fresh Ready pod, the load generator could be started.
current_pod_name == {TRUE} \cup IF flaky THEN {FALSE} ELSE {}
wait_for_fresh_user_pod == {TRUE} \cup IF flaky THEN {FALSE} ELSE {}
launch_checkout_load_burst == {TRUE} \cup IF flaky THEN {FALSE} ELSE {}

write_evidence_file_once == evidence' = (evidence \/ run.live)

\* INSERT ... 'pending' ... ON CONFLICT: a row of the operator's is kept.
PendingRow ==
    rows' = [rows EXCEPT ![run.n] = IF rows[run.n] = "none" THEN "pending" ELSE rows[run.n]]

-----------------------------------------------------------------------------
(* main(): the lock, the sticky OOM flag, the baseline of each class.       *)

\* _clear_stale_oom_sticky_flag restarts the target while Prometheus still
\* shows an old OOM kill on it, and waits for the rollout as long as it can;
\* a failed query leaves it as it is.
ClearSticky(c) ==
    IF FAULT_CONFIG[c] = "catalogue" /\ k8s.sticky
    THEN UNION {Tried(k8s, [k8s EXCEPT !.sticky = FALSE, !.available = available]) :
                    available \in {k8s.available, k8s.replicas}}
    ELSE {k8s}

Start(c, live) ==
    /\ run.pc = "idle" /\ run.n < MaxRuns /\ ~lock
    /\ lock' = TRUE
    /\ k8s' \in ClearSticky(c)
    /\ run' = [Idle EXCEPT !.n = run.n + 1, !.class = c, !.live = live,
                           !.pc = "baseline"]
    /\ rows' = IF live THEN [rows EXCEPT ![run.n + 1] = "precreated"] ELSE rows
    /\ stop' = FALSE /\ evidence' = FALSE
    /\ UNCHANGED <<ended, flaky>>

(* What each baseline check makes of cluster k.                             *)

\* Wrong: the rollout strategy is left surge-disabled.
ensure_oom_baseline_limit_only(k) == Tried(k, [k EXCEPT !.memory = "base"])

\* The two classes that share catalogue both undo what either of them, or
\* its fix, did to it.
ensure_oom_baseline(k) ==
    UNION {Tried(j, [j EXCEPT !.memory = "base"]) :
                j \in Tried(k, [k EXCEPT !.surge = "base"])}
\* _ensure_catalogue_replica_baseline looks at the replicas that are
\* available: a scale-up whose new pods are not ready yet stays.
ensure_catalogue_replica_baseline(k) ==
    IF k.available = 1 THEN {k}
    ELSE Tried(k, [k EXCEPT !.replicas = 1, !.available = 1])

\* A template change is rolled out: user gets a pod with the template's limit.
Rolled(k) == [k EXCEPT !.cpu = k.cpuTemplate]

\* _ensure_cpu_throttle_baseline looks at the pod, resizes it in place, and
\* only when that is refused patches the Deployment.
ensure_cpu_throttle_baseline(k) ==
    IF k.cpu = "base" THEN {k}
    ELSE Tried(k, [k EXCEPT !.cpu = "base"])
         \cup Tried(k, [k EXCEPT !.cpu = "base", !.cpuTemplate = "base"])

\* _ensure_cpu_throttle_probe_baseline, on the live path only.
ensure_cpu_throttle_probe_baseline(k) ==
    IF run.live /\ k.probes = "loose"
    THEN Tried(k, Rolled([k EXCEPT !.probes = "tight"])) ELSE {k}

ensure_front_end_image_baseline(k) == Tried(k, [k EXCEPT !.image = "base"])

\* Wrong: the rollout is not waited for.
ensure_init_failure_baseline_no_wait(k) == Tried(k, [k EXCEPT !.payment = "base"])

\* _ensure_init_failure_baseline resets the probe path and always waits for
\* the rollout: a live run's restore does not wait for payment to be ready.
ensure_init_failure_baseline(k) ==
    UNION {Tried(j, [j EXCEPT !.recovering = FALSE]) :
                j \in Tried(k, [k EXCEPT !.payment = "base"])}

\* _ensure_session_failure_baseline asks Prometheus, which may still show the
\* replica that a run has just taken away before it raised.
AfterRaise == \E n \in Runs : n < run.n /\ ended[n] = "raised"
ensure_session_failure_baseline(k) ==
    Tried(k, [k EXCEPT !.session = 1]) \cup IF AfterRaise THEN {k} ELSE {}

ensure_queue_master_pod_cleanup(k) == Tried(k, [k EXCEPT !.deadPods = FALSE])

\* _ensure_memory_leak_baseline: RELEASE unless the agent's status is clean;
\* an unreadable status, or one that never turns clean, does not stop the run.
ensure_memory_leak_baseline(k) == Tried(k, [k EXCEPT !.leak = FALSE])

\* What the dispatch in main() makes of the cluster before it injects.
Ensured ==
    CASE run.class \in {"oom", "under-provisioned-replicas"} ->
            UNION {ensure_oom_baseline(k) : k \in ensure_catalogue_replica_baseline(k8s)}
      [] run.class = "cpu-throttling" ->
            UNION {ensure_cpu_throttle_probe_baseline(k) :
                        k \in ensure_cpu_throttle_baseline(k8s)}
      [] run.class = "bad-rollout" -> ensure_front_end_image_baseline(k8s)
      [] run.class = "init-failure" -> ensure_init_failure_baseline(k8s)
      [] run.class = "session-cart-failure" -> ensure_session_failure_baseline(k8s)
      [] run.class = "disk-full" -> ensure_queue_master_pod_cleanup(k8s)
      [] run.class = "memory-leak" -> ensure_memory_leak_baseline(k8s)
      [] OTHER -> {k8s}

Ensure ==
    /\ run.pc = "baseline" /\ run.class # "crash-loop"
    /\ k8s' \in Ensured
    /\ \/ run' = Goto("inject")
       \/ run.class = "session-cart-failure" /\ run' = RaisedOutside
    /\ UNCHANGED <<rows, ended, lock, stop, evidence, flaky>>

\* _ensure_crash_loop_baseline: flip the Service back to carts when carts is
\* ready, and refuse to inject when it is not.
EnsureCrashLoop ==
    /\ At("crash-loop", "baseline")
    /\ \E ready, stillReady \in BOOLEAN :
        /\ k8s' \in IF k8s.selector # "carts" /\ ready
                    THEN Tried(k8s, [k8s EXCEPT !.selector = "carts"])
                    ELSE {k8s}
        /\ run' = IF stillReady /\ k8s'.selector = "carts"
                  THEN Goto("inject")
                  ELSE Nameless
    /\ UNCHANGED <<rows, ended, lock, stop, evidence, flaky>>

-----------------------------------------------------------------------------
(* crash-loop: kill the main process every few seconds, then look for a     *)
(* restart or CrashLoopBackOff.                                             *)

run_crash_loop_injection ==
    /\ At("crash-loop", "inject")
    /\ \/ run' = RaisedOutside
       \/ \E landed \in BOOLEAN :
            run' = [run EXCEPT !.pc = "verify", !.landed = landed,
                               !.interrupted = stop]
    /\ UNCHANGED <<k8s, rows, ended, lock, stop, evidence, flaky>>

verify_crash_loop_effect ==
    /\ At("crash-loop", "verify")
    /\ \/ run' = RaisedOutside
       \/ run.landed /\ run' = Named
       \/ run' = Decide
    /\ UNCHANGED <<k8s, rows, ended, lock, stop, evidence, flaky>>

-----------------------------------------------------------------------------
(* disk-full: fill the pod's disk until it is evicted. The files are        *)
(* removed in the finally of the verification only.                         *)

run_disk_full_injection ==
    /\ At("disk-full", "inject")
    /\ \/ /\ FALSE \in current_pod_name
          /\ run' = Nameless /\ UNCHANGED k8s
       \/ \E landed \in BOOLEAN :
            /\ \/ run' = Injected("verify", landed)
               \/ run' = [run EXCEPT !.pc = "exit", !.landed = landed, !.raised = TRUE]
            /\ k8s' = [k8s EXCEPT !.fill = ~landed, !.deadPods = landed]
    /\ UNCHANGED <<rows, ended, lock, stop, evidence, flaky>>

verify_disk_full_effect ==
    /\ At("disk-full", "verify")
    /\ \E seen \in {FALSE, run.landed} :
        run' = Judged(seen) \/ run' = RaisedInTry
    /\ UNCHANGED <<k8s, rows, ended, lock, stop, evidence, flaky>>

cleanup_disk_full_files ==
    /\ At("disk-full", "cleanup")
    /\ k8s' \in Tried(k8s, [k8s EXCEPT !.fill = FALSE])
    /\ run' = IF run.raised THEN Goto("exit") ELSE DecideRegardless
    /\ IF run.verified THEN write_evidence_file_once ELSE UNCHANGED evidence
    /\ UNCHANGED <<rows, ended, lock, stop, flaky>>

-----------------------------------------------------------------------------
(* network-latency and network-partition: a NetworkChaos resource with a    *)
(* duration of its own, deleted in a finally block.                         *)

Network == {"network-latency", "network-partition"}

\* apply_manifest raises when kubectl fails, before the try block.
apply_manifest(next) ==
    \/ /\ flaky
       /\ run' = RaisedOutside /\ UNCHANGED k8s
    \/ \E landed \in BOOLEAN :
        /\ k8s' = [k8s EXCEPT !.chaos = k8s.chaos \cup {Mine}]
        /\ run' = Injected(next, landed)

\* _probe_orders_latency_ms before the fault: 1, or, when no exec got an
\* answer, 0. During the fault: 2 when it took hold, else 1. The threshold
\* is one above the baseline, so a missing baseline passes anything.
probe_orders_latency_ms == {1} \cup IF flaky THEN {0} ELSE {}
LatencyRise == (IF run.landed THEN 2 ELSE 1) > (IF run.blind THEN 0 ELSE 1)

\* _probe_frontend_connectivity: how many of its five concurrent attempts
\* failed; a partition is verified by NETWORK_PARTITION_MIN_FAILURES = 4.
probe_frontend_connectivity == IF run.landed THEN 0..5 ELSE 0..3
Partitioned == \E failures \in probe_frontend_connectivity : failures >= 4

inject_network_latency ==
    /\ At("network-latency", "inject")
    /\ \E baseline_ms \in probe_orders_latency_ms, landed \in BOOLEAN :
        \/ /\ flaky
           /\ run' = RaisedOutside /\ UNCHANGED k8s
        \/ /\ k8s' = [k8s EXCEPT !.chaos = k8s.chaos \cup {Mine}]
           /\ run' = [run EXCEPT !.pc = "hold", !.landed = landed,
                                 !.blind = baseline_ms = 0]
    /\ UNCHANGED <<rows, ended, lock, stop, evidence, flaky>>

inject_network_partition ==
    /\ At("network-partition", "inject")
    /\ apply_manifest("hold")
    /\ UNCHANGED <<rows, ended, lock, stop, evidence, flaky>>

\* The first probe that shows the fault writes the evidence file and, when
\* _probe_frontend_connectivity got an answer, the 'pending' row. For a
\* partition that probe is the verification itself.
persist_network_probe ==
    /\ run.class \in Network /\ run.pc = "hold"
    /\ ~run.verified
    /\ IF run.class = "network-latency" THEN LatencyRise ELSE Partitioned
    /\ run' = [run EXCEPT !.verified = TRUE]
    /\ write_evidence_file_once
    /\ \/ PendingRow
       \/ run.class = "network-latency" /\ UNCHANGED rows
    /\ UNCHANGED <<k8s, ended, lock, stop, flaky>>

\* The hold ends: the time is up (a file that was there before the first
\* tick is seen first), the stop file appeared, or an exception was raised.
EndNetworkHold ==
    /\ run.class \in Network /\ run.pc = "hold"
    /\ \/ (stop => run.stopAt = run.attempt) /\ run' = Goto("cleanup")
       \/ stop /\ run' = StoppedEarly
       \/ run' = RaisedInTry
    /\ UNCHANGED <<k8s, rows, ended, lock, stop, evidence, flaky>>

\* delete_chaos_resource only warns when the delete fails.
delete_chaos_resource == Tried(k8s, [k8s EXCEPT !.chaos = k8s.chaos \ {Mine}])

CleanNetwork ==
    /\ run.class \in Network /\ run.pc = "cleanup"
    /\ k8s' \in delete_chaos_resource
    /\ run' = IF run.raised THEN Goto("exit")
              ELSE IF run.class = "network-latency" THEN Decide
              ELSE DecideRegardless
    /\ UNCHANGED <<rows, ended, lock, stop, evidence, flaky>>

-----------------------------------------------------------------------------
(* memory-leak: heap floor, GRAPH command, ramp, load burst, hold, RELEASE. *)
(* One attempt only. Ramp and load come before the try block.               *)

\* The settled heap floor goes into the episodes row before anything is
\* injected; without a floor, or without a pod, nothing is.
capture_memory_leak_baseline ==
    /\ At("memory-leak", "inject")
    /\ \/ UNCHANGED rows /\ run' = Nameless
       \/ /\ PendingRow
          /\ \E pod \in current_pod_name :
                run' = IF pod THEN Goto("ramp") ELSE Nameless
    /\ UNCHANGED <<k8s, ended, lock, stop, evidence, flaky>>

\* GRAPH ... ttl: refused by the exec, or never confirmed by the agent's own
\* status, in which case it may be leaking until its ttl.
leak_agent_send_cmd ==
    /\ At("memory-leak", "ramp")
    /\ \/ flaky /\ run' = Nameless /\ UNCHANGED k8s
       \/ \E leak \in BOOLEAN :
            /\ k8s' = [k8s EXCEPT !.leak = leak]
            /\ \/ run' = Nameless
               \/ leak /\ run' = Injected("load", TRUE)
    /\ UNCHANGED <<rows, ended, lock, stop, evidence, flaky>>

\* The burst that cannot be started releases the agent; the restart count
\* that cannot be read raises with burst and leak in place.
StartMemoryLeakLoad ==
    /\ At("memory-leak", "load")
    /\ \/ /\ FALSE \in launch_checkout_load_burst
          /\ k8s' \in Tried(k8s, [k8s EXCEPT !.leak = FALSE])
          /\ run' = Nameless /\ UNCHANGED evidence
       \/ /\ k8s' = [k8s EXCEPT !.load = k8s.load \cup {Mine}]
          /\ write_evidence_file_once
          /\ run' = Goto("hold") \/ run' = RaisedOutside
    /\ UNCHANGED <<rows, ended, lock, stop, flaky>>

HoldMemoryLeak ==
    /\ At("memory-leak", "hold")
    /\ \/ run' = Goto("cleanup")
       \/ stop /\ run' = StoppedEarly
       \/ run' = [run EXCEPT !.pc = "cleanup", !.restarted = TRUE]
       \/ run' = RaisedInTry
    /\ UNCHANGED <<k8s, rows, ended, lock, stop, evidence, flaky>>

\* Reap the burst, then RELEASE. A target that restarted is not recorded.
CleanMemoryLeak ==
    /\ At("memory-leak", "cleanup")
    /\ \E load \in Tried(k8s.load, k8s.load \ {Mine}),
          leak \in Tried(k8s.leak, FALSE) :
            k8s' = [k8s EXCEPT !.load = load, !.leak = leak]
    /\ run' = IF run.raised THEN Goto("exit")
              ELSE IF run.restarted THEN Nameless
              ELSE Named
    /\ UNCHANGED <<rows, ended, lock, stop, evidence, flaky>>

-----------------------------------------------------------------------------
(* connection-pool-exhaustion: sleepers on catalogue-db's connections.      *)

\* A flood that cannot be launched restarts the database and costs an
\* attempt; a kubectl that hangs raises with sleepers possibly running.
\* _restart_catalogue_db_pod: the pod is deleted, its sleepers with it.
restart_catalogue_db_pod == k8s' = [k8s EXCEPT !.flood = FALSE]

flood_connections ==
    /\ At("connection-pool-exhaustion", "inject")
    /\ \/ flaky /\ restart_catalogue_db_pod /\ run' = NextAttempt
       \/ flaky /\ k8s' \in Tried(k8s, [k8s EXCEPT !.flood = TRUE]) /\ run' = RaisedOutside
       \/ \E landed \in BOOLEAN :
            /\ k8s' = [k8s EXCEPT !.flood = TRUE]
            /\ run' = Injected("verify", landed)
    /\ UNCHANGED <<rows, ended, lock, stop, evidence, flaky>>

test_connection_fails ==
    /\ At("connection-pool-exhaustion", "verify")
    /\ \/ flaky /\ run' = RaisedInTry /\ UNCHANGED evidence
       \/ \E seen \in {FALSE, run.landed} :
            /\ run' = Judged(seen)
            /\ IF seen THEN write_evidence_file_once ELSE UNCHANGED evidence
    /\ UNCHANGED <<k8s, rows, ended, lock, stop, flaky>>

cleanup_connection_flood ==
    /\ At("connection-pool-exhaustion", "cleanup")
    /\ k8s' \in Tried(k8s, [k8s EXCEPT !.flood = FALSE])
    /\ run' = IF run.raised THEN Goto("exit") ELSE DecideRegardless
    /\ UNCHANGED <<rows, ended, lock, stop, evidence, flaky>>

-----------------------------------------------------------------------------
(* init-failure, session-cart-failure and bad-rollout: the deployment's own *)
(* configuration is changed. No try block: an exception while verifying     *)
(* leaves the change in place for the next run's baseline.                  *)

Configured == {"init-failure", "session-cart-failure", "bad-rollout"}

FaultPatch ==
    CASE run.class = "init-failure" -> [k8s EXCEPT !.payment = "fault"]
      [] run.class = "session-cart-failure" -> [k8s EXCEPT !.session = 0]
      [] run.class = "bad-rollout" -> [k8s EXCEPT !.image = "fault"]

InjectConfig ==
    /\ run.class \in Configured /\ run.pc = "inject"
    /\ k8s' \in Tried(k8s, FaultPatch)
    /\ \E landed \in {FALSE, k8s' = FaultPatch} :
        run' = Injected("verify", landed)
    /\ UNCHANGED <<rows, ended, lock, stop, evidence, flaky>>

\* _payment_stuck_not_ready asks for any payment pod that is not ready: one
\* that still recovers from the previous run answers just as well.
NotReadyAnyway == run.class = "init-failure" /\ k8s.recovering

\* Polls Prometheus for 35 (or 60) seconds.
VerifyConfig ==
    /\ run.class \in Configured /\ run.pc = "verify"
    /\ \/ run' = RaisedOutside /\ UNCHANGED evidence
       \/ \E seen \in {FALSE, run.landed \/ NotReadyAnyway} :
            /\ run' = Judged(seen)
            /\ IF seen THEN write_evidence_file_once ELSE UNCHANGED evidence
    /\ UNCHANGED <<k8s, rows, ended, lock, stop, flaky>>

\* _restore_init_failure(cfg, wait=not live_trigger) after a verified fault,
\* and with wait=True after a failed attempt.
StillRecovering == run.verified /\ run.live

\* Only a verified bad rollout stays, for the agent to roll back.
RestorePatch ==
    CASE run.class = "init-failure" ->
            UNION {Tried(j, [j EXCEPT !.recovering = StillRecovering]) :
                        j \in Tried(k8s, [k8s EXCEPT !.payment = "base"])}
      [] run.class = "session-cart-failure" -> Tried(k8s, [k8s EXCEPT !.session = 1])
      [] run.class = "bad-rollout" ->
            IF run.verified THEN {k8s} ELSE Tried(k8s, [k8s EXCEPT !.image = "base"])

\* After the (interruptible) hold, or a failed attempt: restore. Waiting for
\* session-db to come back queries Prometheus again.
RestoreConfig ==
    /\ run.class \in Configured /\ run.pc = "cleanup"
    /\ k8s' \in RestorePatch
    /\ \/ run' = DecideRegardless
       \/ run.class = "session-cart-failure" /\ run' = RaisedOutside
    /\ UNCHANGED <<rows, ended, lock, stop, evidence, flaky>>

-----------------------------------------------------------------------------
(* cpu-throttling. The live path first loosens user's probes, which also    *)
(* gives it a fresh pod, and adds a login load; the batch path only         *)
(* stresses the CPU. The StressChaos resource has no duration of its own.   *)

loosen_user_probes_for_fault ==
    /\ At("cpu-throttling", "inject") /\ run.live
    /\ \/ /\ FALSE \in wait_for_fresh_user_pod    \* restore and give up
          /\ k8s' \in Tried(k8s, Rolled([k8s EXCEPT !.probes = "tight"]))
          /\ run' = Nameless
       \/ /\ k8s' = Rolled([k8s EXCEPT !.probes = "loose"])
          /\ run' = Goto("load") \/ (flaky /\ run' = RaisedOutside)
    /\ UNCHANGED <<rows, ended, lock, stop, evidence, flaky>>

\* Baseline of the fresh pod, StressChaos, login load; inside the try block.
InjectCpuLive ==
    /\ At("cpu-throttling", "load")
    /\ \/ run' = RaisedInTry /\ UNCHANGED k8s
       \/ \E landed \in BOOLEAN :
            /\ k8s' = [k8s EXCEPT !.chaos = k8s.chaos \cup {Mine},
                                  !.load = k8s.load \cup {Mine}]
            /\ run' = Injected("hold", landed)
    /\ UNCHANGED <<rows, ended, lock, stop, evidence, flaky>>

InjectCpuBatch ==
    /\ At("cpu-throttling", "inject") /\ ~run.live
    /\ \/ run' = RaisedOutside /\ UNCHANGED k8s
       \/ apply_manifest("hold")
    /\ UNCHANGED <<rows, ended, lock, stop, evidence, flaky>>

\* A tick of the live hold that sees enough throttled periods.
ConfirmCpuThrottle ==
    /\ At("cpu-throttling", "hold") /\ run.live
    /\ run.landed /\ ~run.verified
    /\ run' = [run EXCEPT !.verified = TRUE]
    /\ write_evidence_file_once
    /\ UNCHANGED <<k8s, rows, ended, lock, stop, flaky>>

\* The hold ends by time or stop file, and verification polls once more
\* with the stressor still running.
verify_cpu_throttle_effect ==
    /\ At("cpu-throttling", "hold")
    /\ \/ run' = RaisedInTry
       \/ \E seen \in {run.verified, run.verified \/ run.landed},
             interrupted \in {FALSE, stop /\ run.live} :
            run' = [run EXCEPT !.pc = "cleanup", !.verified = seen,
                               !.interrupted = interrupted]
    /\ UNCHANGED <<k8s, rows, ended, lock, stop, evidence, flaky>>

\* finally: delete the resource, kill the load, restore the probes. The
\* rollout that starts is not waited for (ReplaceUserPod).
CleanCpuThrottle ==
    /\ At("cpu-throttling", "cleanup")
    /\ \E chaos \in Tried(k8s.chaos, k8s.chaos \ {Mine}) :
        IF run.live
        THEN \E load \in Tried(k8s.load, k8s.load \ {Mine}),
                probes \in Tried(k8s.probes, "tight") :
                    k8s' = [k8s EXCEPT !.chaos = chaos, !.load = load,
                                       !.probes = probes]
        ELSE k8s' = [k8s EXCEPT !.chaos = chaos]
    /\ run' = IF run.raised THEN Goto("exit")
              ELSE IF run.live THEN (IF run.verified THEN Named ELSE Nameless)
              ELSE Decide
    /\ UNCHANGED <<rows, ended, lock, stop, evidence, flaky>>

-----------------------------------------------------------------------------
(* oom. Batch: a StressChaos without duration of its own, per attempt.      *)
(* Live: the memory limit is forced down, surge disabled, for one hold.     *)

InjectOomBatch ==
    /\ At("oom", "inject") /\ ~run.live
    /\ apply_manifest("hold")
    /\ UNCHANGED <<rows, ended, lock, stop, evidence, flaky>>

InjectOomLive ==
    /\ At("oom", "inject") /\ run.live
    /\ k8s' \in Tried(k8s, [k8s EXCEPT !.memory = "forced", !.surge = "off"])
    /\ \E landed \in {FALSE, k8s'.memory = "forced"} :
        run' = Injected("hold", landed)
    /\ UNCHANGED <<rows, ended, lock, stop, evidence, flaky>>

\* A restart with reason OOMKilled: it ends a batch attempt, and is the live
\* hold's evidence. Either way the kill stays visible on the container.
pod_oom_killed ==
    /\ At("oom", "hold")
    /\ run.landed /\ ~run.verified
    /\ run' = [run EXCEPT !.verified = TRUE,
                          !.pc = IF run.live THEN "hold" ELSE "cleanup"]
    /\ k8s' = [k8s EXCEPT !.sticky = TRUE]
    /\ write_evidence_file_once
    /\ UNCHANGED <<rows, ended, lock, stop, flaky>>

EndOomHold ==
    /\ At("oom", "hold")
    /\ \/ run' = Goto("cleanup")
       \/ stop /\ run.live
          /\ run' = StoppedEarly
    /\ UNCHANGED <<k8s, rows, ended, lock, stop, evidence, flaky>>

CleanOom ==
    /\ At("oom", "cleanup")
    /\ k8s' \in IF run.live
                THEN Tried(k8s, [k8s EXCEPT !.memory = "base", !.surge = "base"])
                ELSE delete_chaos_resource
    /\ run' = IF ~run.live THEN DecideRegardless
              ELSE IF run.verified THEN Named ELSE Nameless
    /\ UNCHANGED <<rows, ended, lock, stop, evidence, flaky>>

-----------------------------------------------------------------------------
(* under-provisioned-replicas. Batch: up to three k6 bursts, each judged by *)
(* its own p95. Live: one sustained burst, watched by a sampler pod.        *)

catalogue_burst_p95_ms ==
    /\ At("under-provisioned-replicas", "inject") /\ ~run.live
    /\ \E slow \in BOOLEAN :
        run' = IF slow THEN [run EXCEPT !.pc = "exit", !.named = TRUE, !.landed = TRUE] ELSE NextAttempt
    /\ UNCHANGED <<k8s, rows, ended, lock, stop, evidence, flaky>>

launch_sustained_catalogue_burst ==
    /\ At("under-provisioned-replicas", "inject") /\ run.live
    /\ \/ flaky /\ run' = RaisedOutside    \* the sampler's kubectl times out
       \/ \E landed \in BOOLEAN :
            run' = Injected("hold", landed)
    /\ k8s' = [k8s EXCEPT !.load = k8s.load \cup {Mine}]
    /\ UNCHANGED <<rows, ended, lock, stop, evidence, flaky>>

\* A sample over the threshold: during the hold it writes the evidence
\* file, after the last tick it only sets evidence_written.
sampler_confirmed_real_degradation ==
    /\ At("under-provisioned-replicas", "hold")
    /\ run.landed /\ ~run.verified
    /\ run' = [run EXCEPT !.verified = TRUE]
    /\ write_evidence_file_once \/ UNCHANGED evidence
    /\ UNCHANGED <<k8s, rows, ended, lock, stop, flaky>>

EndBurstHold ==
    /\ At("under-provisioned-replicas", "hold")
    /\ \/ run' = Goto("cleanup")
       \/ stop /\ run' = StoppedEarly
       \/ flaky /\ run' = RaisedInTry
    /\ UNCHANGED <<k8s, rows, ended, lock, stop, evidence, flaky>>

\* finally: kill the sampler, and the burst unless it ran to its end.
CleanBurst ==
    /\ At("under-provisioned-replicas", "cleanup")
    /\ k8s' \in Tried(k8s, [k8s EXCEPT !.load = k8s.load \ {Mine}])
    /\ run' = IF run.raised THEN Goto("exit")
              ELSE IF run.verified THEN Named ELSE Nameless
    /\ UNCHANGED <<rows, ended, lock, stop, evidence, flaky>>

-----------------------------------------------------------------------------
(* The end of a run, and what happens around the runs.                      *)

\* The end of main(): record_episode overwrites a pending or pre-created row
\* when the fault was verified, else exit code 1; the finally block frees the
\* lock either way.
record_episode ==
    /\ run.pc = "exit"
    /\ LET how == IF run.raised THEN "raised"
                  ELSE IF run.named THEN "recorded" ELSE "failed"
       IN /\ ended' = [ended EXCEPT ![run.n] = how]
          /\ rows' = IF how = "recorded"
                     THEN [rows EXCEPT ![run.n] = "recorded"] ELSE rows
    /\ lock' = FALSE
    /\ run' = [Idle EXCEPT !.n = run.n, !.class = run.class]
    /\ UNCHANGED <<k8s, stop, evidence, flaky>>

\* _run_live_episode_inner's terminate(), then kill(): no clean-up runs and
\* the lock keeps its dead holder.
Kill ==
    /\ run.pc # "idle"
    /\ ended' = [ended EXCEPT ![run.n] = "killed"]
    /\ run' = [Idle EXCEPT !.n = run.n, !.class = run.class]
    /\ UNCHANGED <<k8s, rows, lock, stop, evidence, flaky>>

\* Wrong: only a lock without a holder can be taken.
LockNeverStale ==
    /\ run.pc = "idle" /\ lock /\ run.n = 0
    /\ lock' = FALSE
    /\ UNCHANGED <<k8s, run, rows, ended, stop, evidence, flaky>>

\* SYSTEM_LOCK_STALE_S after a dead holder took it, the lock can be taken.
LockGoesStale ==
    /\ run.pc = "idle" /\ lock
    /\ lock' = FALSE
    /\ UNCHANGED <<k8s, run, rows, ended, stop, evidence, flaky>>

\* The operator's stop button, or an abandonment.
RequestStop ==
    /\ run.live /\ run.pc # "idle" /\ ~stop
    /\ stop' = TRUE
    /\ run' = [run EXCEPT !.stopAt = run.attempt]
    /\ UNCHANGED <<k8s, rows, ended, lock, evidence, flaky>>

\* What ends by itself: a NetworkChaos's duration, the leak agent's ttl, the
\* sleepers' SLEEP, a k6 run, a payment or catalogue pod that becomes ready.
Expire ==
    /\ run.pc = "idle"
    /\ k8s' = [k8s EXCEPT !.chaos = {x \in k8s.chaos : x[2] \notin Network},
                          !.load = {}, !.leak = FALSE, !.flood = FALSE,
                          !.recovering = FALSE, !.available = k8s.replicas]
    /\ k8s' # k8s
    /\ UNCHANGED <<run, rows, ended, lock, stop, evidence, flaky>>

\* A rollout in the background gives user a pod with the template's limit.
ReplaceUserPod ==
    /\ k8s.cpu # k8s.cpuTemplate
    /\ k8s' = Rolled(k8s)
    /\ UNCHANGED <<run, rows, ended, lock, stop, evidence, flaky>>

\* What the agent's fix for a recorded episode may make of the cluster, see
\* FIX_PARAMS and _maybe_flip_carts_warm. A CPU limit is raised in the pod, or
\* in the Deployment when the resize is refused.
FIX_PARAMS ==
    [c \in {"oom", "cpu-throttling", "under-provisioned-replicas",
            "bad-rollout", "crash-loop", "disk-full"} |->
        CASE c = "oom" -> {[k8s EXCEPT !.memory = "raised"]}
          [] c = "cpu-throttling" ->
                {[k8s EXCEPT !.cpu = "raised"],
                 [k8s EXCEPT !.cpu = "raised", !.cpuTemplate = "raised"]}
          [] c = "under-provisioned-replicas" -> {[k8s EXCEPT !.replicas = 3]}
          [] c = "bad-rollout" -> {[k8s EXCEPT !.image = "base"]}
          [] c = "crash-loop" -> {[k8s EXCEPT !.selector = "carts-warm"]}
          [] c = "disk-full" -> {[k8s EXCEPT !.fill = FALSE]}]

Fix ==
    /\ run.pc = "idle" /\ run.n \in Runs /\ ended[run.n] = "recorded"
    /\ run.class \in DOMAIN FIX_PARAMS
    /\ k8s' \in FIX_PARAMS[run.class]
    /\ k8s' # k8s
    /\ UNCHANGED <<run, rows, ended, lock, stop, evidence, flaky>>

-----------------------------------------------------------------------------
InjectorStep ==
    \/ Ensure \/ EnsureCrashLoop
    \/ run_crash_loop_injection \/ verify_crash_loop_effect
    \/ run_disk_full_injection \/ verify_disk_full_effect
    \/ cleanup_disk_full_files
    \/ inject_network_latency \/ inject_network_partition
    \/ persist_network_probe \/ EndNetworkHold \/ CleanNetwork
    \/ capture_memory_leak_baseline \/ leak_agent_send_cmd
    \/ StartMemoryLeakLoad \/ HoldMemoryLeak \/ CleanMemoryLeak
    \/ flood_connections \/ test_connection_fails \/ cleanup_connection_flood
    \/ InjectConfig \/ VerifyConfig \/ RestoreConfig
    \/ loosen_user_probes_for_fault \/ InjectCpuLive \/ InjectCpuBatch
    \/ ConfirmCpuThrottle \/ verify_cpu_throttle_effect \/ CleanCpuThrottle
    \/ InjectOomBatch \/ InjectOomLive \/ pod_oom_killed \/ EndOomHold \/ CleanOom
    \/ catalogue_burst_p95_ms \/ launch_sustained_catalogue_burst
    \/ sampler_confirmed_real_degradation \/ EndBurstHold \/ CleanBurst
    \/ record_episode

Next ==
    \/ \E c \in Faults, live \in BOOLEAN : Start(c, live)
    \/ InjectorStep
    \/ Kill \/ LockGoesStale \/ RequestStop
    \/ Expire \/ ReplaceUserPod \/ Fix

\* The injector's polls and holds are all bounded by a time limit, so a
\* process that is not killed keeps taking steps; a stale lock becomes free
\* by the passing of time alone.
Spec == Init /\ [][Next]_vars /\ WF_vars(InjectorStep) /\ WF_vars(LockGoesStale)

-----------------------------------------------------------------------------
(* Properties. *)

\* The fault of class c shows in the cluster.
Faulted(c) ==
    \/ Mine \in k8s.chaos \cup k8s.load
    \/ c = "disk-full" /\ k8s.fill
    \/ c = "memory-leak" /\ k8s.leak
    \/ c = "connection-pool-exhaustion" /\ k8s.flood
    \/ c = "init-failure" /\ k8s.payment = "fault"
    \/ c = "session-cart-failure" /\ k8s.session = 0
    \/ c = "bad-rollout" /\ k8s.image = "fault"
    \/ c = "cpu-throttling" /\ run.live /\ k8s.probes = "loose"
    \/ c = "oom" /\ (k8s.memory = "forced" \/ k8s.surge = "off")

\* An episode becomes ground truth only if this run's own fault really took
\* hold and was not undone by a restart of its target: not through a retry,
\* an early stop, a leftover of the previous run or a late reading. When
\* kubectl fails, two classes can be fooled: payment is not waited for, and a
\* latency without a baseline passes.
RecordedIsReal ==
    (run.pc = "exit" /\ run.named /\ ~run.raised) =>
        \/ run.landed /\ ~run.restarted
        \/ flaky /\ run.class \in {"init-failure", "network-latency"}

\* A run that comes to its end, however many attempts failed and wherever it
\* was stopped, leaves its fault in the cluster only where that is meant (a
\* verified bad rollout) or unknown (a leak command that was never confirmed).
\* One that raised leaves it only where no finally block guards it.
TidyEnd ==
    (run.pc = "exit" /\ ~flaky /\ Faulted(run.class)) =>
        \/ run.class = "bad-rollout" /\ run.named
        \/ run.class = "memory-leak" /\ ~run.landed
        \/ run.raised /\ run.class \in Configured \cup {"disk-full", "memory-leak"}

\* What an earlier run or fix left in the configuration of the target, killed
\* runs included, is gone when the first attempt starts, and the only chaos
\* resources around are those of killed runs. Three things can remain: a
\* scale-up whose pods were not available when the check looked, a CPU limit
\* that was raised in the Deployment, and a session-db that the metric did not
\* show at zero after a run that raised.
CleanStart ==
    (run.pc = "inject" /\ run.attempt = 1 /\ ~flaky) =>
        /\ \A x \in k8s.chaos : ended[x[1]] = "killed"
        /\ FAULT_CONFIG[run.class] = "catalogue" =>
               /\ k8s.memory = "base" /\ k8s.surge = "base" /\ ~k8s.sticky
               /\ k8s.replicas = 1 \/ k8s.available = 1
        /\ run.class = "crash-loop" => k8s.selector = "carts"
        /\ run.class = "cpu-throttling" =>
               /\ k8s.cpu = "base" \/ k8s.cpuTemplate = "raised"
               /\ run.live => k8s.probes = "tight"
        /\ run.class \in Configured \cup {"memory-leak"} =>
               \/ ~Faulted(run.class)
               \/ run.class = "session-cart-failure" /\ AfterRaise

\* The evidence file unlocks the operator's stop button and the countdown to
\* resolution; a run that wrote it and ends by itself has recorded the
\* episode, unless the leaking target restarted.
EvidenceIsKept ==
    (run.pc = "exit" /\ evidence /\ ~run.raised) => run.named \/ run.restarted

\* Once the stop file exists, a class that watches it starts at most one more
\* attempt (the one whose hold had ended when the file appeared).
StopEndsRetries ==
    (run.stopAt > 0 /\ run.class \in {"crash-loop", "network-latency"}) =>
        run.attempt <= run.stopAt + 1

\* Where a run is says how much of it has happened.
Course ==
    /\ run.pc = "idle" => run = [Idle EXCEPT !.n = run.n, !.class = run.class]
    /\ run.pc # "idle" =>
        /\ run.n \in Runs /\ run.class \in FaultClasses
        /\ ended[run.n] = "no" /\ (stop <=> run.stopAt > 0)
    /\ \A n \in Runs : n > run.n => ended[n] = "no"
    /\ run.raised => run.pc \in {"cleanup", "exit"}
    /\ run.raised /\ run.class \in Configured \cup {"oom"} => run.pc = "exit"
    /\ run.named => run.pc = "exit"
    /\ run.verified => run.pc \in {"hold", "cleanup", "exit"}
    /\ run.restarted => run.class = "memory-leak" /\ run.pc \in {"cleanup", "exit"}
    /\ At("cpu-throttling", "load") => run.live

\* A fault that was seen was there, and one that was seen is recorded.
SeenIsThere ==
    /\ run.blind => flaky
    /\ run.verified => \/ run.landed
                       \/ flaky /\ run.class \in {"init-failure", "network-latency"}
    /\ run.verified /\ run.pc = "exit" /\ ~run.raised => run.named
    /\ run.class = "memory-leak" =>
        /\ run.pc \in {"load", "hold", "cleanup"} => run.landed
        /\ run.pc \in {"baseline", "inject", "ramp"} => ~run.landed
        /\ ~run.verified
    /\ run.class = "init-failure" /\ run.pc \in {"inject", "verify"} /\ ~flaky =>
            ~k8s.recovering
    /\ run.pc # "idle" /\ evidence =>
            \/ run.verified
            \/ run.class = "memory-leak" /\ run.pc \in {"hold", "cleanup", "exit"}

\* The attempt after the one that was stopped sees the stop file.
StopIsSeen ==
    run.stopAt > 0 /\ run.attempt = run.stopAt + 1 =>
        /\ At("crash-loop", "verify") => run.interrupted
        /\ At("network-latency", "cleanup") => run.interrupted \/ run.raised

\* Whose the chaos resources and load pods in the cluster are, and what a
\* batch run, which changes no configuration of catalogue, leaves of it.
Leftovers ==
    /\ \A x \in k8s.chaos \cup k8s.load : x[1] <= run.n
    /\ ~flaky =>
        /\ \A x \in k8s.chaos :
            \/ ended[x[1]] = "killed"
            \/ /\ x = Mine /\ run.pc \in {"hold", "cleanup"}
               /\ run.class \in Network \cup {"cpu-throttling", "oom"}
               /\ run.class = "oom" => ~run.live
        /\ run.pc # "idle" /\ Mine \in k8s.load =>
            \/ run.class = "memory-leak" /\ (run.pc \in {"hold", "cleanup"} \/ run.raised)
            \/ run.class = "cpu-throttling" /\ run.live /\ run.pc \in {"hold", "cleanup"}
            \/ run.class = "under-provisioned-replicas" /\ run.pc \in {"hold", "cleanup"}
        /\ run.pc = "baseline" /\ FAULT_CONFIG[run.class] = "catalogue" => ~k8s.sticky
        /\ run.class = "oom" /\ ~run.live /\ run.pc \notin {"idle", "baseline"} =>
               k8s.memory = "base" /\ k8s.surge = "base"

\* What a run tells the rest of the system is true: its record, its evidence
\* file and its answer to the stop file (record_episode,
\* _write_evidence_file_once and the loops of _inject_and_verify_*).
InjectorInv ==
    /\ TypeOK /\ RecordedIsReal /\ EvidenceIsKept /\ StopEndsRetries
    /\ Course /\ SeenIsThere /\ StopIsSeen /\ Leftovers

\* Every run ends and the cluster is free for the next one, also after a
\* kill: the lock never stays held for good.
LockIsFreed == [](lock => <>(~lock))
=============================================================================
