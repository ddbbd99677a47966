---------------------------- MODULE MCDiagnosis ----------------------------
(* A Cloudflare model on its pool and two entries with a daily limit of one;*)
(* requests that compete for the quotas; one episode of each kind of fix;   *)
(* and, for the stub's rules, what every fault leaves behind.               *)
EXTENDS Diagnosis

Entry(provider, tier, limit) == [provider |-> provider, tier |-> tier, limit |-> limit]

ThreeEntries == <<Entry("cloudflare", "primary", 0), Entry("gemini", "primary", 1),
                  Entry("openrouter", "fallback", 1)>>

(* What the cluster answers about a target at rest: the values just below
   each threshold. *)
Quiet ==
    [oomRecent |-> FALSE, oomSticky |-> FALSE, evicted |-> FALSE,
     freshPod |-> FALSE, restarting |-> FALSE, notReady |-> FALSE,
     imagePull |-> FALSE, zeroReplicas |-> FALSE, network |-> {},
     completed |-> {299}, throughput |-> {200}, heapPeak |-> {39999},
     heapFloor |-> {20000}, threads |-> {99}, throttled |-> {99},
     capacity |-> <<{}, {129}, {500}>>, anomalous |-> FALSE]

(* Another service's metrics while its pods suffer: past every threshold
   that was calibrated for somebody else. *)
Busy ==
    [Quiet EXCEPT !.notReady = TRUE, !.imagePull = TRUE, !.zeroReplicas = TRUE,
                  !.completed = {900}, !.throughput = {0}, !.heapPeak = {90000},
                  !.threads = {140}, !.throttled = {600}]

OwnSignals ==
    "orders" :> {"completed", "throughput"} @@ "payment" :> {"notReady"} @@
    "front-end" :> {"imagePull"} @@ "session-db" :> {"zeroReplicas"} @@
    "shipping" :> {"heapPeak"} @@ "catalogue-db" :> {"threads"} @@
    "user" :> {"throttled"} @@ "carts" :> {} @@ "catalogue" :> {} @@
    "queue-master" :> {}

(* A target without a fault of its own: quiet, or busy in what its own
   queries do not read, with or without an old eviction. *)
Background(t) ==
    {[x \in DOMAIN Quiet |->
        IF x = "evicted" THEN old
        ELSE IF x \in OwnSignals[t] THEN Quiet[x] ELSE b[x]] :
            b \in {Quiet, Busy}, old \in BOOLEAN}

(* The probe's five requests: what a cut and what a delayed path answer. *)
Cut == {[failures |-> n, http |-> h] : n \in 4..5, h \in {{}, {350}, {13000}}}
Delayed == {[failures |-> n, http |-> {ms}] : n \in 0..1, ms \in {300, 9999}}

Leaves(f) ==
    CASE f = "oom" -> {[oomRecent |-> TRUE, oomSticky |-> TRUE, restarting |-> r] :
                          r \in BOOLEAN}
      [] f = "disk-full" -> {[evicted |-> TRUE, freshPod |-> TRUE, restarting |-> r] :
                                r \in BOOLEAN}
      [] f = "bad-rollout" -> {[imagePull |-> TRUE, restarting |-> r] : r \in BOOLEAN}
      [] f = "crash-loop" -> {[restarting |-> TRUE]}
      [] f = "init-failure" -> {[notReady |-> TRUE]}
      [] f = "session-cart-failure" -> {[zeroReplicas |-> TRUE]}
      [] f = "network-partition" ->
            {[network |-> {n}, completed |-> c, throughput |-> b] :
                n \in Cut, c \in {{}, {299}, {38000}}, b \in {{}, {0}, {2000}}}
            \cup {[completed |-> {}, throughput |-> {199}]}
      [] f = "network-latency" ->
            {[network |-> {n}, completed |-> c, throughput |-> b] :
                n \in Delayed, c \in {{}, {299}, {2000}}, b \in {{}, {0}, {2000}}}
            \cup {[completed |-> {300}, throughput |-> b] : b \in {{}, {0}, {2000}}}
      [] f = "memory-leak" -> {[heapPeak |-> {40000}], [heapPeak |-> {70000}]}
      [] f = "connection-pool-exhaustion" -> {[threads |-> {100}], [threads |-> {142}]}
      [] f = "cpu-throttling" -> {[throttled |-> {100}], [throttled |-> {602}]}
      [] f = "under-provisioned-replicas" ->
            {[capacity |-> <<{130}>>, anomalous |-> a] : a \in BOOLEAN}
            \cup {[capacity |-> <<{}, {}, {370}>>, anomalous |-> FALSE]}

(* What the rules cannot recognise: an old kill, and hung requests that were
   completed, without the probe. *)
LeavesFaintly(f) ==
    CASE f = "oom" -> {[oomSticky |-> TRUE, restarting |-> r, capacity |-> <<{ms}>>,
                        anomalous |-> a] : r \in BOOLEAN, ms \in {129, 130}, a \in BOOLEAN}
      [] f = "network-partition" ->
            {[completed |-> {ms}, throughput |-> b] :
                ms \in {300, 38000}, b \in {{}, {0}, {2000}}}

(* Every reading the loop's query may return, for the targets it names. *)
Readings(t) ==
    {q @@ b : b \in Background(t),
              q \in [{"restarting", "freshPod"} -> BOOLEAN]}

Measured(t) ==
    CASE t = "orders" ->
            {[network |-> n, completed |-> c, throughput |-> b] :
                n \in {{}} \cup {{x} : x \in [failures : {0, 1, 3, 4},
                                              http : {{}, {299}, {300}, {10000}}]},
                c \in {{}, {300}}, b \in {{}, {199}}}
      [] t = "shipping" -> {[heapPeak |-> {p}, heapFloor |-> f] :
                               p \in {39999, 40000}, f \in {{}, {20000}}}
      [] t = "catalogue-db" -> {[threads |-> r] : r \in {{}, {99}, {100}}}
      [] t = "user" -> {[throttled |-> r] : r \in {{}, {99}, {100}}}
      [] OTHER -> {<<>>}


(* One stub diagnosis of a fault, for all it leaves on all backgrounds. *)
Plain == [diagnoses |-> 1, samples |-> 0, actual |-> "none", target |-> "carts",
          readings |-> {Quiet}, settled |-> FALSE, stubOnly |-> FALSE,
          frozen |-> TRUE, faint |-> FALSE,
          answers |-> {"none"}, offers |-> {}, peaks |-> {{}}, counted |-> {FALSE},
          time |-> 0, crashes |-> 0, late |-> 0]

Sweep(f) ==
    [Plain EXCEPT !.actual = f, !.target = FaultTarget[f], !.settled = TRUE,
                  !.stubOnly = TRUE,
                  !.readings = {m @@ b : m \in Leaves(f), b \in Background(FaultTarget[f])}]

FaintSweep(f) ==
    [Sweep(f) EXCEPT !.faint = TRUE,
                     !.readings = {m @@ b : m \in LeavesFaintly(f),
                                            b \in Background(FaultTarget[f])}]

Control(t) ==
    [Plain EXCEPT !.target = t, !.settled = TRUE, !.stubOnly = TRUE,
                  !.readings = Background(t)]

(* One diagnosis by the loop, of whatever the target may show. *)
Loop(t) ==
    [Plain EXCEPT !.target = t,
                  !.readings = {m @@ s : m \in Measured(t), s \in Readings(t)}]

(* Requests that compete for the quotas and lead to no fix: over midnight;
   beside a sampler and a crash; and more of them within one cooldown. *)
Night == [Plain EXCEPT !.diagnoses = 2, !.time = 2]
Rush == [Plain EXCEPT !.diagnoses = 2, !.samples = 1, !.crashes = 1]
Burst == [Plain EXCEPT !.diagnoses = 3]

MemoryOffers == {Call("patch_memory_limit", 128, "Mi"), Call("patch_memory_limit", 1, "Gi"),
                 Call("patch_memory_limit", 3, "Gi")}
CpuOffers == {Call("patch_cpu_limit", 250, "m"), Call("patch_cpu_limit", 800, "m"),
              Call("patch_cpu_limit", 3, "core")}
ReplicaOffers == {Call("scale_deployment", n, "int") : n \in {0, 2, 3, 5, 21}}

(* One episode of a class, from diagnosis to judgement: metrics that show
   it, that do not yet, or that show restarts only. *)
Episode(class, offers, peaks) ==
    [Plain EXCEPT
        !.actual = class, !.target = FaultTarget[class],
        !.readings = {Quiet, [Quiet EXCEPT !.restarting = TRUE]}
                     \cup {m @@ Quiet : m \in Leaves(class)},
        !.answers = {class, "crash-loop", "none"},
        !.offers = offers \cup {Call("restart_deployment", 0, "none")},
        !.peaks = peaks, !.late = 1, !.frozen = FALSE,
        !.counted = IF class = "under-provisioned-replicas" THEN BOOLEAN ELSE {TRUE}]

Throttling == 1 :> [Episode("cpu-throttling", CpuOffers, {{}}) EXCEPT !.late = 0]

Requests ==
       <<"night">> :> Night @@ <<"rush">> :> Rush @@ <<"burst">> :> Burst @@
       [x \in {"sweep"} \X FaultClasses |-> Sweep(x[2])] @@
       [x \in {"faint"} \X {"oom", "network-partition"} |-> FaintSweep(x[2])] @@
       [x \in {"control"} \X DOMAIN OwnSignals |-> Control(x[2])] @@
       [x \in {"loop"} \X DOMAIN OwnSignals |-> Loop(x[2])] @@
       <<"episode", "oom">> :> Episode("oom", MemoryOffers, {{}, {8}}) @@
       <<"episode", "cpu">> :> Episode("cpu-throttling", CpuOffers, {{}}) @@
       <<"episode", "replicas">> :>
            Episode("under-provisioned-replicas", ReplicaOffers, {{}}) @@
       <<"episode", "leak">> :> Episode("memory-leak", {}, {{}})

(* TLC computes Requests once; what a cfg substitutes it computes each time. *)
Day == Requests
=============================================================================
