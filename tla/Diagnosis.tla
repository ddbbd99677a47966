----------------------------- MODULE Diagnosis -----------------------------
(* The agent process at work on diagnoses and fixes: the ReAct loop over    *)
(* the chain of model providers, the quota tracker around every call, the   *)
(* comparison sampler beside it, the action proposer, the dispatch and the  *)
(* scorer's judgement of the proposal.                                      *)
(*                                                                          *)
(* Handlers are threads of one process: /diagnose and /act requests run     *)
(* beside each other (a scorer that timed out has left its request running) *)
(* and beside the sampler's pool.  A call to a provider is two steps, the   *)
(* quota check that sends it and the answer that charges it, so that other  *)
(* threads come in between.  What the model says, and when a provider       *)
(* refuses, is a choice.                                                    *)
EXTENDS StubRules, ActionSafety

CONSTANTS
    Agents,         \* threads serving /diagnose and /act
    Samplers,       \* threads of _comparison_executor
    Chain,          \* PROVIDER_CHAIN: a sequence of entries
    Compared,       \* COMPARISON_ENTRIES, as positions in Chain
    MAX_TURNS,      \* turns per provider and diagnosis
    SampleRetries,  \* retries of a rate-limited comparison call
    Budget,         \* CLOUDFLARE_DAILY_NEURON_BUDGET
    Threshold,      \* CLOUDFLARE_NEURON_SAFETY_THRESHOLD
    NeuronCost,     \* the most a call costs
    TicksPerDay,    \* probe cooldowns in a day
    Workloads       \* the requests to come, what the cluster and the models
                    \* may answer them, and the bounds on the rest

Entries == 1..Len(Chain)
Limited == {e \in Entries : Chain[e].limit > 0}
Callers == Agents \cup Samplers

ASSUME ThreadAssumption ==
    /\ IsFiniteSet(Agents) /\ IsFiniteSet(Samplers)
    /\ Agents \cap Samplers = {}
    /\ MAX_TURNS \in Nat \ {0} /\ SampleRetries \in Nat

(* No Cloudflare model is compared, and the threshold has to absorb every
   call that was checked before the others were charged. *)
ASSUME ChainAssumption ==
    /\ Len(Chain) \in Nat \ {0}
    /\ \A e \in Entries : Chain[e].limit \in Nat
    /\ Compared \subseteq {e \in Entries : Chain[e].provider # "cloudflare"}
    /\ {Budget, Threshold, NeuronCost} \subseteq Nat
    /\ Cardinality(Agents) * NeuronCost <= Threshold
    /\ Threshold <= Budget
    /\ TicksPerDay \in Nat \ {0}

(* The injector's connectivity probe is recorded for the network faults, whose
   target is orders. *)
ASSUME WorkloadAssumption ==
    \A w \in DOMAIN Workloads :
        /\ {Workloads[w].diagnoses, Workloads[w].samples, Workloads[w].time,
            Workloads[w].crashes, Workloads[w].late} \subseteq Nat
        /\ \A c \in Workloads[w].offers : c.num \in Nat
        /\ \A peak \in Workloads[w].peaks : peak \subseteq Nat
        /\ \A s \in Workloads[w].readings :
               s.network # {} => Workloads[w].target = "orders"
        /\ {Workloads[w].frozen, Workloads[w].faint} \subseteq BOOLEAN

(* What a fault does to the pods of its target.  Nothing else troubles them:
   one fault is injected at a time. *)
OwnTroubleOnly(class, s) ==
    /\ OomPods(s) => class = "oom"
    /\ EvictedPods(s) => class = "disk-full"
    /\ CrashloopingPods(s) =>
          class \in {"oom", "disk-full", "bad-rollout", "crash-loop"}

Slow(s) == \E ms \in s.completed : ms >= HIGH_LATENCY_THRESHOLD_MS
Starved(s) == \E b \in s.throughput : b < NETWORK_PARTITION_MAX_THROUGHPUT_BPS
Leaking(s) == \E p \in s.heapPeak, b \in s.heapFloor :
                  p - b >= MEMORY_LEAK_RISE_THRESHOLD_KB
Crowded(s) == \E n \in s.threads : n >= CONNECTION_POOL_THRESHOLD
Throttled(s) == \E n \in s.throttled : n >= CPU_THROTTLE_INCREASE_THRESHOLD
Overloaded(s) == \E ms \in ProbeCatalogueCapacity(s) :
                     ms >= UNDER_PROVISIONED_PROBE_THRESHOLD_MS

(* A cut path lets at most one of the probe's five requests through, a delayed
   one loses at most one.  An episode without the probe has only the passive
   readings. *)
PathCut(s) == \E n \in s.network : n.failures \in 4..5
PathSlow(s) ==
    /\ s.network # {}
    /\ \A n \in s.network :
          /\ n.failures \in 0..1
          /\ \E ms \in n.http : /\ HIGH_LATENCY_THRESHOLD_MS <= ms
                                /\ ms < NETWORK_PROBE_LATENCY_CEILING_MS

(* What shows a fault on its target. *)
Shows(class, s) ==
    CASE class = "oom" -> OomPods(s)
      [] class = "disk-full" -> EvictedPods(s)
      [] class = "bad-rollout" -> s.imagePull
      [] class = "crash-loop" -> CrashloopingPods(s)
      [] class = "init-failure" -> s.notReady
      [] class = "session-cart-failure" -> s.zeroReplicas
      [] class = "network-partition" ->
            \/ PathCut(s)
            \/ s.network = {} /\ ~Slow(s) /\ Starved(s)
      [] class = "network-latency" ->
            \/ PathSlow(s)
            \/ s.network = {} /\ Slow(s)
      [] class = "memory-leak" -> Leaking(s)
      [] class = "connection-pool-exhaustion" -> Crowded(s)
      [] class = "cpu-throttling" -> Throttled(s)
      [] class = "under-provisioned-replicas" -> Overloaded(s)

(* What is left of a fault that the rules do not recognise: a kill more than
   six minutes ago, and a partition whose hung requests have been completed,
   in an episode without the probe. *)
Faint(class, s) ==
    CASE class = "oom" -> s.oomSticky /\ ~OomPods(s)
      [] class = "network-partition" -> s.network = {} /\ Slow(s)
      [] OTHER -> FALSE

(* A target without a fault, in what is asked of it. *)
AtRest(target, s) ==
    /\ target = "orders" => s.network = {} /\ ~Slow(s) /\ ~Starved(s)
    /\ target = "payment" => ~s.notReady
    /\ target = "front-end" => ~s.imagePull
    /\ target = "session-db" => ~s.zeroReplicas
    /\ target = "shipping" => ~Leaking(s)
    /\ target = "catalogue-db" => ~Crowded(s)
    /\ target = "user" => ~Throttled(s)
    /\ target = "catalogue" => ~Overloaded(s)
    /\ target \in DL_DETECTOR_SERVICES => ~CallDlDetector(s)

(* When the metrics have caught up, a fault shows on its own target, clearly
   or faintly, and a target without one does not look ill. *)
ASSUME SettledAssumption ==
    \A w \in DOMAIN Workloads : Workloads[w].settled =>
        LET class == Workloads[w].actual  target == Workloads[w].target IN
        /\ class \in FaultClasses \cup {"none"}
        /\ class \in FaultClasses => target = FaultTarget[class]
        /\ \A s \in Workloads[w].readings :
              /\ OwnTroubleOnly(class, s)
              /\ IF class = "none" THEN AtRest(target, s) /\ ~Workloads[w].faint
                 ELSE IF Workloads[w].faint THEN Faint(class, s)
                 ELSE Shows(class, s)

VARIABLES
    now,        \* the clock, in probe cooldowns
    calls,      \* provider_quota_usage: today's calls of a limited entry
    neurons,    \* provider_quota_usage: today's Cloudflare neurons
    marks,      \* provider_exhaustion: {} or one mark per entry
    job,        \* the handlers
    load,       \* the workload: a key of Workloads
    todo,       \* the requests still to come
    live,       \* the target's Deployment: limits and replicas
    crashes, late,      \* what has happened of the bounded events
    again,      \* the handlers whose call has posted its request again
    sent,       \* history: requests put on the wire today, limited entries
    lost,       \* history: today's calls that ended without being charged
    refused     \* history: 4006 answers since the last tick or success

quota == <<now, calls, neurons, marks>>
history == <<again, sent, lost, refused>>
work == Workloads[load]
vars == <<quota, job, load, todo, live, crashes, late, history>>

None == "nothing"
NoCall == Call("none", 0, "none")
Unseen == [peak_memory_mib |-> {}, current_replicas |-> {}]
NoLevels == [memory |-> 0, cpu |-> 0, replicas |-> 0]

(* A handler.  turns are the entries whose turns are in the transcript, by
   the entry that diagnosed, seen the tool output; levels, what the target
   was at the diagnosis, is for the properties only. *)
Idle == [stage |-> "idle", wire |-> FALSE, i |-> 1, turn |-> 1, failures |-> 0,
         turns |-> {}, by |-> 0, class |-> None, seen |-> Unseen,
         stub |-> NoAnomaly, hint |-> NoAnomaly,
         levels |-> NoLevels, try |-> 1, cost |-> 0, offer |-> NoCall,
         tier |-> None, byLlm |-> FALSE, predicted |-> None, ran |-> NoCall, source |-> None, credit |-> None]

Injected == [memory |-> OOM_BASELINE_MEMORY_LIMIT, cpu |-> 300, replicas |-> 1]

Init ==
    /\ now = 0
    /\ calls = [e \in Limited |-> 0]
    /\ neurons = 0
    /\ marks = [e \in Entries |-> {}]
    /\ job = [c \in Callers |-> Idle]
    /\ load \in DOMAIN Workloads
    /\ todo = [diagnoses |-> work.diagnoses, samples |-> work.samples]
    /\ live = Injected
    /\ crashes = 0 /\ late = 0
    /\ again = {}
    /\ sent = [e \in Limited |-> 0]
    /\ lost = [e \in Limited |-> 0]
    /\ refused = [e \in Entries |-> 0]

(***************************************************************************)
(* quota_tracker                                                           *)
(***************************************************************************)
NextUtcMidnight == (now \div TicksPerDay + 1) * TicksPerDay

(* mark_exhausted: until midnight, but a probe is let through after the
   cooldown. *)
MarkExhausted == [until |-> NextUtcMidnight, probe |-> Min({now + 1, NextUtcMidnight})]

IsMarkedExhausted(e) == \E m \in marks[e] : now < m.probe /\ now < m.until

(* The pool is shared by every Cloudflare model. *)
NeuronsExhausted(e) ==
    Chain[e].provider = "cloudflare" /\ Budget - neurons < Threshold

DailyLimitReached(e) == e \in Limited /\ calls[e] >= Chain[e].limit

Exhausted(e) == IsMarkedExhausted(e) \/ NeuronsExhausted(e) \/ DailyLimitReached(e)

(* record_call charges the day on which the answer arrived, whatever the
   answer was; neurons are known only from a success. *)
RecordSuccessOnly(e, reply) ==
    /\ calls' = IF e \in Limited /\ reply = "ok" THEN [calls EXCEPT ![e] = @ + 1] ELSE calls
    /\ neurons' = IF reply = "ok" /\ Chain[e].provider = "cloudflare"
                  THEN neurons + NeuronCost ELSE neurons

RecordCall(e, reply) ==
    /\ calls' = IF e \in Limited THEN [calls EXCEPT ![e] = @ + 1] ELSE calls
    /\ neurons' = IF reply = "ok" /\ Chain[e].provider = "cloudflare"
                  THEN neurons + NeuronCost ELSE neurons

(***************************************************************************)
(* model_backend: what a request can come back as.  "failed" is a timeout, *)
(* a bad response or an answer without JSON; "daily" the 429 that says the *)
(* day's allocation is gone.                                               *)
(***************************************************************************)
GeminiReplies == {"ok", "failed", "rate_limited"}
OpenaiCompatReplies == {"ok", "failed", "rate_limited", "daily"}
StreamingReplies == {"ok", "failed", "rate_limited", "daily"}
Replies(e) == IF Chain[e].provider = "gemini" THEN GeminiReplies
              ELSE IF Chain[e].provider = "cloudflare" THEN StreamingReplies
              ELSE OpenaiCompatReplies

(* The mark of a Cloudflare 4006, the charge, and the mark a success clears. *)
Account(e, reply) ==
    /\ marks' = IF reply = "daily" /\ Chain[e].provider = "cloudflare"
                THEN [marks EXCEPT ![e] = {MarkExhausted}]
                ELSE IF reply = "ok" THEN [marks EXCEPT ![e] = {}] ELSE marks
    /\ RecordCall(e, reply)
    /\ refused' = IF reply = "daily" THEN [refused EXCEPT ![e] = @ + 1]
                  ELSE IF reply = "ok" THEN [refused EXCEPT ![e] = 0] ELSE refused

(***************************************************************************)
(* react_agent                                                             *)
(***************************************************************************)
(* Nothing of a failed provider's attempt is kept. *)
NextEntryStartsOver(r) ==
    [r EXCEPT !.i = (@ % Len(Chain)) + 1, !.turn = 1, !.failures = 0, !.turns = {},
              !.wire = FALSE]

NextEntry(r) ==
    IF r.i < Len(Chain)
    THEN [r EXCEPT !.i = @ + 1, !.turn = 1, !.failures = 0, !.turns = {},
                   !.wire = FALSE]
    ELSE [r EXCEPT !.stage = "diagnosed", !.turns = {}, !.wire = FALSE]

(* The turn goes into the transcript; after the last one the diagnosis ends
   without a class and no other provider is asked. *)
NextTurn(r) ==
    IF r.turn < MAX_TURNS
    THEN [r EXCEPT !.turn = @ + 1, !.turns = @ \cup {r.i}, !.wire = FALSE]
    ELSE [r EXCEPT !.stage = "diagnosed", !.wire = FALSE]

(* What the loop does with a parsed answer: a diagnosis, a tool call, a call
   of a tool that does not exist, or an object of another shape, which is
   borne once. *)
AfterTurn(r) ==
    {[r EXCEPT !.stage = "diagnosed", !.by = r.i, !.class = c, !.wire = FALSE] :
        c \in work.answers}
    \cup {NextTurn(r), [r EXCEPT !.stage = "diagnosed", !.wire = FALSE]}
    \cup {IF r.failures = 1 THEN NextEntry(r)
          ELSE NextTurn([r EXCEPT !.failures = 1])}

(***************************************************************************)
(* action_proposer: the diagnosing entry, once more after a rejection, then*)
(* the next entry of the chain, then the fixed action.                     *)
(***************************************************************************)
Fallback(r) ==
    [r EXCEPT !.stage = "proposed", !.offer = DETERMINISTIC_ACTION_MAP[r.class],
              !.tier = "deterministic_fallback", !.wire = FALSE]

Escalate(r) ==
    IF r.try < 3 /\ r.by < Len(Chain)
    THEN [r EXCEPT !.try = 3, !.i = r.by + 1, !.wire = FALSE]
    ELSE Fallback(r)

AfterRejection(r) ==
    IF r.try = 1 THEN [r EXCEPT !.try = 2, !.wire = FALSE] ELSE Escalate(r)

(* _propose_once: the validator and the class's own tool. *)
Accepted(r, c) ==
    ValidateToolCall(c) /\ c.tool = DETERMINISTIC_ACTION_MAP[r.class].tool

AfterProposal(r) ==
    {Escalate(r)}
    \cup {IF Accepted(r, c)
          THEN [r EXCEPT !.stage = "proposed", !.offer = c,
                         !.tier = Chain[r.i].tier, !.wire = FALSE]
          ELSE AfterRejection(r) : c \in work.offers}

(***************************************************************************)
(* A call to a provider                                                    *)
(***************************************************************************)
Calling(c) == job[c].stage \in {"react", "propose", "sample"}

AfterFailure(r, reply) ==
    CASE r.stage = "react" -> NextEntry(r)
      [] r.stage = "propose" -> Escalate(r)
      [] r.stage = "sample" ->
            IF reply = "rate_limited" /\ r.try <= SampleRetries
            THEN [r EXCEPT !.try = @ + 1, !.wire = FALSE] ELSE Idle

(* call_one up to the request: an exhausted entry is not asked. *)
Ask(c) ==
    LET r == job[c]  e == job[c].i IN
    /\ Calling(c) /\ ~r.wire
    /\ IF Exhausted(e)
       THEN /\ job' = [job EXCEPT ![c] = AfterFailure(r, "quota_exhausted")]
            /\ UNCHANGED sent
       ELSE /\ job' = [job EXCEPT ![c] = [r EXCEPT !.wire = TRUE,
                          !.cost = IF r.stage = "propose" THEN r.cost + 1 ELSE 0]]
            /\ sent' = IF e \in Limited THEN [sent EXCEPT ![e] = @ + 1] ELSE sent
    /\ UNCHANGED <<quota, load, todo, live, crashes, late, again, lost, refused>>

(* _call_gemini posts once more, without the logprobs, when the model does
   not know them: no check before it, and one charge for both. *)
PostAgain(c) ==
    LET e == job[c].i IN
    /\ Calling(c) /\ job[c].wire /\ c \notin again
    /\ Chain[e].provider = "gemini"
    /\ again' = again \cup {c}
    /\ sent' = IF e \in Limited THEN [sent EXCEPT ![e] = @ + 1] ELSE sent
    /\ UNCHANGED <<quota, job, load, todo, live, crashes, late, lost, refused>>

(* The body of an answer is decoded outside the try: what cannot be decoded
   ends the request of the handler, or the task of the pool, uncharged. *)
Undecodable(c) ==
    LET e == job[c].i IN
    /\ Calling(c) /\ job[c].wire
    /\ job' = [job EXCEPT ![c] = Idle]
    /\ again' = again \ {c}
    /\ lost' = IF e \in Limited THEN [lost EXCEPT ![e] = @ + 1] ELSE lost
    /\ UNCHANGED <<quota, load, todo, live, crashes, late, sent, refused>>

(* The answer, or the timeout, and all that follows it up to the next call. *)
Answer(c) ==
    LET r == job[c]  e == job[c].i IN
    /\ Calling(c) /\ r.wire
    /\ \E reply \in Replies(e) :
        /\ Account(e, reply)
        /\ IF reply # "ok" THEN job' = [job EXCEPT ![c] = AfterFailure(r, reply)]
           ELSE \E next \in CASE r.stage = "react" -> AfterTurn(r)
                              [] r.stage = "propose" -> AfterProposal(r)
                              [] r.stage = "sample" -> {Idle} :
                    job' = [job EXCEPT ![c] = next]
    /\ again' = again \ {c}
    /\ UNCHANGED <<now, load, todo, live, crashes, late, sent, lost>>

(***************************************************************************)
(* The requests                                                            *)
(***************************************************************************)
(* What a second query returns.  The probe and the heap floor came with the
   request. *)
Reread(s) ==
    IF work.frozen THEN {s}
    ELSE {x \in work.readings : x.network = s.network /\ x.heapFloor = s.heapFloor}

(* /diagnose: the tool output is taken and the stub's rules are applied, then
   the loop starts at the head of the chain, unless WARDENCE_STUB_ONLY is set.
   When the loop's tool is called it queries once more: the same window when
   the request froze one, the present otherwise. *)
StartDiagnose(a) ==
    /\ job[a].stage = "idle" /\ todo.diagnoses > 0
    /\ todo' = [todo EXCEPT !.diagnoses = @ - 1]
    /\ \E s \in work.readings, peak \in work.peaks, counted \in work.counted :
        \E later \in Reread(s) :
        job' = [job EXCEPT ![a] =
                    [Idle EXCEPT !.stage = IF work.stubOnly THEN "diagnosed" ELSE "react",
                                 !.stub = StubResult(work.target, s),
                                 !.hint = IF work.stubOnly THEN NoAnomaly
                                          ELSE Hint(QueryPrometheus(work.target, later)),
                                 !.levels = live,
                                 !.seen = [peak_memory_mib |-> peak,
                                           current_replicas |->
                                               IF counted THEN {live.replicas} ELSE {}]]]
    /\ UNCHANGED <<quota, load, live, crashes, late, history>>

(* A comparison call leaves the pool's queue, where this or an earlier
   diagnosis put it; whether the OpenRouter rationing let it in is a choice. *)
StartSample(s) ==
    /\ job[s].stage = "idle" /\ todo.samples > 0
    /\ todo' = [todo EXCEPT !.samples = @ - 1]
    /\ \E e \in Compared :
          job' = [job EXCEPT ![s] = [Idle EXCEPT !.stage = "sample", !.i = e]]
    /\ UNCHANGED <<quota, load, live, crashes, late, history>>

(* The end of /diagnose: the model's class drives when it has one and the
   stub's class is in LLM mode; the stub's otherwise. *)
Predicted(r, byLlm) == IF byLlm THEN r.class ELSE r.stub

MayDrive(r) == r.by # 0 /\ r.stub # LogAnomaly

(* The scorer calls /act when the predicted class may act, when the model's
   own class has a fix, or when only the real class has one. *)
WorthCallingAct(r, predicted, eligible) ==
    \/ eligible /\ predicted \in AutoFixClasses
    \/ r.class \in AutoFixClasses
    \/ predicted \notin AutoFixClasses /\ work.actual \in AutoFixClasses

EndDiagnose(a) ==
    /\ job[a].stage = "diagnosed"
    /\ \E byLlm, eligible \in BOOLEAN :
        /\ byLlm => MayDrive(job[a])
        /\ ~WorthCallingAct(job[a], Predicted(job[a], byLlm), eligible)
    /\ job' = [job EXCEPT ![a] = Idle]
    /\ UNCHANGED <<quota, load, todo, live, crashes, late, history>>

(* /act asks for a proposal when the model's class may act, by the entry
   that diagnosed it. *)
StartAct(a) ==
    /\ job[a].stage = "diagnosed"
    /\ \E byLlm, eligible, propose \in BOOLEAN :
        LET predicted == Predicted(job[a], byLlm)
        IN /\ byLlm => MayDrive(job[a])
           /\ propose => job[a].class \in AutoFixClasses
           /\ WorthCallingAct(job[a], predicted, eligible)
           /\ job' = [job EXCEPT ![a] =
                    [job[a] EXCEPT
                              !.stage = IF propose THEN "propose" ELSE "proposed",
                              !.i = IF propose THEN job[a].by ELSE 1,
                              !.byLlm = byLlm, !.predicted = predicted,
                              !.turn = 1, !.failures = 0, !.turns = {}]]
    /\ UNCHANGED <<quota, load, todo, live, crashes, late, history>>

(* The call /act hands to the gate: the model's own when its diagnosis
   drives, it may act, names the tool of the class and is safe. *)
Chosen(r, predicted, llmActs) ==
    IF /\ llmActs /\ r.offer # NoCall
       /\ r.offer.tool = ACTION_MAP[predicted].tool
       /\ CheckSafe(r.offer, r.seen, live)
    THEN <<r.offer, "llm">> ELSE <<ACTION_MAP[predicted], "deterministic">>

(* /act runs one call: the chosen one through the gate; or, for a prediction
   without a fix, the real class's fix as a safety net. *)
Act(a) ==
    LET r == job[a] IN
    /\ r.stage = "proposed"
    /\ \E llmActs, trusted, resized \in BOOLEAN :
        LET chosen == Chosen(r, r.predicted, r.byLlm /\ llmActs)
            run == DispatchWithGate(r.predicted, work.actual, chosen[1], r.seen, live)
        IN IF trusted /\ r.predicted \in AutoFixClasses
           THEN /\ live' = Applied(live, run, resized)
                /\ job' = [job EXCEPT ![a] =
                     [r EXCEPT !.stage = "acted", !.ran = run,
                               !.source = IF run = chosen[1] THEN chosen[2]
                                          ELSE "gate_substituted"]]
           ELSE IF trusted /\ work.actual \in AutoFixClasses
                   /\ r.predicted \notin AutoFixClasses
           THEN /\ live' = Applied(live, ACTION_MAP[work.actual], resized)
                /\ job' = [job EXCEPT ![a] =
                     [r EXCEPT !.stage = "acted", !.ran = ACTION_MAP[work.actual],
                               !.source = "ground_truth_safety_net"]]
           ELSE /\ job' = [job EXCEPT ![a] = [r EXCEPT !.stage = "acted"]]
                /\ UNCHANGED live
    /\ UNCHANGED <<quota, load, todo, crashes, late, history>>

(* The stub's word for a control episode is not the truth's. *)
DiagnosisMatches(predicted, actual) ==
    IF actual = "none" THEN predicted \in {NoAnomaly, "none"} ELSE predicted = actual

(* record_llm_trust: the scorer judges a primary-tier proposal after the fix
   and its durability window. *)
Judge(a) ==
    LET r == job[a] IN
    /\ r.stage = "acted"
    /\ job' = [job EXCEPT ![a] = [r EXCEPT !.stage = "judged", !.credit =
                  IF /\ r.offer # NoCall /\ work.actual \in AutoFixClasses
                     /\ EligibleActionForStreak(r.tier)
                  THEN IF ActionIsCorrect(work.actual, r.offer, r.seen, live)
                       THEN "right" ELSE "wrong"
                  ELSE None]]
    /\ UNCHANGED <<quota, load, todo, live, crashes, late, history>>

EndAct(a) ==
    /\ job[a].stage = "judged"
    /\ job' = [job EXCEPT ![a] = Idle]
    /\ UNCHANGED <<quota, load, todo, live, crashes, late, history>>

(***************************************************************************)
(* The surroundings                                                        *)
(***************************************************************************)
(* Time passes; at midnight the day's counters start again. *)
Tick ==
    /\ now < work.time
    /\ now' = now + 1
    /\ refused' = [e \in Entries |-> 0]
    /\ IF (now + 1) % TicksPerDay = 0
       THEN /\ calls' = [e \in Limited |-> 0] /\ neurons' = 0
            /\ sent' = [e \in Limited |-> 0] /\ lost' = [e \in Limited |-> 0]
       ELSE UNCHANGED <<calls, neurons, sent, lost>>
    /\ UNCHANGED <<marks, job, load, todo, live, crashes, late, again>>

OnTheWire(e) == {c \in Callers : Calling(c) /\ job[c].wire /\ job[c].i = e}

(* The agent process dies with all its threads; what was on the wire is never
   recorded. *)
Crash ==
    /\ crashes < work.crashes
    /\ crashes' = crashes + 1
    /\ lost' = [e \in Limited |-> lost[e] + Cardinality(OnTheWire(e))]
    /\ job' = [c \in Callers |-> Idle]
    /\ again' = {}
    /\ UNCHANGED <<quota, load, todo, live, late, sent, refused>>

(* The fix of an earlier /act, whose scorer has long gone, lands now. *)
LateFix ==
    /\ late < work.late /\ work.actual \in AutoFixClasses
    /\ late' = late + 1
    /\ \E resized \in BOOLEAN :
          live' = Applied(live, ACTION_MAP[work.actual], resized)
    /\ UNCHANGED <<quota, job, load, todo, crashes, history>>

(* Every request has been served. *)
AllServed ==
    /\ todo.diagnoses = 0 /\ todo.samples = 0
    /\ \A c \in Callers : job[c].stage = "idle"
    /\ UNCHANGED vars

Step(c) ==
    \/ Ask(c) \/ PostAgain(c) \/ Answer(c) \/ Undecodable(c)
    \/ c \in Agents /\ (EndDiagnose(c) \/ StartAct(c) \/ Act(c) \/ Judge(c) \/ EndAct(c))

Next ==
    \/ \E c \in Callers : Ask(c) \/ PostAgain(c) \/ Answer(c) \/ Undecodable(c)
    \/ \E a \in Agents : \/ StartDiagnose(a) \/ EndDiagnose(a) \/ StartAct(a)
                         \/ Act(a) \/ Judge(a) \/ EndAct(a)
    \/ \E s \in Samplers : StartSample(s)
    \/ Tick \/ Crash \/ LateFix \/ AllServed

(* A request has a timeout of thirty seconds and the handlers block on
   nothing else, so a handler that can step does. *)
Spec == Init /\ [][Next]_vars /\ \A c \in Callers : WF_vars(Step(c))

-----------------------------------------------------------------------------
TypeOK ==
    /\ now \in 0..work.time /\ neurons \in Nat
    /\ calls \in [Limited -> Nat] /\ sent \in [Limited -> Nat]
    /\ again \subseteq Callers
    /\ lost \in [Limited -> Nat] /\ refused \in [Entries -> Nat]
    /\ \A e \in Entries : Cardinality(marks[e]) <= 1
    /\ \A c \in Callers :
        /\ job[c].stage \in {"idle", "react", "diagnosed", "propose", "proposed",
                             "acted", "judged", "sample"}
        /\ job[c].wire \in BOOLEAN /\ job[c].i \in Entries
        /\ job[c].turn \in 1..MAX_TURNS /\ job[c].failures \in 0..1
        /\ job[c].by \in 0..Len(Chain)
        /\ job[c].credit \in {None, "right", "wrong"}
        /\ job[c].stage = "sample" <=> (c \in Samplers /\ Calling(c))
    /\ live \in [memory : Nat, cpu : Nat, replicas : Nat]

(* OverrunBounded: a daily limit is read before a call and charged after its *)
(* answer, by several threads, and not every request is charged: the calls a *)
(* crash or an exception ended are not, and a call of a Gemini entry may post*)
(* twice for one charge.  The requests of a day exceed the limit by no more  *)
(* than these and the calls of the other threads that had passed the check,  *)
(* whatever fails and is tried again (check_quota, record_call, call_one,    *)
(* _call_gemini; not the "exactly once per REAL request" of record_call).    *)
Posts(e) == IF Chain[e].provider = "gemini" THEN 2 ELSE 1

OverrunBounded ==
    \A e \in Limited :
        sent[e] <= Posts(e) * (Chain[e].limit + Cardinality(Callers) - 1 + lost[e])

(* PoolHolds: the safety threshold is what lets several threads share the    *)
(* Cloudflare pool without a reservation: the neurons charged in a day never *)
(* exceed the budget, whichever of the models spent them                     *)
(* (check_quota, get_today_neuron_usage).                                    *)
PoolHolds == neurons <= Budget

(* RefusalsBounded: after a 4006 nobody asks that model again until the      *)
(* cooldown is over or a success has shown it back: within one cooldown only *)
(* the threads already past the check are refused as well (mark_exhausted,   *)
(* is_marked_exhausted, clear_exhausted).                                    *)
RefusalsBounded ==
    \A e \in Entries : Chain[e].provider = "cloudflare" =>
        refused[e] <= Cardinality(Agents)

(* FreshTranscript: a provider never continues another one's transcript, and *)
(* a diagnosis is credited to the provider whose own turns led to it, however*)
(* many have failed before it in the same request ("each provider-chain      *)
(* entry gets a FRESH transcript (no carryover)", react_agent).              *)
FreshTranscript ==
    \A a \in Agents :
        /\ job[a].stage = "react" => job[a].turns \subseteq {job[a].i}
        /\ job[a].stage = "diagnosed" /\ job[a].by # 0 =>
                job[a].turns \subseteq {job[a].by}

(* ProposalBounded: "at most 3 real LLM calls per action proposal", to the   *)
(* diagnosing entry or the one after it and no other (propose_action).       *)
ProposalBounded ==
    \A a \in Agents : job[a].stage \in {"propose", "proposed"} =>
        /\ job[a].cost <= 3
        /\ job[a].stage = "propose" => job[a].i \in {job[a].by, job[a].by + 1}

(* What the stage of a handler says of the rest of it: who drives which      *)
(* stage, and what try and cost count while a proposal is being made.        *)
Fits(c, r) ==
    /\ c \in Samplers => r.stage = "idle" \/ (r.stage = "sample" /\ r.i \in Compared)
    /\ c \in Agents => r.stage # "sample"
    /\ r.stage \in {"idle", "react", "diagnosed"} => r.try = 1 /\ r.cost = 0
    /\ r.stage = "react" => r.by = 0
    /\ r.stage \in {"idle", "diagnosed"} => ~r.wire
    /\ r.by = 0 => r.class = None
    /\ r.stage = "propose" =>
          /\ r.class \in AutoFixClasses
          /\ \/ r.try \in 1..2 /\ r.i = r.by
             \/ r.try = 3 /\ r.i = r.by + 1
          /\ r.cost < r.try \/ (r.wire /\ r.cost = r.try)

HandlersFit == \A c \in Callers : Fits(c, job[c])

(* Charged: a call of the day has been charged, is on the wire or was lost,  *)
(* and has posted no more than its requests.                                 *)
Charged ==
    \A e \in Limited :
        sent[e] <= Posts(e) * (calls[e] + lost[e])
                   + Cardinality(OnTheWire(e)) + Cardinality(OnTheWire(e) \cap again)

(* Admitted: what has been charged and what is on the wire passed the check. *)
Admitted ==
    \A e \in Limited :
        calls[e] + Cardinality(OnTheWire(e)) <= Chain[e].limit + Cardinality(Callers) - 1

(* Posted: only a call on the wire to a Gemini entry has posted again.       *)
Posted ==
    \A c \in again :
        \E e \in Entries : Chain[e].provider = "gemini" /\ c \in OnTheWire(e)

(* Reserved: the neurons of the calls on the wire are still in the pool.     *)
Spending == {c \in Callers : /\ Calling(c) /\ job[c].wire
                             /\ Chain[job[c].i].provider = "cloudflare"}

Reserved == neurons + Cardinality(Spending) * NeuronCost <= Budget

(* Cooling: from the first 4006 on nobody new asks.                          *)
Cooling ==
    \A e \in Entries : Chain[e].provider = "cloudflare" =>
        /\ refused[e] > 0 => IsMarkedExhausted(e)
        /\ refused[e] + Cardinality(OnTheWire(e)) <= Cardinality(Agents)

(* AgentInv: what the threads of the agent spend at the providers stays      *)
(* within bounds, and none of them mixes up two providers (call_one,         *)
(* run_react_diagnosis, propose_action).                                     *)
AgentInv ==
    /\ TypeOK
    /\ OverrunBounded /\ PoolHolds /\ RefusalsBounded
    /\ FreshTranscript /\ ProposalBounded
    /\ HandlersFit /\ Charged /\ Admitted /\ Posted /\ Reserved /\ Cooling

(* OnlyTheRealFixRuns: when the injected class has a fix, whatever the stub, *)
(* the model and the proposer said, the tool that runs is that class's tool  *)
(* (_dispatch_with_gate and the ground-truth safety net of /act).            *)
OnlyTheRealFixRuns ==
    \A a \in Agents :
        job[a].ran # NoCall /\ work.actual \in AutoFixClasses =>
            job[a].ran.tool = ACTION_MAP[work.actual].tool

(* LlmFixIsAdequate: a fix sized by the model sets more than what is known to*)
(* fail (the injected memory and CPU limits, two replicas) and no more than  *)
(* the cap, whatever the readings of the episode were and although the       *)
(* validator alone admits zero replicas (validate_tool_call, check_safe and  *)
(* the veto of /act).                                                        *)
LlmFixIsAdequate ==
    \A a \in Agents :
        LET c == job[a].ran IN
        job[a].source = "llm" /\ c.tool \in MAGNITUDE_SENSITIVE_ACTIONS =>
            \A v \in Magnitude(c) :
                /\ v <= Cap[c.tool]
                /\ v > Injected[Sets[c.tool]]
                /\ c.tool = "scale_deployment" =>
                        v >= UNDER_PROVISIONED_VALIDATED_SAFE_REPLICAS

(* RightFixRuns: the tool is the real class's and its parameters are enough, *)
(* whoever diagnosed and whoever proposed (/act as a whole).                 *)
RightFixRuns == OnlyTheRealFixRuns /\ LlmFixIsAdequate

JudgedFairly(r) ==
    r.credit = "right" <=> /\ r.offer.tool = ACTION_MAP[work.actual].tool
                           /\ CheckSafe(r.offer, r.seen, r.levels)

(* FixDoesNotMoveTheBar: Dimension C judges a proposal after some fix, the   *)
(* model's own or the fixed one, has changed the target.  For memory and     *)
(* replicas the verdict is still the one the diagnosis' readings give        *)
(* (action_is_correct, check_safe: "same fix-immune discipline").            *)
FixDoesNotMoveTheBar ==
    \A a \in Agents :
        job[a].credit # None /\ job[a].offer.tool # "patch_cpu_limit" =>
            JudgedFairly(job[a])

(* StubNamesTheFault: the rules name the injected class whatever else the    *)
(* target shows once its metrics have caught up: restarts beside an OOM      *)
(* kill, an eviction or a bad image; the passive latency and throughput      *)
(* readings beside the frozen probe; metrics past a threshold calibrated for *)
(* another service; an old eviction; values exactly at the threshold.  On a  *)
(* target without a fault they name no class.  In two cases they are wrong,  *)
(* and always: a kill whose restart is older than the join's window, because *)
(* the query meant for it compares with a metric that does not exist, and a  *)
(* partition whose requests hung and were completed, without the probe       *)
(* (stub_diagnose, the gating of query_prometheus, oom_sticky_query).        *)
MisreadAs(class) ==
    CASE class = "oom" -> {"crash-loop", "under-provisioned-replicas",
                           NoAnomaly, LogAnomaly}
      [] class = "network-partition" -> {"network-latency"}
      [] OTHER -> {}

StubNamesTheFault ==
    \A a \in Agents : job[a].stage # "idle" /\ work.settled =>
        IF work.faint THEN job[a].stub \in MisreadAs(work.actual)
        ELSE DiagnosisMatches(job[a].stub, work.actual)

(* HintAgreesWithStub: the loop keeps its own copy of the thresholds and     *)
(* puts the class into the model's transcript ("this means diagnosis=...").  *)
(* In an episode with a frozen window, whenever it names one, the stub has   *)
(* named the same class: the two diagnosers the trust ladder compares are not*)
(* told different things about one number (_numeric_threshold_hit,           *)
(* stub_diagnose, snapshot_at).  A batch episode freezes none, and its two   *)
(* queries may differ.                                                       *)
HintAgreesWithStub ==
    \A a \in Agents : work.frozen /\ job[a].hint # NoAnomaly =>
        job[a].stub = job[a].hint

(* CpuBarStaysPut: the same of the CPU limit, which the check reads from the *)
(* Deployment, also when the resize of the pod fails and the fix goes to the *)
(* Deployment instead (check_safe, patch_cpu_limit).                         *)
CpuBarStaysPut ==
    \A a \in Agents :
        job[a].credit # None /\ job[a].offer.tool = "patch_cpu_limit" =>
            JudgedFairly(job[a])

(* RequestsEnd: every diagnosis, proposal and comparison that was started    *)
(* comes to its end, through failing providers, useless turns and rejected   *)
(* proposals: the threads all come to rest (run_react_diagnosis,             *)
(* propose_action, _compare_and_log).                                        *)
RequestsEnd == <>[](\A c \in Callers : job[c].stage = "idle")
=============================================================================
