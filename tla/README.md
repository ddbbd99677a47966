# A TLA+ model of wardence

wardence injects faults into a Kubernetes shop, lets an agent diagnose and, class
by class, fix them, checks every diagnosis and fix against ground truth, and lets
the agent act only where its record has earned it. This directory holds a model
of the parts of that system whose correctness depends on sequences of steps: the
injector and its lock, the diagnosis with its providers and quotas, the proposal
and the cage around it, the fix and its durability window, the scorer and the
trust tables it writes, the life of a live-triggered episode, and the batch
runner. TLC checks the model on small instances, TLAPS proves every safety property of
the passing runs for every instance.

Paths below are relative to `src/`. `p2/` stands for `p2_readonly_loop/` and
`p3/` for `p3_trust_action/`.

## 1. The system and its parts

All components share one SQLite database, `wardence.db`. Every Python function
commits its own small transactions, so the unit of atomicity is the commit and
not the function; this is where most of the interesting behaviour comes from.

| Component | State | Operations | Modelled in |
|---|---|---|---|
| Trust engine, Dimension A (`p3/trust_engine.py`) | `trust_state`, `trust_history` | `record_outcome`, `manual_set_state` | `TrustTables`, `TrustLadder`, `Scorer` |
| LLM trust, Dimensions B and C (`p3/llm_trust_state.py`) | `diagnoser_mode`, `action_trust` | `record_diagnoser_outcome`, `record_action_outcome`, manual setters, `reset_to_safe_defaults` | same |
| Circuit breaker (`p3/circuit_breaker.py`) | `failure_log`, five-minute window | `record_failure`, `check_circuit_breaker` | same |
| Misdispatch guard (`p3/misdispatch_guard.py`) | `misdispatch_log`, `safety_hold` | `record_misdispatch`, `clear_safety_hold`, `clear_all_safety_holds` | same |
| Operator overrides (`/promote`, `/demote`, command-line tools) | the trust tables | | `TrustLadder`, `Scorer` |
| Episode scorer (`p3/p3_scorer.py`) | `scores`; a process per episode | pick, diagnose, act, verify, judge, write, reset | `Scorer`, `Remediation`, `CartsRotation`, `Diagnosis` |
| Agent endpoints (`p3/p3_agent.py`, `p3/dispatch_gate.py`) | handler threads, the sampler's pool | `/diagnose`, `/act`, the veto, the gate, the safety net | `Scorer`, `Remediation`, `Diagnosis` |
| Stub rules (`p2/agent.py`) | none | `query_prometheus`, `stub_diagnose` | `StubRules` |
| ReAct loop (`p2/react_agent.py`) | one transcript per provider | turns, tool calls, hints | `Diagnosis`, `StubRules` |
| Providers and quotas (`p2/model_backend.py`, `p2/quota_tracker.py`) | `provider_quota_usage`, `provider_exhaustion` | `call_one`, `check_quota`, `record_call`, `mark_exhausted` | `Diagnosis` |
| Proposer, validator, trust gate, constraint checks | none | `propose_action`, `validate_tool_call`, `check_safe`, `action_is_correct` | `ActionSafety`, `Diagnosis` |
| Fix actions (`p3/actions.py`), verifier (`p3/verifier.py`) | the target's Deployment and pods | patch, scale, roll back, restore; open window, poll | `Remediation` |
| Carts warm standby (`p3/carts_rotation.py`, `p3/restore_carts_active.py`) | the Service selector | both flips, detached restore | `CartsRotation`, `Injector` |
| Fault injector (`p2/injector.py`) | the cluster, `episodes`, stop and evidence files | baseline, inject, verify, hold, clean up, record | `Injector` |
| System lock (`p2/injector.py`) | `system_lock` row | acquire, wait, give up, release | `SystemLock` |
| Live episode (`p3/operator_api.py`) | `episodes` row, threads, Timers, checkout pause | trigger, wrapper, hold, Gate 2, logout, reconciliation | `LiveEpisode` |
| Batch runner (`p2/run_batch_plan.py`, `p2/run_episodes.py`) | `batch_plan_progress.json` | plan, inject, score, count, pause, resume | `BatchPlan` |
| Demo caps, accounts, publication to R2, anomaly detectors, Java leak agent, frontend | | | not modelled (section 9) |

How they interact:

* `operator_api` inserts an `episodes` row, runs `injector.py` as a subprocess and
  later `p3_scorer.py`, both over the database. A batch runs the same two programs
  without `operator_api`.
* The injector takes `system_lock`, changes the cluster, and on success fills the
  row in (`record_episode`).
* The scorer asks the agent process over HTTP for a diagnosis and an action, waits
  for the durability verdict, and then writes trust.
* The agent reads Prometheus and kubectl, applies the stub's rules, asks the chain of
  providers, and applies a fix in a handler thread that no timeout of its client stops.
* Any trust row may be overwritten at any moment by an administrator.

What is hard here, and what would be wrong if it went wrong:

* **Crash between commits.** A scorer is killed at its timeout or with the API and
  the episode may be scored again: no streak may move twice.
* **Read-modify-write without a transaction.** Trust is read, then written.
* **Stale eligibility.** `/diagnose` says a class may act, `/act` acts later.
* **Many callers of one transition.** A click, a Timer, the wrapper thread and a
  reconciliation thread all try to resolve an episode.
* **Restart with surviving subprocesses.** Threads, Timers and the checkout pause are
  gone, the injector or the scorer may not be.
* **Guards by time.** A lock is stale after a margin; windows slide; deadlines kill.
* **A cluster that remembers.** A killed injector leaves limits, probes, images and
  chaos resources behind; a rollout goes on while its fix is being judged.
* **Check, call, charge.** A quota is read before a request and charged after it.
* **Judging after acting.** A proposal is compared with a target its fix has changed.

`PROJECT.json` lists the hazards one by one at the line where each bites.

## 2. The modules

`TrustTables` declares the tables and what each owning function writes: pure
operators on rows (`RecordOutcome`, `RecordDiagnoserOutcome`, `TripTrust`,
`HoldAfter`, ...), used by both modules that follow.

`RevocableTrust` is the abstract contract of one dimension: a class becomes trusted
by a full streak, a miss takes everything away, a reset takes trust from any number
of classes, an operator's override is counted; nothing else changes trust.

`TrustLadder` lets any sequence of calls happen to the tables, one call a step:
outcomes in the three dimensions, logged failures, trips, misdispatches, expiry of
both windows, and every override tool. Three history variables count the correct
outcomes since a class last lost what it had, three sets name the classes an operator
granted trust to. `ContractA`, `ContractB` and `ContractC` are the refinement mappings
into `RevocableTrust`.

`Scorer` splits one episode into the scorer's real steps. `pc` runs through
`diagnose, propose, dispatch, fix, judge, failure, breaker, reset, resetAction, clearHolds,
release, score, readA, writeA, misdispatch, hold, readB, writeB, readC, writeC`. Each step
is one commit or one request; reads and writes of a trust row are separate steps, and so
are `/act`'s reading of trust (`dispatch`) and the fix that goes out on it (`fix`). Any number
of scorers run at once; `Kill` ends one anywhere; operators override in between. The
answers of the rules, the LLM, the proposer, kubectl and the verifier are chosen
freely. A fix is named by the class it fixes, because `ACTION_MAP` gives each class a
tool of its own (`p3/p3_agent.py:350`).

`LiveEpisode` has, per episode, the row, the injector and scorer processes, the wrapper
thread, one thread per caller of `_attempt_resolve`, the orphan watcher and the Timer;
globally, the checkout pause and whether the API is up, down or reconciling. A terminal
transition is two steps, the commit and the un-pause that follows it, and so are the INSERT
and the pause of a trigger. Two threads have a guard, the wrapper and the orphan watcher: an
exception there fails the row (`guard`) and un-pauses (`release`). In any other thread an
exception ends the thread. `ResolverRaises` may come at every statement of
`_attempt_resolve`, its compare-and-set included.

`SystemLock` has the lock row, the processes and discrete time.

`Injector` has the cluster as one record `k8s` of what faults, fixes and clean-up change
in it (memory limit, surge, replicas, probes, image, selector, chaos resources, load
processes, the leak, the flood, ...), the process `run` with its local variables, the
`episodes` rows, the two control files and the lock as one bit. Each class goes through
`baseline, inject, verify, hold, clean` with the code's order, its retries and its own
early-stop rule; `Decide` and `DecideRegardless` are the two shapes of the loop's end.
`Kill`, an exception inside or outside a `try`, and, when `flaky`, any failing kubectl call may come
at any point; what a run leaves stays for the next one. `Fix` is the agent's fix landing
from outside. The CPU limit is two fields, of the pod and of the Deployment, because fix and
baseline change the one and a rollout brings back the other; so are the replicas asked
for and those available.

`Remediation` takes over where `/act` applies a fix: scorer, handler threads and the
Deployment controller (external) run side by side. `dep` is the Deployment with its
template generation, `pods` its pods, `act[h]` the handler of each scorer run, `window`
what happened to the target since the durability window opened. Each fix action is split
at its API calls and waits; each class has its `check_*` operator, and `Poll` is the
verifier's loop.

`CartsRotation` is the Service selector, the readiness of the two carts Deployments, the
scorer, the handler and one detached restore per episode.

`BatchPlan` is the runner's control flow from start to archive, with the progress in
memory (`mem`) and on disk (`file`) apart, the rows its injectors and scorers write,
orphans of a killed runner, and a live episode beside it.

`StubRules` and `ActionSafety` are pure: the queries each target gets, the ordered rules
and the loop's hints; the tool of each class, the validator, `check_safe`, the gate and
`action_is_correct`. `Diagnosis` puts them into the agent process: handler and sampler
threads, the chain, the quotas, the proposer and the judgement. A call to a provider is
two steps, `Ask` (check and send) and `Answer` (charge and go on), with two ways off that
path: `PostAgain` is Gemini's second request, `Undecodable` an answer whose exception leaves
`call_one` before it is charged. `Workloads` says which requests come, what the cluster may
show and what a model may answer; where it calls the metrics settled, they show the
fault (`Shows`), or what is left of it (`Faint`), or nothing (`AtRest`). Without a frozen window the
loop's own query is another reading than the stub's (`Reread`).

`MC*` modules only give the constants their values. `TrustLadderProofs`,
`ScorerProofs`, `LiveEpisodeProofs`, `SystemLockProofs`, `InjectorProofs`,
`RemediationProofs`, `BatchPlanProofs` and `DiagnosisProofs` hold the theorems on the module
each is named after (section 7). Operators whose name continues that of another
(`ReconciledGrace` before `Reconciled`) are plausible wrong versions of it; each
checked property is known to fail when one of them takes its original's place.

Correspondence worth knowing when reading the modules against the code:

* `record_outcome` commits the row and then the history entry. They are one step, as
  nothing reads `trust_history` to decide.
* A trip demotes Dimension A, then resets B and C class by class. The code's order of
  classes is a fixed list; the model takes them in any order.
* `_TRIGGER_LOCK` makes the in-flight check and the INSERT one step; winning the
  compare-and-set and cancelling the Timer are one step; registering a Timer and
  starting it are one step.
* `injector.py` installs no SIGTERM handler, so a terminated injector runs no `finally`
  block: `Terminate` and `Kill` leave the lock and the cluster as they are.
* In `Scorer`, the two SELECTs of the gate are one read, a trip's demotion of Dimension A is one
  step, and a killed scorer's `/act`, which goes on in the agent, is its own late fix.
* In `Remediation` the diagnosis is right and the class trusted; who may act is `Scorer`'s. An
  episode starts on a settled target; what else may be left of the one before is
  `Injector`'s (`CleanStart`), but for the CPU limit raised in the Deployment.
* In `Injector` a restart or a slow answer of a target is taken to come from the fault.
* A reading that may be `None` is a set with at most one element.
* The CPU fix resizes the pod in place and leaves the Deployment alone; only when the
  resize fails does it patch the Deployment (`Applied`).
* Cloudflare neurons are charged in units of the dearest call.
* Left out of `LiveEpisode`: `triggered_by`, `republished_at` and the audit rows (data
  nothing decides on), an exception inside reconciliation of one row (caught per row, which
  it leaves as it was), reuse of a pid, and the age-based in-flight
  test for rows without a state, which a database of live episodes does not have.

## 3. The runs

| Run | Result | What it asks |
|---|---|---|
| `ladder` | holds | Whatever sequence of calls hits the tables, does trust stay earned (`EarnedTrust`), is the inductive invariant right (`LadderInv`), and does each dimension implement the contract? |
| `scorer_retry` | holds | Two scorers on the same episode, one possibly killed and restarted, one override: `ScorerInv` (with `NoDoubleCount`), `RescueNeverCounts`, and that a fix decided on trust that is gone by then is the last one (`OneLateFix`). |
| `scorer_exclusive` | holds | Two episodes of different classes, scored one after the other, with a kill and an override: `EarnedAutonomy`, `MisdispatchReachesGuard`, `TripReachesEveryDimension`. |
| `live_crash` | holds | Two episodes, a crash, an exception under a guard and one without: `LiveInv` (`ScoredOnce`, `ResolvedMeansScored`), `SingleInFlight`, `CheckoutPause` (`PauseEndsWithEpisode`, `PausedWhileLeaking`), `TerminalIsFinal` and `InjectorNeverMeetsScorer`. |
| `live_progress` | holds | One episode of any class, two crashes, an exception under a guard: `EveryEpisodeEnds`, `AbandonHonoured`. |
| `lock` | holds | Three injectors, one of which may outlast the margin: `LockInv`, `ExclusionWithinMargin`, `OnlyStaleLocksAreTaken`, `DeadHolderNeverWedges`. |
| `injector` | holds | Two runs of any two of the twelve classes, live or batch, killed, stopped, raising, on a cluster that may fail: is what is recorded real and a stop heeded (`InjectorInv`: `RecordedIsReal`, `EvidenceIsKept`, `StopEndsRetries`), what was done undone (`TidyEnd`), the next run's start clean (`CleanStart`), the lock freed (`LockIsFreed`)? |
| `remediation` | holds | Two episodes, two scorer runs, handlers that outlive them, a rollout in progress: does the fix stay while it is judged (`FixHolds`), is the verdict what the pods did (`VerdictHonest`), is the disk really cleared and the target not left at zero (`RemediationInv`: `DiskCleared`, `NotLeftAtZero`), every handler finished (`HandlersEnd`)? |
| `batch` | holds | A plan through a kill, failures, pauses and resumes beside a live episode: `BatchInv` (`PlanIsComplete`, `ProgressIsReal`), `CountedIsScored`, `RecencyKept`, `StopIsHonoured`, `RunsEnd`. |
| `diagnosis` | holds | Quotas under concurrent calls, second posts, uncharged answers, midnight and a crash, the loop's transcripts and the proposer's bound (`AgentInv`: `OverrunBounded`, `PoolHolds`, `RefusalsBounded`, `FreshTranscript`, `ProposalBounded`); the end of every request (`RequestsEnd`); the call that runs (`RightFixRuns`: `OnlyTheRealFixRuns`, `LlmFixIsAdequate`) and its judgement (`FixDoesNotMoveTheBar`); the rules on what every fault leaves behind (`StubNamesTheFault`, `HintAgreesWithStub`). |
| `carts_restore` | violated | Does traffic come back from the warm standby after an episode? |
| `cpu_judged` | violated | Is a CPU proposal judged by the limit it was made against? |

`ScorerInv`, `LiveInv`, `InjectorInv`, `RemediationInv`, `BatchInv` and `AgentInv` are
conjunctions of a module's type invariant, the named parts in parentheses, and the parts
that make them inductive (section 7). Each part has its own definition and comment.

### What the violated runs show

* **`carts_restore`.** The scorer spawns the restore process before `/act` flips the
  Service to `carts-warm` (`p3/p3_scorer.py:491`). The process finds the selector still on
  `carts`, takes the work for done and exits; the flip that follows is undone only by an
  open status page or by the next crash-loop injection. The comment at
  `p3/p3_scorer.py:459` gives the early spawn as the cure for exactly this stranding.
* **`cpu_judged`.** `check_safe` reads the CPU limit from the live Deployment
  (`p3/constraint_checks.py:145`), before the fix and again when the scorer judges the
  proposal. When the in-place resize fails, the fix goes to the Deployment
  (`p3/actions.py:336`), and a correct proposal is then found not to be greater than the
  limit it has itself set. `p3/constraint_checks.py:159` describes the same mistake as
  fixed for replicas, where `FixDoesNotMoveTheBar` now holds.

### Conditions on the passing properties

Some properties hold only in behaviours without certain faults, and say so:

* `InjectorNeverMeetsScorer` excludes crashes and exceptions. After a restart, a scorer
  nobody has a pid for may run beside the next episode's injector
  (`p3/operator_api.py:2140`); after an exception in the wrapper, so may the injector
  it left running (the system lock then keeps a second injector away, not a scorer).
* `PausedWhileLeaking` excepts the episodes whose pause was taken away (`lostPause`): by a
  crash, which loses the flag by design (`p3/operator_api.py:101`), or by the late un-pause of
  an earlier memory-leak episode. The second needs no fault at all (section 4).
  `PauseEndsWithEpisode` excludes exceptions that end a thread.
* `TerminalIsFinal` lets a guard fail a row that is over, and the thread that waited for the
  scorer of a row which a guard had failed write the outcome. Both need an exception under a
  guard, at any statement of `_run_live_episode_inner`, `_wait_for_orphan` or the
  wrapper's own `_attempt_resolve`, the compare-and-set it loses included. No exception lets an
  episode that is over be in flight again.
* `AbandonHonoured` excludes crashes, `EarnedAutonomy` overlapping scorers
  (`Exclusive`), `MisdispatchReachesGuard` report-only ground truth, and
  `EveryEpisodeEnds` exceptions that end a thread: section 4 says what happens then.
* `OneLateFix` does not say that a fix is never sent without trust. `/act` reads trust
  (`p3/p3_agent.py:953`) before `check_safe` asks kubectl and before the fix
  is applied (`:778`); a trip, a hold or a demotion in between does not stop it. What holds is that
  each process is caught out at most once per class until the class may act again.
* `RecordedIsReal` and `TidyEnd` name the classes that a failing kubectl call or an
  exception outside a `finally` can fool. `CleanStart` allows chaos resources of killed runs, and
  names three leftovers that the baselines miss: a scale-up whose pods were not available when
  `_ensure_catalogue_replica_baseline` looked (`p2/injector.py:2541`), a CPU limit raised in the
  Deployment (`p3/actions.py:334`), which the baseline resets in the pod only and a later
  rollout brings back, and, after a run that raised, a session-db that the metric does not
  yet show at zero.
* `FixHolds` excepts an `/act` that outlived its scorer and the rollback of a rerun;
  `VerdictHonest` a watched pod older than the fix and a stale first reading, and, where
  a scrape is read, failures of the last two polls (thirty seconds, `p3/verifier.py:100`);
  `NotLeftAtZero` a failing API.
* `CountedIsScored` excepts an episode too old for the scorer and one with a later live
  episode recorded before it; `RecencyKept` Ctrl+C in the wait and a kill.
* `OverrunBounded` counts requests. It allows one call per other thread, as the check reserves
  nothing, one per call that a crash or an exception left uncharged, and two requests per
  call of a Gemini entry. `PoolHolds` is about charged neurons, and
  rests on the safety threshold covering one call of each handler (`ChainAssumption`).
* `StubNamesTheFault` is about metrics that have caught up with the fault (`settled`), on a
  target whose pods suffer from that fault only (`SettledAssumption`). For an OOM kill older than
  six minutes, and for a partition that completed its hung requests and was not probed, it says
  which wrong class is named instead (`MisreadAs`).
* `HintAgreesWithStub` is about episodes with a frozen window. A batch episode has none.

## 4. Known divergences

Where the code does not do what a comment or document says, or leaves a gap, and the
model was built to follow the code:

* **Trust.** `record_failure` commits before the `scores` row, so a scorer killed in between
  and run again logs the failure twice (`p3/p3_scorer.py:619`, against `:638`).
  `record_outcome` reads and writes in separate transactions: with a live and a batch
  scorer overlapping, a demotion can be lost (`p3/trust_engine.py:108`, against `:6`). A fix
  dispatched under a wrong class while the real fault is report-only makes
  `record_outcome` raise, and the misdispatch guard and Dimensions B and C are not reached
  (`p3/p3_scorer.py:707`, against `p3/misdispatch_guard.py:50`). A safety hold is not
  lifted because its pattern stopped (`p3/misdispatch_guard.py:24`). The dispatch gate sends
  out the real class's fix without reading whether that class may act
  (`p3/dispatch_gate.py:108`).
* **Live episodes.** `_attempt_resolve` is unguarded in a click's, the Timer's and
  reconciliation's thread: an exception leaves the row `resolving` and every trigger is
  refused until a restart (`p3/operator_api.py:1113`). The guards of the wrapper and of the orphan
  watcher fail the row without looking at it (`:1378`, `:2073`), also when another thread has
  taken it over. A terminal state is committed before the pause is lifted (`:1081`, `:1091`)
  and a trigger inserts its row before it pauses (`:1728`, `:1744`): a second memory-leak
  episode triggered in between is un-paused by the thread of the first, while its injector may
  be running, which the comment at `:1741` rules out. Reconciliation does not read
  `abandon_requested` (`:2114`, against `:1575`). The demo caps and the cooldown are checked
  outside `_TRIGGER_LOCK`.
* **Lock.** A live cpu-throttling run may last 900 seconds (`p3/operator_api.py:344`), a lock is
  stale after 600 (`p2/injector.py:1056`), so it may overlap the next run; theorem `Overlap`
  says that nothing else can.
* **Injector.** A terminated injector leaves its StressChaos behind
  (`p3/operator_api.py:1467`). A failed batch memory-leak leaves a `pending` row
  (`p2/injector.py:5072`). `_ensure_cpu_throttle_baseline` takes it that the CPU fix never touches
  the Deployment (`p2/injector.py:2451`), which it does when the resize fails
  (`p3/actions.py:334`); the limit raised there outlives the baseline.
* **Fixes.** The rollback of a rerun rolls forward to the bad image. The CPU resize takes the
  first Running pod, which need not be the watched one. "ALWAYS scale back up"
  (`p3/actions.py:513`) does not cover a list call that raises or an agent that dies. The
  comment at `p3/verifier.py:682` on pod identity does not hold while the new pod is not
  Running. The timeouts of `/diagnose` and `/act` add up to more than the scorer's own.
* **Batch.** `injector.py` exits 1 on a failure, so the first failed injection pauses the
  plan and the branch that gives a class up after three cannot be reached
  (`p2/run_batch_plan.py:681`). The progress file is not written atomically. Ctrl+C in the
  recency wait injects at once. A new plan forgets the last fault times. An episode the
  scorer refuses as too old is still counted.
* **Diagnosis.** The query for an older OOM kill compares the container's age with
  `OOM_STICKY_MAX_CONTAINER_AGE_S` as literal text (`p2/agent.py:473`): there is no such
  metric, so the branch at `:860` never fires, and a kill whose restart is more than six
  minutes old is taken for something else or for nothing, against the comment at `:438`. The
  injector's own query fills the number in (`p2/injector.py:2261`), so it is not "the EXACT
  same" query (`:2255`). A partition without the probe whose requests hung and were
  completed is named network-latency (`p2/agent.py:84`). `_call_gemini` posts a second
  request on the logprobs 400 (`p2/model_backend.py:136`), neither checked nor charged,
  against "exactly once per REAL request" (`p2/quota_tracker.py:278`), and an answer that is
  not JSON raises past the charge (`:161`). In a batch episode the loop queries again, live
  (`p2/agent.py:317`), so its readings need not be those the stub has judged. The numeric
  hint for `catalogue_probe_p95_ms` never fires, because the reading is a number and
  `_numeric_threshold_hit` expects a record. The loop's guidance names 130 ms where
  `WARDENCE_UPR_PROBE_THRESHOLD_MS` may be larger. `check_safe` uses the replica count of
  the diagnosis, though `p2/agent.py:885` speaks of a live read before dispatch. After the
  cooldown every thread is let through, not "one real attempt", and a success under way
  clears a newer mark. Failed Cloudflare calls are charged no neurons, and a crash loses the
  charge of what was under way. The validator admits zero replicas and does not compare
  `name` with the episode's target; the veto and the gate do the rest.

## 5. Bounds, and why they are enough

* **Thresholds** are 1 or 2 instead of 5 and 3. Every comparison is of the form
  `streak + 1 >= threshold`; with 2 there is a class below, at and above the threshold.
  `scorer_retry` uses 1, since one episode is all it scores.
* **Classes.** `ladder` has one auto-fix class and the `none` control: calls on different
  classes touch different rows and only a trip touches all. `scorer_exclusive` has two
  auto-fix classes, so that gate, misdispatch and hold happen. `injector` has all
  twelve, `remediation` all six with a fix.
* **Scorers and episodes.** A double count needs two scorers on one episode or one killed
  scorer and a retry; both fit two scorers, one episode, one kill.
* **Live episodes.** Two are enough for one episode to disturb the next. One click per
  episode, because a second click only adds another loser of the compare-and-set next
  to the Timer. `live_crash` uses a class that waits for a click (disk-full) and a
  report-only one (memory-leak), and no hold, which keeps it at 2.2 million states: a hold
  only adds a state before the injector's exit, and `live_progress` has it, for memory-leak
  and for crash-loop, which is both held and fixed. The proofs cover both together. Episodes
  are interchangeable (symmetry) in `live_crash`. One exception under a guard and one without
  are enough for each to meet a crash and a second episode.
* **Crashes**: one with two episodes; two with one, so that a crash during
  reconciliation happens.
* **Lock.** Time is in units of 100 seconds: margin 6, ceilings 9 and 5, wait 1 (30 seconds
  rounded up). Three injectors let a takeover be followed by a third attempt while the
  first still runs.
* **Injector.** Two runs, the code's three attempts: what a run leaves can reach the next,
  and a retry can follow a retry.
* **Remediation.** Two episodes and two scorer runs let a handler of the first run meet a
  rerun or the next episode; three pods let a rollout happen twice; a window of three
  polls is one longer than the scrape's lag, so that there is a failure no check can miss.
* **Batch.** Two classes on two targets with different windows, one of them asked for twice,
  so that one runs out in the middle of a pair; two starts, four attempts, one kill.
* **Diagnosis.** Two handlers and a sampler; a Cloudflare entry, a Gemini entry of one
  request a day and another entry of one; two turns; a day of two cooldowns, crossed once.
  That two Cloudflare models share one pool is covered by the proof alone. The stub's readings are
  the values just below and at each threshold. One episode for each sized fix, because
  the check of one tool reads nothing of another's.
* **Carts and CPU** (violations): one episode.
* `StreakBound`, `FailureBound`, `MisdispatchBound`, `OverrideBound`, `KillBound`,
  `CrashBound`, `GuardedFaultBound`, `UnguardedFaultBound`, `MaxRuns`, `MaxEpisodes`, `MaxPods`,
  `MaxStarts`, `MaxRows`, `MaxKills` and the `time`, `crashes` and `late` of a workload cap
  counters in guards.

The scorer, injector, remediation, batch and carts runs do not check deadlock: when
every run allowed by the bounds is over, the model has nothing left to do. The ladder, live,
lock and diagnosis runs do check it.

## 6. Fairness

`live_progress` assumes weak fairness of: the wrapper's steps, each
resolver's steps, a registered Timer, the orphan watcher, the exit of a running
injector or scorer, and the restart with its reconciliation. Threads are scheduled by
the operating system; `threading.Timer` fires; every poll in the injector is bounded
and a live one is terminated at its deadline; the scorer's HTTP calls have timeouts
and the whole is cut at `SCORER_TIMEOUT_S`; someone starts a crashed API again, which
is what `_reconcile_on_startup` is for. Nothing
is assumed about clicks, logouts, timeouts, confirmed evidence, or exceptions.

`lock` assumes that time passes and that a process's own next step happens; `injector`
the next step of a running injector and the passing of the staleness margin;
`remediation` the next step of a handler thread, whose waits all have deadlines, and
nothing about pods; `batch` the next step of the runner, whose subprocesses end as above,
and the passing of time; `diagnosis` the next step of a handler or sampler, whose
requests time out after thirty seconds; `carts_restore` that processes go on and that
carts boots, and nothing about pages or further episodes.

## 7. What is proved

Each theorem holds for every value of the constants its module admits: any number of
classes, scorers, episodes, clicks, injectors, threads, provider entries, pods, polls,
attempts and kills, any thresholds, margins and windows. Every invariant and every
action property of the passing runs is stated by one. The argument is the same
throughout: an invariant is strengthened until every action keeps it, and TLC checks
the strengthening before it is proved. What had to be added tells why the code works.

**Trust ladder** (`TrustLadderProofs`).

* `LadderInvariant`: `Spec => []LadderInv`. `EarnedTrust` alone is not inductive: that a
  class is promoted rightly depends on its *displayed* streak being no longer than its
  real history, and that a later miss takes trust away on state and streak agreeing.
  `LadderInv` adds `StreakShowsTrust` (a class acts exactly when its streak is full) and
  `BackedTrust`, `BackedMode`, `BackedAction` (a row no operator touched claims no more
  than its history). `TrustIsEarned` follows.
* `AutonomyIsRevocable`, `LlmTrustIsRevocable`: the three dimensions implement
  `RevocableTrust`; every step maps to an abstract step or a stutter. B and C share the
  resets of a trip, and each sees them as its own.

**Scorer** (`ScorerProofs`).

* `ScorerInvariant`: no episode moves a streak twice, with any number of scorers on it and
  kills anywhere. `CountsOnce` is the reason: the row in `scores` is a ticket that one
  process can win, and whoever holds it has not yet moved the counters still ahead of it.
  `JobsFit` says that a process about to write a table holds a row of that table.
* `RescuesNeverCount` and `MisdispatchesAreLogged` add what a process owes from its
  dispatch on (`RescueIsMiss`, `GuardIsOwed`).
* `LateFixesEnd`: `OneLateFix`, strengthened to `LateBounded`: a process that stands between its
  reading of trust and its fix has sent no late fix on that account yet, because it could
  only have come there while the class might act, and then the count starts anew.
* `AutonomyIsEarned`, `TripIsComplete`: under `Exclusive`, from `ExclusiveInv`: a row that was
  read is still what the table holds (`OneWriter`), a streak is no longer than the history
  behind it (`Backed`), and a trip under way keeps what it has reset (`TripSticks`).
  Without `Exclusive` both fail (section 4).

**Live episode** (`LiveEpisodeProofs`).

* `LiveInvariant`: `ThreadsFit` says which thread owns a row in which state (the injector's
  wrapper first, then the one thread past the compare-and-set) and that only a guard writes a
  row which its thread does not own, `DownIsQuiet` that a dead
  API has no threads and that what reconciliation read stays true until it acts,
  `ScorerIsOwed` that the scorer's exit code tells of its row.
* `OneInFlight`, `OverIsOver` and `PauseFollowsEpisode` follow from it step by step, with any
  number of exceptions at any statement. For the pause, every episode in flight has either its
  flag or a thread that took it, and `lostPause` records which.
* `InjectorAndScorerApart` adds `ProcessesOwned` (without crash and exception a process runs
  only while its row is in flight; a Timer fires once), `AbandonIsFinal` adds
  that an abandoned row keeps its mark and can no longer reach a scorer (`Barred`).

**System lock** (`SystemLockProofs`).

* `LockInvariant`: a run not older than the margin holds the lock, which is exactly as
  old as the run. The equality of ages is what makes it inductive: it is how an
  acquisition of a stale lock knows that it robs nobody but an overdue run.
* `MarginExclusion`: two runs overlap only if one has outlasted the margin. `Overlap`: and
  that one has a ceiling above the margin (`Slow`). In the code this is the live cpu-throttling
  run alone, so every other pair of injectors excludes each other without a hypothesis.
  `OnlyStale`: the action property, including late releases.

**Injector** (`InjectorProofs`). `InjectorInvariant`, `RunsEndTidy`, `RunsStartClean` need each
other and are proved together. `Course` says how far a run must have come to be where
it is, `SeenIsThere` that a fault which was seen is in the cluster, `StopIsSeen` that the
attempt after a stop notices it, `Leftovers` whose the resources in the cluster are:
those of the run at work, or of a run that was killed. `RunsStartClean` holds with the three
leftovers that `CleanStart` names, and no other, for any number of runs and fixes.

**Fixes** (`RemediationProofs`). `HandlersDoTheirWork`, `FixesHold`, `VerdictsAreHonest` are proved
together as well. `HandlersFit` and `ScorerFits` say where handler, scorer and pods stand to
one another; `OldPodsGo` why a disk-full fix that saw no Running pod has replaced all it
found; `ZeroIsOwned` that whoever scaled to zero is still there to scale up; `OneCurrentPod`
that a target of one replica has one pod of the current template; `FixStands` and `WindowFits`
that what the fix set is there from the answer of `/act` to the verdict, and what the
record of the window and the verifier's readings say of each other: a scrape that lags two
polls has seen what happened by the poll before those. The window may have any length.

**Batch** (`BatchPlanProofs`). `BatchInvariant` with `AtWork` (from start to count the attempt is
the runner's own, whatever orphans do), `MemoryIsReal` (an episode just recorded is not
counted yet), `FaultsKnown` and `Stopping`; `CountedWasScored`, `RecencyIsKept` and
`StopTakesEffect` follow. That a chunked or interleaved plan asks for what was asked
is `PlanAssumption`: the builders are recursive functions over counts, so TLC evaluates
it for the counts of the run.

**Diagnosis** (`DiagnosisProofs`).

* `AgentInvariant`: what an entry was sent is covered by its charged and lost calls, two
  posts each for Gemini, and by what is on the wire (`Charged`, `Posted`); charged and on
  the wire have passed the check (`Admitted`); the neurons of the calls on the wire are
  still in the pool (`Reserved`, by `ChainAssumption`); after a refusal nobody new asks
  (`Cooling`). `HandlersFit` bounds a proposal's calls.
* `TheRightFixRuns`, `TheBarStaysPut`: what a handler knows and has done at each stage (`Fixed`,
  in the proof module). The validator, the floors of `check_safe` and the gate together
  imply that a fix sized by a model is enough, for all numbers.
* `HintsAgree`: every threshold of the loop's own table names the class the rules name,
  because only one numeric reading is asked for per service.
* `TheFaultIsNamed`: the rules name the injected class from *any* reading that shows it
  (`Shows`), with whatever other services' metrics and later rules' signals beside it, and
  none at rest (`AtRest`). Where only the query that matches nothing, or the fallback metrics
  of an episode without a probe, would show it (`Faint`), every reading is misread. What a
  fault shows is the assumption `SettledAssumption` on the
  cluster; TLC finds it true of the run's readings, which the MC module lists apart.

**Assumptions.** Only the modules' named ASSUMEs, which TLC evaluates in the runs:
disjoint class sets, positive thresholds, natural bounds and ceilings
(`TablesAssumption`, `LadderAssumption`, `ScorerAssumption`, `LiveEpisodeAssumption`,
`SystemLockAssumption`, `InjectorAssumption`, `RemediationAssumption`, `BatchAssumption`,
`ThreadAssumption`); finitely many handlers and a safety threshold that covers one call
of each (`ChainAssumption`); natural readings, and a probe on `orders` only
(`WorkloadAssumption`); and the two just named.

**Only model-checked.** Everything about liveness, since fairness and `ENABLED` are out of
the prover's reach: `EveryEpisodeEnds`, `DeadHolderNeverWedges`, `LockIsFreed`, `HandlersEnd`,
`RunsEnd`, `RequestsEnd`. What the plan builders compute. And, of course, the two
violations.

## 8. Plan

Done: the modules above, and a theorem for each safety property of the passing runs.
What is left:

1. The refinement of a scorer's episode to the calls of `TrustLadder` under `Exclusive`:
   today both are proved to earn trust, each by its own invariant.
2. `PlanAssumption` for `--plan`, whose builder is not recursive, as a lemma.
3. The provider chain's OpenRouter rationing and the batch runner's statistics, if they come to
   decide anything.

## 9. Not modelled

Prometheus, Chaos Mesh, k6 and the Kubernetes controllers are external: the model has what
the code makes them do and what they may answer. The statistical detectors, the Java leak
agent's heap controller, password hashing and tokens, the export to R2 and the frontend have
no protocol state of their own. The demo caps are counters read and written by one request.
Of the modelled components, these parts are left out: the OpenRouter rationing of comparison
calls (whether one is let in is a choice), the reasoning stream, deployment and container
names, unusual quantity suffixes, the statistics of the batch runner and its baseline
checks' detail. What an LLM answers is an input: the model shows what the system does with
any answer, not that an answer is right.

## 10. Running it

    tlc -config MCLiveCrash.cfg MCLiveEpisode
    tlapm TrustLadderProofs.tla

`PROJECT.json` pairs every run with its module and configuration, and every
definition with the source lines it stands for.
