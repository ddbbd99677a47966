---------------------------- MODULE Remediation ----------------------------
(***************************************************************************)
(* Applying and judging a fix: p3_scorer.main() from its request to /act   *)
(* to the end, the /act handler's dispatch, the fix actions of actions.py, *)
(* and the durability window of verifier.py. CartsRotation has the warm    *)
(* standby that /act switches to after a restart of carts.                 *)
(*                                                                         *)
(* The scorer, the handler thread of the agent and the Deployment          *)
(* controller run side by side. A scorer may be killed (SCORER_TIMEOUT_S)  *)
(* or give up on its request (ACT_TIMEOUT_S); the handler goes on, beside  *)
(* a rerun of the scorer or the next episode. Who may act, and what a      *)
(* verdict does to trust, is in Scorer: here the diagnosis is right and    *)
(* the class trusted.                                                      *)
(*                                                                         *)
(* Two episodes of one class, so of one Deployment. A poll interval of the *)
(* verifier (15 s) is the unit of time of a window.                        *)
(***************************************************************************)
EXTENDS Naturals, Sequences, FiniteSets, SequencesExt

CONSTANTS
    Classes,        \* the fault classes to choose from
    MaxRuns,        \* bound on runs of p3_scorer.py
    MaxEpisodes,    \* bound on injected episodes
    MaxPods,        \* bound on pods the Deployment ever has
    WINDOW          \* polls in a durability window

ACTION_MAP ==
    [c \in {"crash-loop", "oom", "disk-full", "cpu-throttling",
            "under-provisioned-replicas", "bad-rollout"} |->
        CASE c = "crash-loop" -> "restart_deployment"
          [] c = "oom" -> "patch_memory_limit"
          [] c = "disk-full" -> "restore_from_disk_full"
          [] c = "cpu-throttling" -> "patch_cpu_limit"
          [] c = "under-provisioned-replicas" -> "scale_deployment"
          [] c = "bad-rollout" -> "rollback_deployment"]

ASSUME RemediationAssumption ==
    /\ Classes \subseteq DOMAIN ACTION_MAP
    /\ {MaxRuns, MaxEpisodes, MaxPods, WINDOW} \subseteq Nat \ {0}

VARIABLES
    class,      \* the fault class of this behaviour
    dep,        \* the target's Deployment: what patches change
    pods,       \* its pods, oldest first, dead ones included
    episode,    \* the current episode: number, scored, scorer runs so far,
                \* the next injector at work
    scorer,     \* the run of p3_scorer.py
    act,        \* the /act handler of each run
    broken,     \* API calls may fail
    window      \* what happened to the target since the window opened

vars == <<class, dep, pods, episode, scorer, act, broken,
          window>>

Runs == 1..MaxRuns
tool == ACTION_MAP[class]

\* Classes whose fault shows as restarts (or throttled periods) of a pod, and
\* those whose durability window watches one pod.
Restarting == {"crash-loop", "oom", "cpu-throttling"}
Watched == Restarting \cup {"disk-full"}

\* "ready" is Running and Ready, "running" Running only, "failing" waits in
\* ImagePullBackOff, "dying" has a deletionTimestamp and is still Running. A
\* pod appears here when it is Running or failing.
Phases == {"failing", "running", "ready", "dying", "gone"}
Pod == [phase : Phases, gen : Nat, restarts : 0..1]
Running == {p \in DOMAIN pods : pods[p].phase \in {"running", "ready", "dying"}}
Alive == {p \in DOMAIN pods : pods[p].phase \notin {"dying", "gone"}}

NoRun == [n |-> 0, pc |-> "idle", replicas |-> 0, polls |-> 0,
          pod |-> 0, base |-> 0, was |-> 0, seen |-> 0, verdict |-> "none"]
NoAct == [pc |-> "none", ok |-> TRUE, gone |-> FALSE, replicas |-> 0, old |-> {}]
NoWindow == [hurt |-> {}, recent |-> {}, before |-> {}, stale |-> FALSE,
             late |-> FALSE]

Ended(pc) == [NoRun EXCEPT !.n = scorer.n, !.pc = pc]

Handling(h) == act[h].pc \notin {"none", "done", "died"}

Histories == {<<"good">>, <<"good", "bad">>, <<"bad", "good">>}
Deployment ==
    [replicas : 0..3, limit : {"base", "raised"}, gen : Nat, history : Histories]
ScorerRun ==
    [n : 0..MaxRuns,
     pc : {"idle", "diagnose", "wait", "capture", "poll", "score", "reset",
           "done", "dead"},
     replicas : 0..3, polls : 0..WINDOW, pod : 0..MaxPods, base : 0..1,
     was : 0..1, seen : 0..1, verdict : {"none", "failed", "confirmed", "flapped"}]
Handler ==
    [pc : {"none", "apply", "resize", "gone", "up", "back", "reply", "done",
           "died"},
     ok : BOOLEAN, gone : BOOLEAN, replicas : 0..3, old : SUBSET (1..MaxPods)]

\* The pods hurt since the window opened; those of them hurt by the last poll,
\* and by the one before it.
Record ==
    [hurt : SUBSET (1..MaxPods), recent : SUBSET (1..MaxPods),
     before : SUBSET (1..MaxPods), stale : BOOLEAN, late : BOOLEAN]

TypeOK ==
    /\ class \in Classes
    /\ dep \in Deployment
    /\ pods \in Seq(Pod) /\ Len(pods) <= MaxPods
    /\ episode \in [n : 0..MaxEpisodes, scored : BOOLEAN, runs : 0..MaxRuns,
                    next : BOOLEAN]
    /\ scorer \in ScorerRun
    /\ act \in [Runs -> Handler]
    /\ broken \in BOOLEAN
    /\ window \in Record

Init ==
    /\ class \in Classes
    /\ dep = [replicas |-> 1, limit |-> "base", gen |-> 1,
              history |-> <<"good">>]
    /\ pods = <<[phase |-> "ready", gen |-> 1, restarts |-> 0]>>
    /\ episode = [n |-> 0, scored |-> TRUE, runs |-> 0, next |-> FALSE]
    /\ scorer = NoRun
    /\ act = [h \in Runs |-> NoAct]
    /\ broken \in BOOLEAN
    /\ window = NoWindow

-----------------------------------------------------------------------------
(* Kubernetes: the Deployment controller and the kubelet.                  *)

K8sUnchanged == UNCHANGED <<class, episode, scorer, act, broken>>

\* A new pod for the current template; a bad image cannot be pulled.
CreatePod ==
    /\ Len(pods) < MaxPods
    /\ Cardinality({p \in Alive : pods[p].gen = dep.gen}) < dep.replicas
    /\ pods' = Append(pods,
            [phase |-> IF Last(dep.history) = "bad" THEN "failing" ELSE "running",
             gen |-> dep.gen, restarts |-> 0])
    /\ K8sUnchanged /\ UNCHANGED <<dep, window>>

\* A pod that is removed takes its metrics with it.
Without(p) == [pods EXCEPT ![p].phase = "gone", ![p].restarts = 0]

PodProgress(p) ==
    /\ \/ pods[p].phase = "running" /\ pods' = [pods EXCEPT ![p].phase = "ready"]
       \/ pods[p].phase = "dying" /\ pods' = Without(p)
    /\ K8sUnchanged /\ UNCHANGED <<dep, window>>

\* A rollout retires a pod of an older template once a newer one is ready; a
\* pod above the replica count is retired at once.
RetirePod(p) ==
    /\ p \in Alive
    /\ \/ pods[p].gen < dep.gen
          /\ \E q \in Alive : pods[q].gen = dep.gen /\ pods[q].phase = "ready"
       \/ Cardinality({q \in Alive : pods[q].gen = dep.gen}) > dep.replicas
       \/ dep.replicas = 0
    /\ pods' = IF pods[p].phase = "failing" THEN Without(p)
               ELSE [pods EXCEPT ![p].phase = "dying"]
    /\ K8sUnchanged /\ UNCHANGED <<dep, window>>

\* The fault shows again: a disk-full pod is evicted, any other restarts in
\* place (or, for cpu-throttling, is throttled again). Restarts are
\* counted from the injection on, one per pod, once a fix is there to judge.
PodFails(p) ==
    /\ scorer.pc \in {"capture", "poll"}
    /\ pods[p].phase \in {"running", "ready"}
    /\ \/ /\ class = "disk-full"
          /\ pods' = Without(p)
       \/ /\ class \in Restarting
          /\ pods[p].restarts = 0
          /\ pods' = [pods EXCEPT ![p].phase = "running", ![p].restarts = 1]
    /\ window' = IF scorer.pc = "poll" THEN [window EXCEPT !.hurt = @ \cup {p}]
                 ELSE window
    /\ K8sUnchanged /\ UNCHANGED <<dep>>

\* The newest Running pod without a deletionTimestamp.
current_pod_name_live ==
    LET alive == Running \cap Alive
    IN IF alive = {} THEN 0 ELSE CHOOSE p \in alive : \A q \in alive : q <= p

\* A new pod template: a new ReplicaSet.
NewTemplate(d) == [d EXCEPT !.gen = @ + 1]

-----------------------------------------------------------------------------
(* The injector, as far as it touches the target: its baseline, then the    *)
(* fault. Injector has the details.                                         *)

Quiet == scorer.pc \in {"idle", "done", "dead"}

\* _ensure_oom_baseline and _ensure_catalogue_replica_baseline for catalogue;
\* _ensure_cpu_throttle_baseline for user, when it has to patch the Deployment.
LimitBaseline ==
    LET d == [dep EXCEPT !.replicas = 1, !.limit = "base"]
    IN IF dep.limit = "base" THEN d ELSE NewTemplate(d)

\* The next injector starts when the episode before it is over: scored, or
\* given up because its scorer died. The CPU limit is reset by a resize of the
\* pod where that works, and a raised Deployment stays as it is.
EnsureBaseline ==
    /\ Quiet /\ episode.n < MaxEpisodes /\ ~episode.next
    /\ episode.scored \/ scorer.pc = "dead"
    /\ dep' \in CASE class \in {"oom", "under-provisioned-replicas"} -> {LimitBaseline}
                  [] class = "cpu-throttling" -> {dep, LimitBaseline}
                  [] class = "bad-rollout" /\ Last(dep.history) = "bad" ->
                        {NewTemplate([dep EXCEPT !.history = <<"bad", "good">>])}
                  [] OTHER -> {dep}
    /\ episode' = [episode EXCEPT !.next = TRUE]
    /\ UNCHANGED <<class, pods, scorer, act, broken, window>>

\* A recorded fault on a settled target. A live cpu-throttling run ends by
\* restoring user's probes, which starts a rollout. Pods and templates are
\* numbered anew from here.
Inject ==
    /\ episode.next
    /\ dep.limit = "base" \/ class = "cpu-throttling"
    /\ dep.replicas = 1 /\ Last(dep.history) = "good"
    /\ \E p \in Alive :
        /\ Running = {p} /\ pods[p].phase = "ready" /\ pods[p].gen = dep.gen
        /\ pods' = CASE class \in Restarting ->
                        <<[phase |-> "running", gen |-> 1, restarts |-> 0]>>
                     [] class = "disk-full" -> << >>
                     [] OTHER -> <<[pods[p] EXCEPT !.gen = 1]>>
    /\ \E live \in BOOLEAN :
        dep' = CASE class = "bad-rollout" ->
                        [dep EXCEPT !.gen = 2, !.history = <<"good", "bad">>]
                 [] class = "cpu-throttling" /\ live -> [dep EXCEPT !.gen = 2]
                 [] OTHER -> [dep EXCEPT !.gen = 1]
    /\ act' = [h \in Runs |-> [act[h] EXCEPT !.old = {}]]
    /\ episode' = [n |-> episode.n + 1, scored |-> FALSE, runs |-> 0,
                   next |-> FALSE]
    /\ window' = NoWindow
    /\ UNCHANGED <<class, scorer, broken>>

-----------------------------------------------------------------------------
(* p3_agent.act and actions.py. A step that changes the target sets late    *)
(* when nobody waits for its answer any more.                               *)

Waited(h) == scorer.n = h /\ scorer.pc = "wait"

MarkLate(h) == window' = [window EXCEPT !.late = @ \/ ~Waited(h)]

ActTo(h, pc) == act' = [act EXCEPT ![h].pc = pc]
ActFails(h, pc) == act' = [act EXCEPT ![h].pc = pc, ![h].ok = FALSE]

\* patch_cpu_limit resizes the first Running pod in place; without one, or
\* when the API refuses, it patches the Deployment.
patch_cpu_limit(h) ==
    /\ act[h].pc = "resize"
    /\ \/ Running # {} /\ ActTo(h, "reply") /\ MarkLate(h)
       \/ (Running = {} \/ broken) /\ ActTo(h, "apply") /\ UNCHANGED window
    /\ UNCHANGED <<class, dep, pods, episode, scorer, broken>>

\* The revision below the current one becomes the newest.
rollback_deployment == [dep EXCEPT !.history = <<@[2], @[1]>>]

\* The replicas of the proposal, or of FIX_PARAMS.
scale_deployment(h) == [dep EXCEPT !.replicas = act[h].replicas]

\* What an accepted patch asks of the Deployment.
Patch(h) ==
    CASE tool = "restart_deployment" -> NewTemplate(dep)
      [] tool \in {"patch_memory_limit", "patch_cpu_limit"} ->
            IF dep.limit = "raised" THEN dep
            ELSE NewTemplate([dep EXCEPT !.limit = "raised"])
      [] tool = "scale_deployment" -> scale_deployment(h)
      [] tool = "rollback_deployment" -> NewTemplate(rollback_deployment)

\* _patch_deployment, and scale_deployment likewise: dry run, then the patch;
\* the answer comes when the API server accepts it.
patch_deployment(h) ==
    /\ act[h].pc = "apply" /\ tool # "restore_from_disk_full"
    /\ \/ /\ tool = "rollback_deployment" => Len(dep.history) > 1
          /\ dep' = Patch(h)
          /\ ActTo(h, "reply") /\ MarkLate(h)
       \/ /\ broken \/ (tool = "rollback_deployment" /\ Len(dep.history) = 1)
          /\ ActFails(h, "reply") /\ UNCHANGED <<dep, window>>
    /\ UNCHANGED <<class, pods, episode, scorer, broken>>

\* restore_from_disk_full: to zero ...
ScaleDown(h) ==
    /\ act[h].pc = "apply" /\ tool = "restore_from_disk_full"
    /\ \/ /\ dep' = [dep EXCEPT !.replicas = 0]
          /\ act' = [act EXCEPT ![h].pc = "gone", ![h].old = Running]
          /\ MarkLate(h)
       \/ broken /\ ActFails(h, "reply") /\ UNCHANGED <<dep, window>>
    /\ UNCHANGED <<class, pods, episode, scorer, broken>>

\* Wrong: no deadline; the wait is not waited for.
WaitGoneForever(h) ==
    /\ act[h].pc = "gone" /\ Running = {}
    /\ act' = [act EXCEPT ![h].pc = "up", ![h].gone = TRUE]
    /\ UNCHANGED <<class, dep, pods, episode, scorer, broken, window>>
WaitGoneCoalesced(h) ==
    /\ act[h].pc = "gone"
    /\ act' = [act EXCEPT ![h].pc = "up", ![h].gone = TRUE]
    /\ UNCHANGED <<class, dep, pods, episode, scorer, broken, window>>

\* ... wait until no pod is Running, or POD_TERMINATE_TIMEOUT_S ...
WaitGone(h) ==
    /\ act[h].pc = "gone"
    /\ act' = [act EXCEPT ![h].pc = "up", ![h].gone = (Running = {})]
    /\ UNCHANGED <<class, dep, pods, episode, scorer, broken, window>>

\* ... scale up again whatever the wait said ...
ScaleUp(h) ==
    /\ act[h].pc = "up"
    /\ \/ /\ dep' = [dep EXCEPT !.replicas = 1]
          /\ ActTo(h, "back") /\ MarkLate(h)
       \/ broken /\ ActFails(h, "reply") /\ UNCHANGED <<dep, window>>
    /\ UNCHANGED <<class, pods, episode, scorer, broken>>

\* ... and wait for one Running pod, or POD_START_TIMEOUT_S. The fix counts
\* as applied only if the old pod was seen to go.
WaitBack(h) ==
    /\ act[h].pc = "back"
    /\ act' = [act EXCEPT ![h].pc = "reply",
                          ![h].ok = act[h].gone /\ Cardinality(Running) = 1]
    /\ UNCHANGED <<class, dep, pods, episode, scorer, broken, window>>

\* The answer, if the scorer still waits for it: an action that was not
\* applied is a failure, any other is verified.
Reply(h) ==
    /\ act[h].pc = "reply"
    /\ act' = [act EXCEPT ![h] = [NoAct EXCEPT !.pc = "done"]]
    /\ scorer' = IF ~Waited(h) THEN scorer
                 ELSE IF act[h].ok
                 THEN [scorer EXCEPT !.pc = "capture", !.replicas = act[h].replicas]
                 ELSE [scorer EXCEPT !.pc = "score", !.verdict = "failed"]
    /\ UNCHANGED <<class, dep, pods, episode, broken, window>>

\* An exception nobody catches (a list of pods that fails, an expired
\* token), or the agent's death: the request fails where it stands.
HandlerDies(h) ==
    /\ broken /\ act[h].pc \in {"resize", "apply", "gone", "up", "back"}
    /\ act' = [act EXCEPT ![h] = [NoAct EXCEPT !.pc = "died"]]
    /\ scorer' = IF Waited(h) THEN Ended("dead") ELSE scorer
    /\ UNCHANGED <<class, dep, pods, episode, broken, window>>

-----------------------------------------------------------------------------
(* p3_scorer.main() and verifier.py.                                        *)

\* Nobody looks at the window's record any more.
CloseWindow == window' = [NoWindow EXCEPT !.late = window.late]

ScorerUnchanged == UNCHANGED <<class, pods, broken>>

\* A scorer for the unscored episode: its first, or a rerun.
StartScorer ==
    /\ Quiet /\ scorer.n < MaxRuns /\ ~episode.scored /\ ~episode.next
    /\ scorer' = [NoRun EXCEPT !.n = scorer.n + 1, !.pc = "diagnose"]
    /\ episode' = [episode EXCEPT !.runs = @ + 1]
    /\ ScorerUnchanged /\ UNCHANGED <<dep, act, window>>

\* /diagnose answers; then /act, or nothing to dispatch. The handler proposes
\* an action, however long the LLM takes; a proposal that passed the checks
\* may ask for more replicas than FIX_PARAMS (3 up to MAX_REPLICAS, here 2
\* and 3).
RequestAct ==
    /\ scorer.pc = "diagnose"
    /\ \/ /\ scorer' = [scorer EXCEPT !.pc = "wait"]
          /\ \E replicas \in IF tool = "scale_deployment" THEN {2, 3} ELSE {0} :
                act' = [act EXCEPT
                    ![scorer.n].pc = IF tool = "patch_cpu_limit" THEN "resize" ELSE "apply",
                    ![scorer.n].replicas = replicas]
       \/ scorer' = [scorer EXCEPT !.pc = "score"] /\ UNCHANGED act
    /\ ScorerUnchanged /\ UNCHANGED <<dep, episode, window>>

\* SCORER_TIMEOUT_S, ACT_TIMEOUT_S, or an exception: no score, no reset. The
\* last run is spared: nothing would come after it.
ScorerDies ==
    /\ ~Quiet /\ scorer.n < MaxRuns
    /\ scorer' = Ended("dead")
    /\ CloseWindow
    /\ ScorerUnchanged /\ UNCHANGED <<dep, episode, act>>

Available == Cardinality({p \in Alive : pods[p].phase = "ready"})

Verdict(v) == [scorer EXCEPT !.pc = "score", !.verdict = v, !.polls = 0,
                             !.base = 0, !.was = 0, !.seen = 0]

\* The reading Prometheus gives of a pod's restarts (or throttled periods)
\* may miss the latest: its scrape lags about 30 s, two polls.
Scraped(p) == {0, pods[p].restarts}

\* Wrong: the target is reset as soon as the fix is applied.
OpenWindowResets ==
    /\ scorer.pc = "capture"
    /\ window' = [NoWindow EXCEPT !.late = window.late]
    /\ dep' = IF class = "oom" THEN LimitBaseline ELSE dep
    /\ scorer' = [scorer EXCEPT !.pc = "poll", !.pod = current_pod_name_live]
    /\ ScorerUnchanged /\ UNCHANGED <<episode, act>>

\* The start of verify_durability: the pod to watch and its baseline, or the
\* wait for the replicas that were asked for. No pod in 30 s raises. The
\* wait for a rollback to settle is bounded and its outcome ignored.
OpenWindow ==
    /\ scorer.pc = "capture"
    /\ \/ /\ class = "bad-rollout"
          /\ scorer' = [scorer EXCEPT !.pc = "poll"]
       \/ /\ class = "under-provisioned-replicas"
          /\ scorer' = IF Available >= scorer.replicas
                       THEN [scorer EXCEPT !.pc = "poll"]
                       ELSE Verdict("flapped")
       \/ /\ class \notin {"bad-rollout", "under-provisioned-replicas"}
          /\ LET p == current_pod_name_live
             IN \/ p = 0 /\ scorer' = Ended("dead")
                \/ /\ p # 0
                   /\ \E base \in Scraped(p) :
                        scorer' = [scorer EXCEPT !.pc = "poll", !.pod = p,
                                  !.base = base, !.was = base, !.seen = base]
    /\ window' = [NoWindow EXCEPT !.late = window.late,
            !.stale = scorer'.pod # 0 /\ scorer'.base # pods[scorer'.pod].restarts]
    /\ ScorerUnchanged /\ UNCHANGED <<dep, episode, act>>

\* The scrape a check reads was made between the last poll but one and now.
Lagged == {scorer.was, pods[scorer.pod].restarts}

\* What the class's check can answer now: TRUE is "still faulty".  A restarted
\* pod is in back-off for a while, and is read so for a while longer.
check_crash_loop ==
    {backoff \/ r > scorer.base :
        backoff \in {FALSE, pods[scorer.pod].restarts > 0}, r \in Lagged}
check_oom == {r > scorer.base : r \in Lagged}
check_cpu_throttle == check_oom
check_disk_full == {current_pod_name_live # scorer.pod}
check_bad_rollout ==
    {\E p \in Alive : pods[p].phase = "failing"} \cup IF broken THEN {FALSE} ELSE {}
catalogue_probe_p95_ms == BOOLEAN    \* slow; a probe that fails counts as fast

check_fn ==
    CASE class = "crash-loop" -> check_crash_loop
      [] class = "oom" -> check_oom
      [] class = "cpu-throttling" -> check_cpu_throttle
      [] class = "disk-full" -> check_disk_full
      [] class = "bad-rollout" -> check_bad_rollout
      [] class = "under-provisioned-replicas" -> catalogue_probe_p95_ms

\* Wrong: the baseline is captured anew after each poll.
PollMovesBaseline ==
    /\ scorer.pc = "poll"
    /\ \E faulty \in check_fn :
        /\ scorer' = IF faulty THEN Verdict("flapped")
                     ELSE IF scorer.polls + 1 = WINDOW THEN Verdict("confirmed")
                     ELSE LET now == IF scorer.pod = 0 THEN 0
                                     ELSE pods[scorer.pod].restarts
                          IN [scorer EXCEPT !.polls = @ + 1, !.base = now,
                                            !.was = scorer.seen, !.seen = now]
        /\ window' = IF scorer.polls + 1 = WINDOW THEN window
                     ELSE [window EXCEPT !.before = window.recent,
                                         !.recent = window.hurt]
    /\ ScorerUnchanged /\ UNCHANGED <<dep, episode, act>>

\* One poll (or one probe) of the window.
Poll ==
    /\ scorer.pc = "poll"
    /\ \E faulty \in check_fn :
        /\ scorer' = IF faulty THEN Verdict("flapped")
                     ELSE IF scorer.polls + 1 = WINDOW THEN Verdict("confirmed")
                     ELSE [scorer EXCEPT !.polls = @ + 1, !.was = scorer.seen,
                             !.seen = IF scorer.pod = 0 THEN 0
                                      ELSE pods[scorer.pod].restarts]
        /\ window' = IF scorer.polls + 1 = WINDOW THEN window
                     ELSE [window EXCEPT !.before = window.recent,
                                         !.recent = window.hurt]
    /\ ScorerUnchanged /\ UNCHANGED <<dep, episode, act>>

\* The scores row and the trust updates, see Scorer.
InsertScore ==
    /\ scorer.pc = "score"
    /\ episode' = [episode EXCEPT !.scored = TRUE]
    /\ scorer' = Ended("reset")
    /\ CloseWindow
    /\ ScorerUnchanged /\ UNCHANGED <<dep, act>>

\* The end of main(): catalogue goes back to its baseline.
ResetCatalogue ==
    /\ scorer.pc = "reset"
    /\ dep' = IF class \in {"oom", "under-provisioned-replicas"}
              THEN LimitBaseline ELSE dep
    /\ scorer' = Ended("done")
    /\ ScorerUnchanged /\ UNCHANGED <<episode, act, window>>

-----------------------------------------------------------------------------
HandlerStep(h) ==
    \/ patch_cpu_limit(h) \/ patch_deployment(h)
    \/ ScaleDown(h) \/ WaitGone(h) \/ ScaleUp(h) \/ WaitBack(h) \/ Reply(h)

ScorerStep ==
    \/ RequestAct \/ OpenWindow \/ Poll \/ InsertScore \/ ResetCatalogue

Next ==
    \/ CreatePod
    \/ \E p \in DOMAIN pods : PodProgress(p) \/ RetirePod(p) \/ PodFails(p)
    \/ EnsureBaseline \/ Inject
    \/ StartScorer \/ ScorerStep \/ ScorerDies
    \/ \E h \in Runs : \/ HandlerStep(h) \/ HandlerDies(h)

\* A handler thread keeps running: each of its waits has a deadline. Nothing
\* is assumed of the scorer, the injector or the cluster.
Spec ==
    /\ Init /\ [][Next]_vars
    /\ \A h \in Runs : WF_vars(HandlerStep(h))

-----------------------------------------------------------------------------
(* Properties. *)

\* What the applied fix has set stands: the scorer's own clean-up has not
\* undone it, nor has the wait for its replicas. The rollback of a rerun is
\* apart: the revision before the rolled-back one is the bad one.
Fixed(replicas) ==
    CASE class = "oom" -> dep.limit = "raised"
      [] class = "under-provisioned-replicas" -> dep.replicas = replicas
      [] class = "bad-rollout" -> Last(dep.history) = "good" \/ episode.runs > 1
      [] class = "disk-full" -> dep.replicas = 1
      [] OTHER -> TRUE

\* No fix is undone while its durability window is open (p3_scorer.py:740-761
\* moved the reset behind the window for this). Only an /act that outlived
\* its scorer can do so.
FixHolds == (scorer.pc = "poll" /\ ~window.late) => Fixed(scorer.replicas)

\* The pod the verifier watches is older than the template the fix made: it
\* was captured while the rollout had no Running pod yet.
WatchesOldPod == scorer.pod # 0 /\ pods[scorer.pod].gen < dep.gen

\* The failures a check cannot have missed: a reading of the live API misses
\* none, a scrape those of the last two polls.
Noticeable == IF class = "disk-full" THEN window.hurt ELSE window.before

\* A confirmed fix saw no failure of a current pod up to the last poll but
\* two (the scrape lags that far behind, verifier.py:100), for disk-full, which
\* asks the live API, up to the last poll; and one that flapped on a watched
\* pod saw a failure. The verdict of verify_durability can be wrong only about
\* a pod older than the fix, or one whose baseline was a stale reading.
VerdictHonest ==
    (scorer.pc = "score" /\ ~window.late) =>
        /\ scorer.verdict = "confirmed" =>
               \/ WatchesOldPod
               \/ \A p \in Noticeable : pods[p].gen < dep.gen
        /\ scorer.verdict = "flapped" =>
               \/ scorer.pod = 0 \/ window.hurt # {}
               \/ WatchesOldPod \/ window.stale
               \/ class = "crash-loop" /\ pods[scorer.pod].restarts > 0

\* A disk-full fix that reports success has replaced every pod that was
\* Running when it began, also when two of them overlap: Kubernetes has not
\* merged scale-down and scale-up into nothing.
DiskCleared ==
    \A h \in Runs : (act[h].pc = "reply" /\ act[h].ok) =>
        \A p \in act[h].old : pods[p].phase = "gone"

\* "ALWAYS scale back up" (actions.py:513): once every handler has ended the
\* Deployment is not left at zero, however the waits went and in whatever
\* order two handlers ran. Only a failing API can leave it there.
NotLeftAtZero ==
    (~broken /\ \A h \in Runs : ~Handling(h)) => dep.replicas > 0

\* A handler is its scorer's: one at most, from the request on. What it may
\* be doing depends on the tool.
HandlersFit ==
    \A h \in Runs :
        /\ act[h].pc # "none" =>
               h <= scorer.n /\ (h = scorer.n => scorer.pc # "diagnose")
        /\ act[h].pc = "resize" => class = "cpu-throttling"
        /\ act[h].pc \in {"gone", "up", "back"} => class = "disk-full"
        /\ (act[h].pc = "apply" /\ class = "under-provisioned-replicas") =>
               act[h].replicas > 0

\* Why a disk-full fix replaces the pods it found: they were Running, so
\* none comes up again, and a success saw no Running pod.
OldPodsGo ==
    \A h \in Runs :
        /\ act[h].old # {} =>
               class = "disk-full" /\ act[h].pc \in {"gone", "up", "back", "reply"}
        /\ (class = "disk-full" /\ act[h].pc = "reply" /\ act[h].ok) => act[h].gone
        /\ \A p \in act[h].old :
               /\ p \in DOMAIN pods /\ pods[p].phase # "failing"
               /\ (act[h].gone /\ act[h].pc \in {"up", "back", "reply"}) =>
                      pods[p].phase = "gone"

\* Whoever scaled to zero is still there to scale up.
ZeroIsOwned ==
    (~broken /\ dep.replicas = 0) => \E h \in Runs : act[h].pc \in {"gone", "up"}

\* A scorer run, its place in the episode and the pod it watches.
ScorerFits ==
    /\ scorer.n = 0 => scorer.pc = "idle"
    /\ episode.runs <= scorer.n /\ (~Quiet => episode.runs > 0)
    /\ episode.next => Quiet /\ episode.n < MaxEpisodes
    /\ (~Quiet /\ scorer.pc # "reset") => ~episode.scored
    /\ scorer.polls < WINDOW
    /\ scorer.pc # "score" => scorer.verdict = "none"
    /\ scorer.pc \notin {"poll", "score"} => scorer.pod = 0
    /\ scorer.pod # 0 =>
           /\ class \in Watched /\ scorer.pod \in DOMAIN pods
           /\ pods[scorer.pod].phase # "failing"
    /\ (scorer.pc = "poll" /\ class \in Watched) => scorer.pod # 0

\* A target of one replica has one pod of the current template.
Current == {p \in DOMAIN pods : pods[p].gen = dep.gen}
OneCurrentPod ==
    /\ \A p \in DOMAIN pods : pods[p].gen <= dep.gen
    /\ class \in Watched =>
           dep.replicas <= 1 /\ \A p, q \in Current \cap Alive : p = q
    /\ class \in Restarting => dep.replicas = 1 /\ Current \subseteq Alive
    /\ class = "disk-full" => Current = DOMAIN pods

\* What the fix has set is there when /act answers, and stands until the
\* verdict; a first rollback finds the bad revision on top.
FixStands ==
    ~window.late =>
        /\ \A h \in Runs : Waited(h) =>
               /\ (act[h].pc = "reply" /\ act[h].ok) => Fixed(act[h].replicas)
               /\ act[h].pc = "back" => dep.replicas = 1
        /\ scorer.pc \in {"capture", "poll"} => Fixed(scorer.replicas)
        /\ (/\ class = "bad-rollout" /\ ~episode.scored /\ ~episode.next
            /\ \/ episode.runs = 0
               \/ /\ episode.runs = 1
                  /\ \/ scorer.pc = "diagnose"
                     \/ \E h \in Runs : Waited(h) /\ act[h].pc = "apply") =>
               dep.history = <<"good", "bad">>

\* What the record of the window, the watched pod and the scorer's readings
\* say of each other.
WindowFits ==
    /\ window.before \subseteq window.recent /\ window.recent \subseteq window.hurt
    /\ window.hurt \subseteq DOMAIN pods
    /\ class \notin Watched => window.hurt = {}
    /\ (scorer.pc = "poll" /\ class \in Restarting /\ ~WatchesOldPod) =>
           LET restarts == pods[scorer.pod].restarts
           IN /\ scorer.base = 1 => restarts = 1
              /\ scorer.pod \in window.hurt => restarts = 1 /\ scorer.base = 0
              /\ scorer.pod \in window.before => scorer.was = 1
              /\ scorer.pod \in window.recent => scorer.seen = 1
              /\ (/\ ~window.stale /\ scorer.base = 0
                  /\ 1 \in {scorer.was, scorer.seen, restarts}) =>
                     scorer.pod \in window.hurt
    /\ (scorer.pc = "poll" /\ class = "disk-full") =>
           /\ window.recent = {}
           /\ scorer.pod \in Alive => window.hurt = {}
           /\ (scorer.pod \notin Alive /\ ~window.late) => window.hurt # {}

\* restore_from_disk_full does all of its work: the old pods go and the
\* target comes back, with every interleaving of two handlers.
RemediationInv ==
    /\ TypeOK /\ DiskCleared /\ NotLeftAtZero
    /\ HandlersFit /\ OldPodsGo /\ ZeroIsOwned /\ ScorerFits
    /\ OneCurrentPod /\ FixStands /\ WindowFits

\* Every request to /act is carried to its end, whether or not the scorer
\* that sent it still waits and whatever the pods do: every wait in
\* actions.py has a deadline.
HandlersEnd == \A h \in Runs : [](Handling(h) => <>~Handling(h))
=============================================================================
