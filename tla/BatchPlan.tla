----------------------------- MODULE BatchPlan -----------------------------
(***************************************************************************)
(* run_batch_plan.py: the resumable runner of a plan of episodes, with its *)
(* progress file, its three ways to pause, and the injector and scorer     *)
(* processes it starts. Those have sessions of their own: they survive a   *)
(* kill of the runner. A live episode of the operator API may run at the   *)
(* same time; Injector, SystemLock, Scorer and LiveEpisode have what goes  *)
(* on inside.                                                              *)
(*                                                                         *)
(* Time is the age of each target's last fault, up to the longest recency  *)
(* window. A row of episodes stands for an attempt from the moment its     *)
(* injector takes t0, so that rows are in the order of t0; it is in the    *)
(* database once recorded.                                                 *)
(*                                                                         *)
(* The branch of main() for an injector that exits 0 without a row is left *)
(* out: injector.py:5088 exits 1 in that case, so a class is never given   *)
(* up, and the plan pauses instead.                                        *)
(***************************************************************************)
EXTENDS Naturals, Sequences, FiniteSets, SequencesExt, FiniteSetsExt

CONSTANTS
    Counts,         \* the fault classes asked for, and how many episodes of each
    TargetOf,       \* FAULT_CONFIG[class]["target"]
    Window,         \* TARGET_RECENCY_WINDOW_S
    MaxStarts,      \* bound on starts of the runner
    MaxRows,        \* bound on attempts of the runner
    MaxKills        \* bound on kills of the runner

Classes == DOMAIN Counts
Targets == {TargetOf[c] : c \in Classes}
Longest == Max({Window[c] : c \in Classes})

ASSUME BatchAssumption ==
    /\ DOMAIN TargetOf = Classes /\ DOMAIN Window = Classes
    /\ \A c \in Classes : Counts[c] \in Nat /\ Window[c] \in Nat
    /\ Classes # {} /\ {MaxStarts, MaxRows, MaxKills} \subseteq Nat
    /\ Longest \in Nat

VARIABLES
    pc,         \* where the runner is
    then,       \* where it goes on after writing its progress
    mem,        \* plan_state
    file,       \* batch_plan_progress.json
    stop,       \* _stop_requested
    mark,       \* attempts begun when it was set
    rows,       \* attempts, see above
    orphans,    \* processes of a killed runner: the row of each, and its kind
    age,        \* for each target, time since the plan's last recorded fault there
    starts, kills

vars == <<pc, then, mem, file, stop, mark, rows, orphans, age, starts, kills>>

-----------------------------------------------------------------------------
(* The plan. *)

Chunk(c, n) == <<[class |-> c, target |-> n]>>

\* _build_shuffled_plan: pairs of different classes while two are left, then
\* the rest of the last one in one chunk. Every plan it may build.
BuildShuffledPlan(counts) ==
    LET plans[left \in [Classes -> 0..Max(Range(counts))]] ==
            LET remaining == {c \in Classes : left[c] > 0}
            IN IF Cardinality(remaining) >= 2
               THEN UNION {{Chunk(p[1], 1) \o Chunk(p[2], 1) \o rest :
                            rest \in plans[[left EXCEPT ![p[1]] = @ - 1, ![p[2]] = @ - 1]]}
                        : p \in {q \in remaining \X remaining : q[1] # q[2]}}
               ELSE {FoldSet(LAMBDA c, s : s \o Chunk(c, left[c]), << >>, remaining)}
    IN plans[counts]

\* --plan: a chunk per class, in any order.
ParsePlanArg == {[i \in DOMAIN s |-> Chunk(s[i], Counts[s[i]])[1]] : s \in SetToSeqs(Classes)}

Plans == ParsePlanArg \cup BuildShuffledPlan(Counts)

NewPlan(items) ==
    [plan |-> items, completed |-> [i \in DOMAIN items |-> 0],
     status |-> "running", last |-> [t \in Targets |-> Longest]]

NoPlan == NewPlan(<< >>)
NoFile == [NoPlan EXCEPT !.status = "none"]
Torn == [NoPlan EXCEPT !.status = "torn"]

-----------------------------------------------------------------------------
\* Episodes of class c, by chunk and number, when chunk i has n[i] of them.
Episodes(plan, n, c) ==
    UNION {{i} \X (1..n[i]) : i \in {j \in DOMAIN plan : plan[j].class = c}}

\* How many of class c progress p counts, and how many its plan asks for.
Done(p, c) == Cardinality(Episodes(p.plan, p.completed, c))
Ask(plan, c) == Cardinality(Episodes(plan, [i \in DOMAIN plan |-> plan[i].target], c))

\* What the two builders compute: the episodes that were asked for.
ASSUME PlanAssumption ==
    \A items \in Plans :
        /\ items \in Seq([class : Classes, target : Nat])
        /\ \A c \in Classes : Ask(items, c) = Counts[c]

Todo(p) == FoldSet(LAMBDA c, n : Ask(p.plan, c) - Done(p, c) + n, 0, Classes)

Attempt(c, by) == [class |-> c, by |-> by, recorded |-> FALSE, scored |-> FALSE,
                   old |-> FALSE]
Batch == {r \in DOMAIN rows : rows[r].by = "batch"}
Mine == Cardinality(Batch)
Own == Max(Batch)
Unscored == {r \in DOMAIN rows : rows[r].recorded /\ ~rows[r].scored}

\* The chunk at work: the first with episodes to do.
Open == {i \in DOMAIN mem.plan : mem.completed[i] < mem.plan[i].target}
idx == Min(Open)
class == mem.plan[idx].class
target == TargetOf[class]

Progress == [plan : Seq([class : Classes, target : Nat]), completed : Seq(Nat),
             status : {"none", "torn", "running", "paused", "complete"},
             last : [Targets -> 0..Longest]]

Row == [class : Classes, by : {"batch", "live"}, recorded : BOOLEAN,
        scored : BOOLEAN, old : BOOLEAN]

TypeOK ==
    /\ pc \in {"off", "write", "baseline", "select", "recency", "inject",
               "score", "count", "pause", "archive"}
    /\ then \in {"none", "baseline", "off", "select", "pause", "archive"}
    /\ \A p \in {mem, file} :
        /\ p \in Progress /\ DOMAIN p.completed = DOMAIN p.plan
        /\ \A i \in DOMAIN p.plan : p.completed[i] <= p.plan[i].target
    /\ stop \in BOOLEAN /\ mark \in Nat
    /\ rows \in Seq(Row)
    /\ orphans \subseteq ((DOMAIN rows) \X {"injector", "scorer"})
    /\ age \in [Targets -> 0..Longest]
    /\ starts \in 0..MaxStarts /\ kills \in 0..MaxKills

Init ==
    /\ pc = "off" /\ then = "none"
    /\ mem = NoPlan /\ file = NoFile
    /\ stop = FALSE /\ mark = 0
    /\ rows = << >> /\ orphans = {}
    /\ age = [t \in Targets |-> Longest]
    /\ starts = 0 /\ kills = 0

-----------------------------------------------------------------------------
(* The runner. *)

ClusterUnchanged == UNCHANGED <<rows, orphans, age>>
RunnerUnchanged == UNCHANGED <<pc, then, mem, file, stop, mark, starts, kills>>

Goto(label) == pc' = label /\ UNCHANGED <<then, mem, file>>

\* _save_plan truncates the file and then writes it (Write).
SavePlan(p, next) ==
    mem' = p /\ file' = Torn /\ pc' = "write" /\ then' = next

\* The process ends, and its memory with it.
Exit == mem' = NoPlan /\ stop' = FALSE /\ mark' = 0

Write ==
    /\ pc = "write"
    /\ file' = mem /\ pc' = then /\ then' = "none"
    /\ IF then = "off" THEN Exit ELSE UNCHANGED <<mem, stop, mark>>
    /\ ClusterUnchanged /\ UNCHANGED <<starts, kills>>

\* main() up to the baseline check: an incomplete plan is resumed, whatever
\* the arguments say; without one they give the plan. A torn file raises.
Start ==
    /\ pc = "off" /\ starts < MaxStarts /\ starts' = starts + 1
    /\ \/ /\ file.status \in {"running", "paused"}
          /\ mem' = file /\ pc' = "baseline" /\ UNCHANGED <<then, file, age>>
       \/ /\ file.status \in {"none", "complete"}
          /\ \E items \in Plans :
                SavePlan(NewPlan(items), "baseline")
          /\ age' = [t \in Targets |-> Longest]
    /\ Mine + Todo(mem') <= MaxRows
    /\ UNCHANGED <<stop, mark, rows, orphans, kills>>

\* Wrong: checks again instead of refusing.
RunBaselineCheckRetries ==
    /\ pc = "baseline"
    /\ Goto("select") \/ SavePlan(mem, "baseline")
    /\ ClusterUnchanged /\ UNCHANGED <<stop, mark, starts, kills>>

\* check_all_baselines.py passes, perhaps after --fix, or refuses.
RunBaselineCheck ==
    /\ pc = "baseline"
    /\ \/ Goto("select")
       \/ SavePlan([mem EXCEPT !.status = "paused"], "off")
    /\ ClusterUnchanged /\ UNCHANGED <<stop, mark, starts, kills>>

\* The loop over the chunks is at its end.
FinishPlan ==
    /\ pc = "select" /\ Open = {}
    /\ SavePlan([mem EXCEPT !.status = "complete"], "archive")
    /\ ClusterUnchanged /\ UNCHANGED <<stop, mark, starts, kills>>

ArchiveCompletedPlan ==
    /\ pc = "archive"
    /\ file' = NoFile /\ pc' = "off" /\ Exit
    /\ ClusterUnchanged /\ UNCHANGED <<then, starts, kills>>

\* run_one_episode returned False: the plan pauses.
Fails == SavePlan([mem EXCEPT !.status = "paused"], "off")

WaitForInfraReady ==
    /\ pc = "select" /\ Open # {}
    /\ Goto("recency") \/ Fails
    /\ ClusterUnchanged /\ UNCHANGED <<stop, mark, starts, kills>>

\* _wait_for_target_recency ends when the target's last fault is old enough
\* for the class to come, or at once after Ctrl+C; then the injector starts.
WaitForTargetRecency ==
    /\ pc = "recency"
    /\ mem.last[target] >= Window[class] \/ stop
    /\ rows' = Append(rows, Attempt(class, "batch"))
    /\ Goto("inject")
    /\ UNCHANGED <<orphans, age, stop, mark, starts, kills>>

\* At most one record comes so late that the scorer will refuse it.
Late == {FALSE} \cup {\A r \in DOMAIN rows : ~rows[r].old}
Recorded(r, late) ==
    [rows EXCEPT ![r] = [rows[r] EXCEPT !.recorded = TRUE, !.old = late]]

\* Wrong: the time of the fault is not kept in the plan.
InjectorRecordsForgets ==
    /\ pc = "inject"
    /\ \E late \in Late : rows' = Recorded(Own, late)
    /\ age' = [age EXCEPT ![target] = 0]
    /\ pc' = "score" /\ UNCHANGED <<then, mem, file>>
    /\ UNCHANGED <<orphans, stop, mark, starts, kills>>

\* The injector verified its fault, perhaps so late after t0 that the scorer
\* will refuse it. The runner takes the time.
InjectorRecords ==
    /\ pc = "inject"
    /\ \E late \in Late : rows' = Recorded(Own, late)
    /\ age' = [age EXCEPT ![target] = 0]
    /\ mem' = [mem EXCEPT !.last = [mem.last EXCEPT ![target] = 0]]
    /\ pc' = "score" /\ UNCHANGED <<then, file>>
    /\ UNCHANGED <<orphans, stop, mark, starts, kills>>

\* The injector did not get the lock in time, or its fault never showed.
InjectorFails ==
    /\ pc = "inject"
    /\ Fails
    /\ UNCHANGED <<rows, orphans, age, stop, mark, starts, kills>>

\* Wrong: the oldest unscored row first.
GetUnscoredEpisodeOldest ==
    LET r == Min(Unscored) IN IF Unscored = {} \/ rows[r].old THEN {} ELSE {r}

\* The row p3_scorer.py takes without --episode-id: the unscored one with the
\* latest t0, and none at all if that is older than MAX_EPISODE_AGE_MINUTES.
GetUnscoredEpisode ==
    LET r == Max(Unscored) IN IF Unscored = {} \/ rows[r].old THEN {} ELSE {r}

Score(S) ==
    [r \in DOMAIN rows |-> [rows[r] EXCEPT !.scored = rows[r].scored \/ r \in S]]

\* p3_scorer.py: it exits 0 also when there was nothing it would score.
RunScorer ==
    /\ pc = "score"
    /\ \/ rows' = Score(GetUnscoredEpisode) /\ Goto("count")
       \/ rows' = rows /\ Fails
    /\ UNCHANGED <<orphans, age, stop, mark, starts, kills>>

\* Wrong: progress by class, not by chunk.
CountEpisodeByClass ==
    /\ pc = "count"
    /\ SavePlan([mem EXCEPT !.completed = [i \in DOMAIN @ |->
            IF mem.plan[i].class = class THEN Min({@[i] + 1, mem.plan[i].target})
            ELSE @[i]]], "pause")
    /\ UNCHANGED <<rows, orphans, age, stop, mark, starts, kills>>

\* A row more than before, always (see above): the chunk has one episode more.
CountEpisode ==
    /\ pc = "count"
    /\ SavePlan([mem EXCEPT !.completed =
            [mem.completed EXCEPT ![idx] = mem.completed[idx] + 1]], "pause")
    /\ UNCHANGED <<rows, orphans, age, stop, mark, starts, kills>>

\* Wrong: Ctrl+C is not looked at.
PauseRequestedIgnoresStop ==
    /\ pc = "pause"
    /\ SavePlan([mem EXCEPT !.status = "paused"], "off") \/ Goto("select")
    /\ ClusterUnchanged /\ UNCHANGED <<stop, mark, starts, kills>>

\* The one safe point: Ctrl+C, the flag file, or Enter at the prompt, of
\* which the last two are a choice here. (The limits of catalogue and user
\* are reset first.)
PauseRequested ==
    /\ pc = "pause"
    /\ \/ SavePlan([mem EXCEPT !.status = "paused"], "off")
       \/ ~stop /\ Goto("select")
    /\ ClusterUnchanged /\ UNCHANGED <<stop, mark, starts, kills>>

-----------------------------------------------------------------------------
(* Around the runner. *)

\* Ctrl+C; between these points it makes no difference when.
Sigint ==
    /\ pc \in {"recency", "inject", "pause"} /\ ~stop /\ stop' = TRUE /\ mark' = Mine
    /\ ClusterUnchanged
    /\ UNCHANGED <<pc, then, mem, file, starts, kills>>

\* An unclean end of the runner: its memory is gone, its child is not.
Kill ==
    /\ pc # "off" /\ kills < MaxKills /\ kills' = kills + 1
    /\ pc' = "off" /\ then' = "none" /\ Exit
    /\ orphans' = CASE pc = "inject" -> orphans \cup {<<Own, "injector">>}
                    [] pc = "score" /\ GetUnscoredEpisode # {} ->
                            orphans \cup {<<Max(GetUnscoredEpisode), "scorer">>}
                    [] OTHER -> orphans
    /\ UNCHANGED <<file, rows, age, starts>>

\* An orphan injector records its fault, or fails.
OrphanInjector(r) ==
    /\ <<r, "injector">> \in orphans
    /\ orphans' = orphans \ {<<r, "injector">>}
    /\ \/ /\ rows' = Recorded(r, FALSE)
          /\ age' = [age EXCEPT ![TargetOf[rows[r].class]] = 0]
       \/ UNCHANGED <<rows, age>>
    /\ RunnerUnchanged

OrphanScorer(r) ==
    /\ <<r, "scorer">> \in orphans
    /\ rows' = Score({r})
    /\ orphans' = orphans \ {<<r, "scorer">>}
    /\ RunnerUnchanged /\ UNCHANGED <<age>>

\* A live episode: trigger_inject refuses while a recent episode is unscored;
\* then its injector, and its own scorer with --episode-id. One is enough, of
\* the class at work, and around the start of the runner's own injector.
Live == {r \in DOMAIN rows : rows[r].by = "live"}

LiveStarts ==
    /\ Live = {} /\ Unscored = {} /\ pc \in {"recency", "inject"}
    /\ rows' = Append(rows, Attempt(class, "live"))
    /\ RunnerUnchanged /\ UNCHANGED <<orphans, age>>

LiveRecords(r) ==
    /\ ~rows[r].recorded
    /\ rows' = Recorded(r, FALSE)
    /\ RunnerUnchanged /\ UNCHANGED <<orphans, age>>

LiveScored(r) ==
    /\ rows[r].recorded /\ ~rows[r].scored
    /\ rows' = Score({r})
    /\ RunnerUnchanged /\ UNCHANGED <<orphans, age>>

\* Time passes, as far as it matters: between runs, and in the waits.
Older(f) == [t \in Targets |-> Min({f[t] + 1, Longest})]
Tick ==
    /\ pc \in {"off", "recency"}
    /\ age' = Older(age)
    /\ mem' = [mem EXCEPT !.last = IF pc = "off" THEN mem.last ELSE Older(mem.last)]
    /\ file' = [file EXCEPT !.last = IF file.status \in {"none", "torn"}
                                     THEN file.last ELSE Older(file.last)]
    /\ UNCHANGED <<pc, then, stop, mark, rows, orphans, starts, kills>>

-----------------------------------------------------------------------------
RunnerStep ==
    \/ Write \/ RunBaselineCheck \/ FinishPlan \/ ArchiveCompletedPlan
    \/ WaitForInfraReady \/ WaitForTargetRecency
    \/ InjectorRecords \/ InjectorFails
    \/ RunScorer \/ CountEpisode \/ PauseRequested

Next ==
    \/ Start \/ RunnerStep
    \/ Sigint \/ Kill
    \/ \E r \in DOMAIN rows : OrphanInjector(r) \/ OrphanScorer(r)
    \/ LiveStarts \/ \E r \in Live : LiveRecords(r) \/ LiveScored(r)
    \/ Tick

\* A runner that is not killed runs on, and time passes.
Spec ==
    /\ Init /\ [][Next]_vars
    /\ WF_vars(RunnerStep) /\ WF_vars(Tick)

-----------------------------------------------------------------------------
(* Properties. *)

\* A new plan asks for exactly the episodes the arguments ask for, however
\* the pairs were drawn (run_batch_plan.py:289-300).
PlanIsComplete ==
    /\ pc # "off" => \A c \in Classes : Ask(mem.plan, c) = Counts[c]
    /\ file.status \in {"running", "paused"} =>
            \A c \in Classes : Ask(file.plan, c) = Counts[c]

\* "an unclean kill still leaves an accurate record" (run_batch_plan.py:23):
\* what the progress file counts of a class was really recorded, in whatever
\* order runs were killed, paused and resumed; it may lack the last episode.
Made(c) == {r \in Batch : rows[r].class = c /\ rows[r].recorded}
ProgressIsReal == \A c \in Classes : Done(file, c) <= Cardinality(Made(c))

\* From its start to its count the attempt is the runner's own: of the class
\* at work, and out of reach of what a killed runner left behind.
AtWork ==
    /\ pc = "write" <=> then # "none"
    /\ pc \in {"recency", "inject", "score", "count"} => Open # {}
    /\ pc \in {"inject", "score", "count"} =>
        /\ Batch # {} /\ rows[Own].class = class
        /\ <<Own, "injector">> \notin orphans
        /\ rows[Own].recorded <=> pc # "inject"
    /\ \A o \in orphans : o[2] = "injector" => o[1] \in Batch

\* The episode that was just recorded is not in the memory's count yet.
MemoryIsReal ==
    pc # "off" => \A c \in Classes :
        Done(mem, c) + (IF pc \in {"score", "count"} /\ c = class THEN 1 ELSE 0)
            <= Cardinality(Made(c))

\* Until the first kill the plan knows of every fault.
FaultsKnown ==
    kills = 0 =>
        /\ orphans = {}
        /\ pc # "off" => \A t \in Targets : mem.last[t] <= age[t]
        /\ pc = "off" /\ file.status \in {"running", "paused"} =>
                \A t \in Targets : file.last[t] <= age[t]

\* After Ctrl+C there is no way back to the choice of an episode.
Stopping ==
    stop =>
        /\ pc \in {"recency", "inject", "score", "count", "write", "pause"}
        /\ pc = "write" => then \in {"pause", "off"}
        /\ pc = "recency" => Mine = mark
        /\ Mine <= mark + 1

\* The plan asks for what was asked, and its progress was made: _save_plan and
\* _build_shuffled_plan through kills, pauses and resumes.
BatchInv ==
    /\ TypeOK /\ PlanIsComplete /\ ProgressIsReal
    /\ AtWork /\ MemoryIsReal /\ FaultsKnown /\ Stopping

\* An episode the plan counts was scored, though the scorer picks the row
\* itself: beside live episodes, orphans and failed attempts it takes the
\* right one. The exceptions: it was too old for the scorer, or a live
\* injector that started later had recorded before.
CountedIsScored ==
    pc = "count" =>
        \/ rows[Own].scored \/ rows[Own].old
        \/ \E q \in DOMAIN rows : q > Own /\ rows[q].by = "live" /\ rows[q].recorded

\* No fault of the plan hits a target within the recency window of the last
\* one, pause and resume included. Only Ctrl+C during the wait, which cuts
\* it short and injects, or a kill that loses the time can do that.
RecencyKept ==
    [][(pc = "recency" /\ pc' = "inject") =>
        (age[target] >= Window[class] \/ stop \/ kills > 0)]_vars

\* Ctrl+C takes effect at the end of the running episode at the latest
\* (run_batch_plan.py:15-20): after it at most one more fault is injected.
StopIsHonoured == stop => Mine <= mark + 1

\* Every run of the plan comes to an end by itself.
RunsEnd == [](pc # "off" => <>(pc = "off"))
=============================================================================
