--------------------------- MODULE CartsRotation ---------------------------
(***************************************************************************)
(* The warm standby of carts: the selector of the carts Service, flipped   *)
(* to carts-warm by /act after a restart of carts, and flipped back by     *)
(* restore_carts_active.py, by the status poll of an open page, or by the  *)
(* baseline check of the next crash-loop injection.                        *)
(*                                                                         *)
(* Only crash-loop episodes, one at a time (see LiveEpisode); every one    *)
(* is diagnosed and acted on by a scorer that may be killed at any point.  *)
(* Failing API calls are left out: each of them only means that a flip     *)
(* does not happen, and is tried again at the next poll.                   *)
(***************************************************************************)
EXTENDS Naturals

CONSTANTS
    MaxEpisodes,    \* bound on crash-loop episodes
    CEILING         \* polls restore_carts_active.py makes before it gives up

VARIABLES
    selector,   \* the pods the Service sends traffic to
    ready,      \* for each of the two Deployments, its first Running pod is Ready
    episodes,   \* episodes injected so far
    scorer,     \* the scorer of the current episode
    fix,        \* the /act handler, which outlives a killed scorer
    restore     \* restore_carts_active.py of each episode: polls made

vars == <<selector, ready, episodes, scorer, fix, restore>>

Labels == {"carts", "carts-warm"}
Episodes == 1..MaxEpisodes

TypeOK ==
    /\ selector \in Labels
    /\ ready \in [Labels -> BOOLEAN]
    /\ episodes \in 0..MaxEpisodes
    /\ scorer \in {"none", "new", "diagnose", "wait", "over"}
    /\ fix \in {"none", "restart", "flip", "done"}
    /\ restore \in [Episodes -> [pc : {"none", "poll", "restored", "gave up"},
                                 polls : 0..CEILING]]

Init ==
    /\ selector = "carts"
    /\ ready = [l \in Labels |-> TRUE]
    /\ episodes = 0
    /\ scorer = "none" /\ fix = "none"
    /\ restore = [e \in Episodes |-> [pc |-> "none", polls |-> 0]]

-----------------------------------------------------------------------------
(* carts_rotation.py: the selector after a flip, the same one if the pod to *)
(* flip to is not Ready.                                                    *)

flip_to_warm == IF ready["carts-warm"] THEN "carts-warm" ELSE selector
flip_to_carts == IF ready["carts"] THEN "carts" ELSE selector

\* A pod's readiness comes and goes; a carts that boots becomes Ready.
CartsBoots ==
    /\ ~ready["carts"] /\ ready' = [ready EXCEPT !["carts"] = TRUE]
    /\ UNCHANGED <<selector, episodes, scorer, fix, restore>>
WarmChanges ==
    /\ ready' = [ready EXCEPT !["carts-warm"] = ~@]
    /\ UNCHANGED <<selector, episodes, scorer, fix, restore>>

\* _ensure_crash_loop_baseline lets an injection pass when carts is Ready,
\* and flips a stuck selector back itself. The fault makes carts crash; it
\* may be Ready between two crashes when the scorer comes.
InjectCrashLoop ==
    /\ scorer \in {"none", "over"} /\ episodes < MaxEpisodes
    /\ ready["carts"]
    /\ selector' = "carts"
    /\ \E r \in BOOLEAN : ready' = [ready EXCEPT !["carts"] = r]
    /\ episodes' = episodes + 1
    /\ scorer' = "new"
    /\ UNCHANGED <<fix, restore>>

\* p3_scorer.main() starts the restore process first of all, then asks for
\* the diagnosis.
SpawnRestore ==
    /\ scorer = "new"
    /\ restore' = [restore EXCEPT ![episodes].pc = "poll"]
    /\ scorer' = "diagnose"
    /\ UNCHANGED <<selector, ready, episodes, fix>>

RequestAct ==
    /\ scorer = "diagnose" /\ fix \in {"none", "done"}
    /\ scorer' = "wait" /\ fix' = "restart"
    /\ UNCHANGED <<selector, ready, episodes, restore>>

ScorerEnds ==
    /\ scorer = "wait" /\ fix = "done"
    /\ scorer' = "over"
    /\ UNCHANGED <<selector, ready, episodes, fix, restore>>

ScorerDies ==
    /\ scorer \in {"new", "diagnose", "wait"}
    /\ scorer' = "over"
    /\ UNCHANGED <<selector, ready, episodes, fix, restore>>

\* /act: restart_deployment, then _maybe_flip_carts_warm.
RestartCarts ==
    /\ fix = "restart"
    /\ ready' = [ready EXCEPT !["carts"] = FALSE]
    /\ fix' = "flip"
    /\ UNCHANGED <<selector, episodes, scorer, restore>>

maybe_flip_carts_warm ==
    /\ fix = "flip"
    /\ selector' = flip_to_warm
    /\ fix' = "done"
    /\ UNCHANGED <<ready, episodes, scorer, restore>>

\* One poll of restore_carts_active.main(): done as soon as the selector says
\* carts, given up at the ceiling.
RestoreCartsActive(e) ==
    /\ restore[e].pc = "poll"
    /\ selector' = flip_to_carts
    /\ restore' = [restore EXCEPT ![e] =
            IF selector' = "carts" THEN [@ EXCEPT !.pc = "restored"]
            ELSE IF @.polls = CEILING THEN [@ EXCEPT !.pc = "gave up"]
            ELSE [@ EXCEPT !.polls = @ + 1]]
    /\ UNCHANGED <<ready, episodes, scorer, fix>>

\* GET /trigger/status of an open page.
StatusPoll ==
    /\ selector' = flip_to_carts /\ selector' # selector
    /\ UNCHANGED <<ready, episodes, scorer, fix, restore>>

-----------------------------------------------------------------------------
Next ==
    \/ CartsBoots \/ WarmChanges \/ InjectCrashLoop
    \/ SpawnRestore \/ RequestAct \/ ScorerEnds \/ ScorerDies
    \/ RestartCarts \/ maybe_flip_carts_warm
    \/ \E e \in Episodes : RestoreCartsActive(e)
    \/ StatusPoll

\* Processes run on and carts boots; nobody need open a page or inject again.
Spec ==
    /\ Init /\ [][Next]_vars
    /\ WF_vars(CartsBoots)
    /\ WF_vars(SpawnRestore) /\ WF_vars(RequestAct) /\ WF_vars(ScorerEnds)
    /\ WF_vars(RestartCarts) /\ WF_vars(maybe_flip_carts_warm)
    /\ \A e \in Episodes : WF_vars(RestoreCartsActive(e))

-----------------------------------------------------------------------------
\* What p3_scorer.py:437-465 says of spawning the restore process before
\* /diagnose and /act: the selector is not left stranded on carts-warm. It
\* comes back, unless the process polled up to its ceiling in vain. It does
\* not hold: spawned before /act flips the selector, the process finds it on
\* carts, reports success and ends, and nothing flips it back.
StandbyReturns ==
    [](selector = "carts-warm" =>
        <>(selector = "carts" \/ \E e \in Episodes : restore[e].pc = "gave up"))
=============================================================================
