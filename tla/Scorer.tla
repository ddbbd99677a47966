------------------------------- MODULE Scorer -------------------------------
(***************************************************************************)
(* One episode through p3_scorer.py: ask p3_agent.py for a diagnosis, ask  *)
(* it to act, judge the outcome against ground truth, feed the circuit     *)
(* breaker, mark the episode scored, then update the three dimensions of   *)
(* trust and the misdispatch guard, each in transactions of its own.       *)
(*                                                                         *)
(* Several scorer processes may run (the live trigger's and a batch's), an *)
(* administrator may override trust at any time, and a scorer may be       *)
(* killed between any two of its transactions (SCORER_TIMEOUT_S, a restart *)
(* of the API, an exception); what it committed stays committed.           *)
(*                                                                         *)
(* ACTION_MAP gives each auto-fix class a tool of its own, so a fix is     *)
(* named by the class it fixes.                                            *)
(***************************************************************************)
EXTENDS TrustTables

CONSTANTS
    Scorers,        \* scorer processes that may be running
    Episodes,
    Actual,         \* [Episodes -> Classes], the ground truth
    Seasoned,       \* classes restored to can_act before the first episode
    LlmDriven,      \* classes whose diagnoser_mode was set to llm
    LlmActs,        \* classes whose action_trust was set to llm_can_act
    Unclassified,   \* "log-anomaly detected (unclassified)"
    Nothing,        \* None: no LLM diagnosis, no fix, no episode
    Exclusive,      \* TRUE: no two writers of trust_state overlap
    KillBound,      \* bound on killed scorers
    OverrideBound   \* bound on operator overrides

ASSUME ScorerAssumption ==
    /\ Actual \in [Episodes -> Classes]
    /\ Seasoned \subseteq AutoFix
    /\ LlmDriven \subseteq Classes
    /\ LlmActs \subseteq AutoFix
    /\ {Unclassified, Nothing} \cap Classes = {}
    /\ Unclassified # Nothing
    /\ Nothing \notin Episodes
    /\ Exclusive \in BOOLEAN
    /\ KillBound \in Nat
    /\ OverrideBound \in Nat

VARIABLES
    scored,         \* episodes with a row in scores
    job,            \* [Scorers -> Job], what each process is doing
    tally,          \* per episode, how often it reached each counter
    earned,         \* correct outcomes in a row behind each class's trust
    late,           \* per class and process, fixes sent on the class's account
                    \*   since it lost its trust or was put on hold
    granted,        \* classes an operator promoted and nothing took back
    unlogged,       \* episodes whose fix went out under a wrong class
                    \*   and that misdispatch_log does not show (yet)
    kills, overrides

ghosts == <<tally, earned, late, granted, unlogged>>
bounds == <<kills, overrides>>
vars == <<tables, scored, job, ghosts, bounds>>

Steps == {"idle", "diagnose", "propose", "dispatch", "fix", "judge",
          "failure", "breaker", "reset", "resetAction", "clearHolds",
          "release", "score", "readA", "writeA", "misdispatch", "hold",
          "readB", "writeB", "readC", "writeC"}

\* An LLM action proposal: its tool always matches the LLM's own diagnosis
\* (action_proposer.py rejects any other), so what varies is whether its
\* parameters pass check_safe.  "none" stands also for a proposal that is not
\* of the primary tier, which is logged and never scored.
Proposals == {"none", "safe", "unsafe"}

Sources == {"none", "agent", "gate", "safety_net"}
Verdicts == {"none", "correct", "wrong"}

\* A field is cleared when no later step reads it.
Job == [pc : Steps,
        ep : Episodes \cup {Nothing},
        predicted : Classes \cup {Unclassified, Nothing},
        llm : Classes \cup {Nothing},   \* the LLM's primary-tier answer
        primary : BOOLEAN,
        proposal : Proposals,
        fix : AutoFix \cup {Nothing},
        source : Sources,
        applied : BOOLEAN,
        verdict : Verdicts,     \* trust_correct
        row : TrustRow \cup ModeRow \cup ActionRow \cup {Nothing},
        todo : SUBSET Classes,  \* classes a trip has still to reset
        under : Classes \cup {Nothing}]    \* the class it is at

Idle == [pc |-> "idle", ep |-> Nothing, predicted |-> Nothing,
         llm |-> Nothing, primary |-> FALSE, proposal |-> "none",
         fix |-> Nothing, source |-> "none", applied |-> FALSE,
         verdict |-> "none", row |-> Nothing, todo |-> {}, under |-> Nothing]

TypeOK ==
    /\ TablesType
    /\ scored \subseteq Episodes
    /\ job \in [Scorers -> Job]
    /\ tally \in [Episodes -> [A : Nat, B : Nat, C : Nat]]
    /\ earned \in [AutoFix -> Nat]
    /\ late \in [AutoFix -> [Scorers -> Nat]]
    /\ granted \subseteq AutoFix
    /\ unlogged \subseteq Episodes
    /\ kills \in 0..KillBound
    /\ overrides \in 0..OverrideBound

\* The tables as restore_promotion.py and set_llm_trust_state.py leave them.
Init ==
    /\ trustState = [c \in AutoFix |->
          IF c \in Seasoned THEN Row(CAN_ACT, PromotionStreak)
                            ELSE Row(REPORT_ONLY, 0)]
    /\ diagnoserMode = [c \in Classes |->
          IF c \in LlmDriven THEN Row(LLM, DiagnoserStreak) ELSE Row(STUB, 0)]
    /\ actionTrust = [c \in AutoFix |->
          IF c \in LlmActs THEN Row(LLM_CAN_ACT, ActionStreak)
                           ELSE Row(DETERMINISTIC_FALLBACK, 0)]
    /\ failureLog = 0
    /\ misdispatchLog = [c \in AutoFix |-> 0]
    /\ safetyHold = {}
    /\ scored = {}
    /\ job = [s \in Scorers |-> Idle]
    /\ tally = [e \in Episodes |-> [A |-> 0, B |-> 0, C |-> 0]]
    /\ earned = [c \in AutoFix |-> 0]
    /\ late = [c \in AutoFix |-> [s \in Scorers |-> 0]]
    /\ granted = Seasoned
    /\ unlogged = {}
    /\ kills = 0 /\ overrides = 0

At(s, step) == job[s].pc = step

\* The fault the scorer's episode really is.
Truth(s) == Actual[job[s].ep]

\* p3_agent's test for dispatching class c: can_act and not on hold
MayAct(c) == trustState[c].state = CAN_ACT /\ c \notin safetyHold

\* The class whose trust lets the process's fix out: the one diagnosed, or
\* the real one when the diagnosis has no action of its own.
Account(s) == IF job[s].predicted \in AutoFix THEN job[s].predicted
              ELSE Truth(s)

\* A class that may act again starts a new count.
LateAfter(rows, held) ==
    [c \in AutoFix |-> IF rows[c].state = CAN_ACT /\ c \notin held
                       THEN [s \in Scorers |-> 0] ELSE late[c]]

-----------------------------------------------------------------------------
(* Picking an episode and diagnosing it.                                   *)

\* get_episode_by_id or get_unscored_episode: the episode is not scored yet
Start(s, e) ==
    /\ At(s, "idle")
    /\ e \notin scored
    /\ Exclusive => \A r \in Scorers : At(r, "idle")
    /\ job' = [job EXCEPT ![s] = [Idle EXCEPT !.pc = "diagnose", !.ep = e]]
    /\ UNCHANGED <<tables, scored, ghosts, bounds>>

\* /diagnose: the rules and the LLM both answer; the mode of the class the
\* rules named decides whose answer drives production.  Then the scorer
\* decides whether /act is worth calling.
Diagnose(s, stub, llm, primary) ==
    /\ At(s, "diagnose")
    /\ primary => llm # Nothing
    /\ LET byLlm == /\ stub # Unclassified
                    /\ diagnoserMode[stub].state = LLM
                    /\ llm # Nothing
           predicted == IF byLlm THEN llm ELSE stub
           worthCallingAct ==
               \/ predicted \in AutoFix /\ MayAct(predicted)
               \/ llm \in AutoFix
               \/ predicted \notin AutoFix /\ Truth(s) \in AutoFix
       IN job' = [job EXCEPT ![s] =
              [@ EXCEPT !.pc = IF worthCallingAct THEN "propose" ELSE "judge",
                        !.predicted = predicted,
                        !.llm = IF primary THEN llm ELSE Nothing,
                        !.primary = primary]]
    /\ UNCHANGED <<tables, scored, ghosts, bounds>>

-----------------------------------------------------------------------------
(* /act, in p3_agent.py: Dimension C's background proposal, then dispatch. *)

Propose(s, proposal) ==
    /\ At(s, "propose")
    /\ LET llm == job[s].llm
       IN proposal # "none" => /\ llm \in AutoFix
                               /\ trustState[llm].state = CAN_ACT
                               /\ job[s].primary
    /\ job' = [job EXCEPT ![s] = [@ EXCEPT !.pc = "dispatch",
                                           !.proposal = proposal]]
    /\ UNCHANGED <<tables, scored, ghosts, bounds>>

\* /act trusts the eligibility /diagnose already reported.
DispatchDecisionStale(predicted, actual) ==
    IF predicted \in AutoFix
    THEN IF predicted # actual /\ actual \in AutoFix
         THEN <<actual, "gate">> ELSE <<predicted, "agent">>
    ELSE IF actual \in AutoFix /\ MayAct(actual)
         THEN <<actual, "safety_net">> ELSE <<Nothing, "none">>

\* What a fresh read of the tables lets out: the class fixed, and on whose
\* account.  The gate redirects a wrong class to the real one; a diagnosis
\* with no action of its own is rescued by the safety net.  The LLM's safe
\* parameters or the deterministic ones make the same fix.
DispatchDecision(predicted, actual) ==
    IF predicted \in AutoFix
    THEN IF ~MayAct(predicted) THEN <<Nothing, "none">>
         ELSE IF predicted # actual /\ actual \in AutoFix
              THEN <<actual, "gate">> ELSE <<predicted, "agent">>
    ELSE IF actual \in AutoFix /\ MayAct(actual)
         THEN <<actual, "safety_net">> ELSE <<Nothing, "none">>

\* The fresh read of trust_state and safety_hold.  The check of the LLM's
\* parameters against the cluster and the intervention row follow it, and
\* hold nothing that keeps another process out.
Dispatch(s) ==
    /\ At(s, "dispatch")
    /\ LET decision == DispatchDecision(job[s].predicted, Truth(s))
       IN job' = [job EXCEPT ![s] =
             [@ EXCEPT !.pc = IF decision[1] = Nothing THEN "judge" ELSE "fix",
                       !.fix = decision[1], !.source = decision[2]]]
    /\ UNCHANGED <<tables, scored, ghosts, bounds>>

\* The fix goes out, on whatever the read said.
ApplyFix(s, applied) ==
    /\ At(s, "fix")
    /\ late' = IF MayAct(Account(s)) THEN late
               ELSE [late EXCEPT ![Account(s)][s] = @ + 1]
    /\ job' = [job EXCEPT ![s] = [@ EXCEPT !.pc = "judge",
                                           !.applied = applied]]
    /\ UNCHANGED <<tables, scored, tally, earned, granted, unlogged, bounds>>

-----------------------------------------------------------------------------
(* Judging the outcome.                                                    *)

\* A rescue that worked is judged by its durability alone.
JudgeForgetsDiagnosis(s, confirmed) ==
    /\ At(s, "judge")
    /\ job' = [job EXCEPT ![s] =
          IF job[s].fix # Nothing
          THEN LET ok == job[s].applied /\ confirmed
               IN [@ EXCEPT !.pc = IF ok THEN "score" ELSE "failure",
                            !.applied = FALSE,
                            !.verdict = IF ok THEN "correct" ELSE "wrong"]
          ELSE [@ EXCEPT !.pc = "score",
                         !.verdict = IF Truth(s) \notin AutoFix THEN "none"
                                     ELSE IF job[s].predicted = Truth(s)
                                     THEN "correct" ELSE "wrong"]]
    /\ UNCHANGED <<tables, scored, ghosts, bounds>>

\* confirmed is verify_durability's verdict, consulted only for a right
\* diagnosis whose fix was applied.
Judge(s, confirmed) ==
    /\ At(s, "judge")
    /\ LET correct == job[s].predicted = Truth(s)
           good == correct /\ job[s].applied /\ confirmed
       IN job' = [job EXCEPT ![s] =
              IF job[s].fix # Nothing
              THEN [@ EXCEPT !.pc = IF good THEN "score" ELSE "failure",
                             !.applied = FALSE,
                             !.verdict = IF good THEN "correct" ELSE "wrong"]
              ELSE [@ EXCEPT !.pc = "score",
                             !.verdict = IF Truth(s) \notin AutoFix THEN "none"
                                         ELSE IF correct THEN "correct"
                                         ELSE "wrong"]]
    /\ UNCHANGED <<tables, scored, ghosts, bounds>>

-----------------------------------------------------------------------------
(* record_failure and check_circuit_breaker, before the scores row.        *)

RecordFailure(s) ==
    /\ At(s, "failure")
    /\ failureLog' = failureLog + 1
    /\ job' = [job EXCEPT ![s].pc = "breaker"]
    /\ UNCHANGED <<trustState, diagnoserMode, actionTrust, misdispatchLog,
                   safetyHold, scored, ghosts, bounds>>

BreakerHolds(s) ==
    /\ At(s, "breaker")
    /\ ~Tripped(failureLog)
    /\ job' = [job EXCEPT ![s].pc = "score"]
    /\ UNCHANGED <<tables, scored, ghosts, bounds>>

\* B and C are reset for the auto-fix classes only.
BreakerTripsSkipsNone(s) ==
    /\ At(s, "breaker")
    /\ Tripped(failureLog)
    /\ trustState' = TripTrust(trustState)
    /\ earned' = [c \in AutoFix |->
          IF trustState[c].state = CAN_ACT THEN 0 ELSE earned[c]]
    /\ granted' = {c \in granted : trustState[c].state # CAN_ACT}
    /\ job' = [job EXCEPT ![s] = [@ EXCEPT !.pc = "reset", !.todo = AutoFix]]
    /\ UNCHANGED <<diagnoserMode, actionTrust, failureLog, misdispatchLog,
                   safetyHold, scored, tally, late, unlogged, bounds>>

\* Dimension A in one transaction; the classes of B and C follow one by one.
BreakerTrips(s) ==
    /\ At(s, "breaker")
    /\ Tripped(failureLog)
    /\ trustState' = TripTrust(trustState)
    /\ earned' = [c \in AutoFix |->
          IF trustState[c].state = CAN_ACT THEN 0 ELSE earned[c]]
    /\ granted' = {c \in granted : trustState[c].state # CAN_ACT}
    /\ job' = [job EXCEPT ![s] = [@ EXCEPT !.pc = "reset", !.todo = Classes]]
    /\ UNCHANGED <<diagnoserMode, actionTrust, failureLog, misdispatchLog,
                   safetyHold, scored, tally, late, unlogged, bounds>>

\* reset_to_safe_defaults: diagnoser_mode is committed before action_trust.
ResetDiagnoser(s, c) ==
    /\ At(s, "reset")
    /\ c \in job[s].todo
    /\ diagnoserMode' = SafeMode(diagnoserMode, c)
    /\ job' = [job EXCEPT ![s] = [@ EXCEPT !.pc = "resetAction",
                                           !.todo = job[s].todo \ {c},
                                           !.under = c]]
    /\ UNCHANGED <<trustState, actionTrust, failureLog, misdispatchLog,
                   safetyHold, scored, ghosts, bounds>>

ResetAction(s) ==
    /\ At(s, "resetAction")
    /\ actionTrust' = SafeAction(actionTrust, job[s].under)
    /\ job' = [job EXCEPT ![s] =
          [@ EXCEPT !.pc = IF job[s].todo = {} THEN "clearHolds" ELSE "reset",
                    !.under = Nothing]]
    /\ UNCHANGED <<trustState, diagnoserMode, failureLog, misdispatchLog,
                   safetyHold, scored, ghosts, bounds>>

\* The holds are listed, then lifted one transaction each.
ClearAllSafetyHolds(s) ==
    /\ At(s, "clearHolds")
    /\ job' = [job EXCEPT ![s] =
          [@ EXCEPT !.pc = IF safetyHold = {} THEN "score" ELSE "release",
                    !.todo = safetyHold]]
    /\ UNCHANGED <<tables, scored, ghosts, bounds>>

ReleaseHold(s, c) ==
    /\ At(s, "release")
    /\ c \in job[s].todo
    /\ safetyHold' = safetyHold \ {c}
    /\ late' = LateAfter(trustState, safetyHold')
    /\ job' = [job EXCEPT ![s] =
          [@ EXCEPT !.pc = IF job[s].todo = {c} THEN "score" ELSE "release",
                    !.todo = job[s].todo \ {c}]]
    /\ UNCHANGED <<trustState, diagnoserMode, actionTrust, failureLog,
                   misdispatchLog, scored, tally, earned, granted, unlogged,
                   bounds>>

-----------------------------------------------------------------------------
(* The scores row, then Dimension A.                                       *)

\* INSERT OR REPLACE instead of the primary key's refusal.
InsertScoreReplaces(s) ==
    /\ At(s, "score")
    /\ scored' = scored \cup {job[s].ep}
    /\ unlogged' = IF job[s].fix # Nothing /\ job[s].predicted # Truth(s)
                      /\ job[s].predicted \in AutoFix
                   THEN unlogged \cup {job[s].ep} ELSE unlogged
    /\ job' = [job EXCEPT ![s].pc =
          IF job[s].verdict = "none" THEN "misdispatch" ELSE "readA"]
    /\ UNCHANGED <<tables, tally, earned, late, granted, bounds>>

\* The primary key refuses a second row: sqlite3.IntegrityError, and the
\* scorer dies before it has touched trust.
InsertScore(s) ==
    /\ At(s, "score")
    /\ IF job[s].ep \in scored
       THEN /\ job' = [job EXCEPT ![s] = Idle]
            /\ UNCHANGED <<scored, unlogged>>
       ELSE /\ scored' = scored \cup {job[s].ep}
            /\ unlogged' = IF /\ job[s].fix # Nothing
                              /\ job[s].predicted # Truth(s)
                              /\ job[s].predicted \in AutoFix
                           THEN unlogged \cup {job[s].ep} ELSE unlogged
            /\ job' = [job EXCEPT ![s].pc =
                  IF job[s].verdict = "none" THEN "misdispatch" ELSE "readA"]
    /\ UNCHANGED <<tables, tally, earned, late, granted, bounds>>

\* No outcome is taken for a class that has not been promoted.
ReadTrustOfTrusted(s) ==
    /\ At(s, "readA")
    /\ job' = [job EXCEPT ![s] =
          IF Truth(s) \in AutoFix /\ trustState[Truth(s)].state = CAN_ACT
          THEN [@ EXCEPT !.pc = "writeA", !.row = trustState[Truth(s)]]
          ELSE Idle]
    /\ UNCHANGED <<tables, scored, ghosts, bounds>>

\* record_outcome reads the row, outside any transaction; it refuses a class
\* with no promotion policy with a ValueError nobody catches.
ReadTrust(s) ==
    /\ At(s, "readA")
    /\ job' = [job EXCEPT ![s] =
          IF Truth(s) \in AutoFix
          THEN [@ EXCEPT !.pc = "writeA", !.row = trustState[Truth(s)]]
          ELSE Idle]
    /\ UNCHANGED <<tables, scored, ghosts, bounds>>

WriteTrust(s) ==
    /\ At(s, "writeA")
    /\ LET c == Truth(s)
           correct == job[s].verdict = "correct"
       IN /\ trustState' = [trustState EXCEPT ![c] =
                               RecordOutcome(job[s].row, correct)]
          /\ earned' = [earned EXCEPT ![c] = IF correct THEN @ + 1 ELSE 0]
          /\ granted' = IF correct THEN granted ELSE granted \ {c}
    /\ late' = LateAfter(trustState', safetyHold)
    /\ tally' = [tally EXCEPT ![job[s].ep].A = @ + 1]
    /\ job' = [job EXCEPT ![s] = [@ EXCEPT !.pc = "misdispatch",
                                           !.row = Nothing]]
    /\ UNCHANGED <<diagnoserMode, actionTrust, failureLog, misdispatchLog,
                   safetyHold, scored, unlogged, bounds>>

-----------------------------------------------------------------------------
(* The misdispatch guard.                                                  *)

\* record_misdispatch commits the log first.
RecordMisdispatch(s) ==
    /\ At(s, "misdispatch")
    /\ LET p == job[s].predicted
       IN IF job[s].fix # Nothing /\ p # Truth(s) /\ p \in AutoFix
          THEN /\ misdispatchLog' = [misdispatchLog EXCEPT ![p] = @ + 1]
               /\ unlogged' = unlogged \ {job[s].ep}
               /\ job' = [job EXCEPT ![s] = [@ EXCEPT !.pc = "hold",
                            !.fix = Nothing, !.source = "none",
                            !.verdict = "none"]]
          ELSE /\ UNCHANGED <<misdispatchLog, unlogged>>
               /\ job' = [job EXCEPT ![s] = [@ EXCEPT !.pc = "readB",
                            !.predicted = Nothing, !.fix = Nothing,
                            !.source = "none", !.verdict = "none"]]
    /\ UNCHANGED <<trustState, diagnoserMode, actionTrust, failureLog,
                   safetyHold, scored, tally, earned, late, granted, bounds>>

\* The window is counted after that commit, whoever else logged in it.
SetSafetyHold(s) ==
    /\ At(s, "hold")
    /\ LET p == job[s].predicted
       IN safetyHold' = HoldAfter(safetyHold, p, misdispatchLog[p])
    /\ job' = [job EXCEPT ![s] = [@ EXCEPT !.pc = "readB",
                                           !.predicted = Nothing]]
    /\ UNCHANGED <<trustState, diagnoserMode, actionTrust, failureLog,
                   misdispatchLog, scored, ghosts, bounds>>

-----------------------------------------------------------------------------
(* record_llm_trust: Dimensions B and C, for primary-tier answers only.    *)

ReadMode(s) ==
    /\ At(s, "readB")
    /\ job' = [job EXCEPT ![s] =
          IF job[s].primary
          THEN [@ EXCEPT !.pc = "writeB", !.row = diagnoserMode[Truth(s)]]
          ELSE [@ EXCEPT !.pc = "readC"]]
    /\ UNCHANGED <<tables, scored, ghosts, bounds>>

WriteMode(s) ==
    /\ At(s, "writeB")
    /\ diagnoserMode' = [diagnoserMode EXCEPT ![Truth(s)] =
          RecordDiagnoserOutcome(job[s].row, job[s].llm = Truth(s))]
    /\ tally' = [tally EXCEPT ![job[s].ep].B = @ + 1]
    /\ job' = [job EXCEPT ![s] = [@ EXCEPT !.pc = "readC", !.row = Nothing]]
    /\ UNCHANGED <<trustState, actionTrust, failureLog, misdispatchLog,
                   safetyHold, scored, earned, late, granted, unlogged, bounds>>

\* The proposal is scored as proposed, whatever was dispatched.
ReadAction(s) ==
    /\ At(s, "readC")
    /\ job' = [job EXCEPT ![s] =
          IF job[s].proposal # "none" /\ Truth(s) \in AutoFix
          THEN [@ EXCEPT !.pc = "writeC", !.row = actionTrust[Truth(s)]]
          ELSE Idle]
    /\ UNCHANGED <<tables, scored, ghosts, bounds>>

WriteAction(s) ==
    /\ At(s, "writeC")
    /\ actionTrust' = [actionTrust EXCEPT ![Truth(s)] =
          RecordActionOutcome(job[s].row,
              job[s].llm = Truth(s) /\ job[s].proposal = "safe")]
    /\ tally' = [tally EXCEPT ![job[s].ep].C = @ + 1]
    /\ job' = [job EXCEPT ![s] = Idle]
    /\ UNCHANGED <<trustState, diagnoserMode, failureLog, misdispatchLog,
                   safetyHold, scored, earned, late, granted, unlogged, bounds>>

-----------------------------------------------------------------------------
(* The environment: kills, time, the operator.                             *)

Kill(s) ==
    /\ kills < KillBound
    /\ ~At(s, "idle")
    /\ kills' = kills + 1
    /\ job' = [job EXCEPT ![s] = Idle]
    /\ UNCHANGED <<tables, scored, ghosts, overrides>>

FailureExpires ==
    /\ failureLog > 0
    /\ failureLog' = failureLog - 1
    /\ UNCHANGED <<trustState, diagnoserMode, actionTrust, misdispatchLog,
                   safetyHold, scored, job, ghosts, bounds>>

MisdispatchExpires(c) ==
    /\ misdispatchLog[c] > 0
    /\ misdispatchLog' = [misdispatchLog EXCEPT ![c] = @ - 1]
    /\ UNCHANGED <<trustState, diagnoserMode, actionTrust, failureLog,
                   safetyHold, scored, job, ghosts, bounds>>

\* Under Exclusive an operator steps into no read-modify-write and no trip.
Overriding ==
    /\ overrides < OverrideBound
    /\ overrides' = overrides + 1
    /\ Exclusive => \A s \in Scorers :
          job[s].pc \notin {"writeA", "reset", "resetAction", "clearHolds",
                            "release"}

Promote(c) ==
    /\ Overriding
    /\ trustState[c].state # CAN_ACT
    /\ trustState' = [trustState EXCEPT ![c] = Row(CAN_ACT, PromotionStreak)]
    /\ granted' = granted \cup {c}
    /\ late' = LateAfter(trustState', safetyHold)
    /\ UNCHANGED <<diagnoserMode, actionTrust, failureLog, misdispatchLog,
                   safetyHold, scored, job, tally, earned, unlogged, kills>>

Demote(c) ==
    /\ Overriding
    /\ trustState[c].state # REPORT_ONLY
    /\ trustState' = [trustState EXCEPT ![c] = Row(REPORT_ONLY, 0)]
    /\ granted' = granted \ {c}
    /\ earned' = [earned EXCEPT ![c] = 0]
    /\ UNCHANGED <<diagnoserMode, actionTrust, failureLog, misdispatchLog,
                   safetyHold, scored, job, tally, late, unlogged, kills>>

ClearSafetyHold(c) ==
    /\ overrides < OverrideBound
    /\ overrides' = overrides + 1
    /\ c \in safetyHold
    /\ safetyHold' = safetyHold \ {c}
    /\ late' = LateAfter(trustState, safetyHold')
    /\ UNCHANGED <<trustState, diagnoserMode, actionTrust, failureLog,
                   misdispatchLog, scored, job, tally, earned, granted,
                   unlogged, kills>>

-----------------------------------------------------------------------------
\* A running process's next transaction.
Step(s) ==
    \/ \E stub \in Classes \cup {Unclassified},
          llm \in Classes \cup {Nothing}, primary \in BOOLEAN :
             Diagnose(s, stub, llm, primary)
    \/ \E proposal \in Proposals : Propose(s, proposal)
    \/ Dispatch(s) \/ \E applied \in BOOLEAN : ApplyFix(s, applied)
    \/ \E confirmed \in BOOLEAN : Judge(s, confirmed)
    \/ RecordFailure(s) \/ BreakerHolds(s) \/ BreakerTrips(s)
    \/ \E c \in Classes : ResetDiagnoser(s, c) \/ ReleaseHold(s, c)
    \/ ResetAction(s) \/ ClearAllSafetyHolds(s) \/ InsertScore(s)
    \/ ReadTrust(s) \/ WriteTrust(s)
    \/ RecordMisdispatch(s) \/ SetSafetyHold(s)
    \/ ReadMode(s) \/ WriteMode(s) \/ ReadAction(s) \/ WriteAction(s)

Next ==
    \/ \E s \in Scorers : Step(s) \/ Kill(s) \/ \E e \in Episodes : Start(s, e)
    \/ FailureExpires
    \/ \E c \in AutoFix : \/ MisdispatchExpires(c) \/ ClearSafetyHold(c)
                          \/ Promote(c) \/ Demote(c)

Spec == Init /\ [][Next]_vars

-----------------------------------------------------------------------------
(***************************************************************************)
(* Properties.                                                             *)
(***************************************************************************)

\* However often scorers are killed and an episode is scored again, and even
\* when two of them work on it at once, it moves each dimension's streak at
\* most once ("never double-counts it", p3_scorer.py:642).
NoDoubleCount ==
    \A e \in Episodes : tally[e].A <= 1 /\ tally[e].B <= 1 /\ tally[e].C <= 1

\* A process between the scores row and the end of its episode.
Counting == {"readA", "writeA", "misdispatch", "hold", "readB", "writeB",
             "readC", "writeC"}

\* A running process has an episode, and a process about to write a table
\* holds a row read from that table.
JobsFit ==
    \A s \in Scorers :
        /\ At(s, "idle") <=> job[s].ep = Nothing
        /\ At(s, "hold") => job[s].predicted \in AutoFix
        /\ At(s, "writeA") => Truth(s) \in AutoFix /\ job[s].row \in TrustRow
        /\ At(s, "writeB") => job[s].row \in ModeRow
        /\ At(s, "writeC") => Truth(s) \in AutoFix /\ job[s].row \in ActionRow

\* The scores row is a ticket: one process holds it per episode, and the
\* counters it has still to reach are untouched.
CountsOnce ==
    /\ \A s \in Scorers : job[s].pc \in Counting =>
          /\ job[s].ep \in scored
          /\ job[s].pc \in {"readA", "writeA"} => tally[job[s].ep].A = 0
          /\ job[s].pc \notin {"readC", "writeC"} => tally[job[s].ep].B = 0
          /\ tally[job[s].ep].C = 0
    /\ \A r, s \in Scorers :
          /\ job[r].pc \in Counting /\ job[s].pc \in Counting
          /\ job[r].ep = job[s].ep
          => r = s
    /\ \A e \in Episodes \ scored :
          tally[e].A = 0 /\ tally[e].B = 0 /\ tally[e].C = 0

\* The tables hold what their columns may hold, and p3_scorer.main() moves
\* each streak at most once per episode.
ScorerInv == TypeOK /\ NoDoubleCount /\ JobsFit /\ CountsOnce

\* A class acts on a full streak of outcomes since it last lost its trust,
\* or because an operator promoted it: through kills, trips and overrides,
\* "no partial credit" (trust_engine.py:7).
EarnedAutonomy ==
    \A c \in AutoFix :
        trustState[c].state = CAN_ACT
            => c \in granted \/ earned[c] >= PromotionStreak

\* A rescue is never evidence: when the gate or the safety net sent out a fix
\* the agent did not diagnose, the episode is scored as a miss
\* (p3_agent.py:891, dispatch_gate.py).
RescueNeverCounts ==
    \A s \in Scorers :
        job[s].source \in {"gate", "safety_net"} /\ job[s].verdict # "none"
            => job[s].verdict = "wrong"

\* /act reads trust afresh but acts on it later, after a look at the cluster
\* and an intervention row (p3_agent.py:953, :926), so a fix may go out for a
\* class that was demoted, tripped or put on hold in between.  Each process
\* has one such fix at most: until the class may act again it sends no second
\* one on that account, however often it is killed and retried (the stale
\* eligibility p3_agent.py:823 speaks of).
OneLateFix == \A c \in AutoFix, s \in Scorers : late[c][s] <= 1

\* A fix that went out under a wrong auto-fix class during a fault that has
\* a fix of its own reaches the misdispatch guard before its scorer, unless
\* killed, is done with the episode, whatever the breaker and Dimension A
\* did with it on the way (p3_scorer.py:707, misdispatch_guard.py:50).
MisdispatchReachesGuard ==
    kills = 0 => \A e \in unlogged :
        Actual[e] \in AutoFix => \E s \in Scorers : job[s].ep = e

\* A trip leaves nothing behind: while no scorer is inside one, no class that
\* was reset is trusted on older evidence than the trip (circuit_breaker.py).
TripReachesEveryDimension ==
    [][\A s \in Scorers :
          /\ job[s].pc \in {"clearHolds", "release"}
          /\ job'[s].pc = "score"
          =>
              /\ \A c \in Classes : diagnoserMode[c] = Row(STUB, 0)
              /\ \A c \in AutoFix :
                    actionTrust[c] = Row(DETERMINISTIC_FALLBACK, 0)
              /\ \A c \in AutoFix : trustState[c].state = REPORT_ONLY]_vars
=============================================================================
