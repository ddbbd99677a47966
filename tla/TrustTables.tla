---------------------------- MODULE TrustTables ----------------------------
(***************************************************************************)
(* The tables of wardence.db that decide how much autonomy the agent has,  *)
(* and what each function that owns a table writes to it:                  *)
(*                                                                         *)
(*   trust_state      Dimension A, may the agent fix this class of fault   *)
(*                    (trust_engine.py)                                    *)
(*   diagnoser_mode   Dimension B, whose diagnosis drives production       *)
(*   action_trust     Dimension C, whose choice of action is dispatched    *)
(*                    (both llm_trust_state.py)                            *)
(*   failure_log      the circuit breaker's five-minute window             *)
(*                    (circuit_breaker.py)                                 *)
(*   misdispatch_log, safety_hold                                          *)
(*                    the misdispatch guard's 24-hour window and the holds *)
(*                    it places (misdispatch_guard.py)                     *)
(*                                                                         *)
(* A missing row reads as the safe default, so every class has a row here. *)
(* Rows of the two time-windowed logs are counted while they are inside    *)
(* their window; an expiry step removes one.                               *)
(***************************************************************************)
EXTENDS Naturals, FiniteSets

CONSTANTS
    AutoFix,            \* classes with a promotion policy and a fix action
    ReportOnly,         \* faults the agent may only report
    NoFault,            \* the "none" control class
    PromotionStreak,    \* PROMOTION_STREAK, 5 for every class
    DiagnoserStreak,    \* DIAGNOSER_PROMOTION_STREAK, 5
    ActionStreak,       \* ACTION_PROMOTION_STREAK, 5
    FailureThreshold,   \* FAILURE_THRESHOLD, 3
    HoldThreshold       \* MISDISPATCH_HOLD_THRESHOLD, 3

\* react_agent.FAULT_CLASSES
Classes == AutoFix \cup ReportOnly \cup {NoFault}

ASSUME TablesAssumption ==
    /\ AutoFix # {}
    /\ AutoFix \cap ReportOnly = {}
    /\ NoFault \notin AutoFix \cup ReportOnly
    /\ PromotionStreak \in Nat \ {0}
    /\ DiagnoserStreak \in Nat \ {0}
    /\ ActionStreak \in Nat \ {0}
    /\ FailureThreshold \in Nat \ {0}
    /\ HoldThreshold \in Nat \ {0}

VARIABLES
    trustState,         \* [AutoFix -> TrustRow]
    diagnoserMode,      \* [Classes -> ModeRow]
    actionTrust,        \* [AutoFix -> ActionRow]
    failureLog,         \* failure_log rows of the last FAILURE_WINDOW_S
    misdispatchLog,     \* [AutoFix -> rows of the last 24h, by predicted class]
    safetyHold          \* classes whose safety_hold row is active

tables == <<trustState, diagnoserMode, actionTrust,
            failureLog, misdispatchLog, safetyHold>>

REPORT_ONLY == "report_only"
CAN_ACT     == "can_act"
STUB        == "stub"
LLM         == "llm"
DETERMINISTIC_FALLBACK == "deterministic_fallback"
LLM_CAN_ACT == "llm_can_act"

TrustRow  == [state : {REPORT_ONLY, CAN_ACT}, streak : Nat]
ModeRow   == [state : {STUB, LLM}, streak : Nat]
ActionRow == [state : {DETERMINISTIC_FALLBACK, LLM_CAN_ACT}, streak : Nat]

Row(s, n) == [state |-> s, streak |-> n]

TablesType ==
    /\ trustState \in [AutoFix -> TrustRow]
    /\ diagnoserMode \in [Classes -> ModeRow]
    /\ actionTrust \in [AutoFix -> ActionRow]
    /\ failureLog \in Nat
    /\ misdispatchLog \in [AutoFix -> Nat]
    /\ safetyHold \in SUBSET AutoFix

\* A fresh database: no rows, so every read returns its default.
TablesInit ==
    /\ trustState = [c \in AutoFix |-> Row(REPORT_ONLY, 0)]
    /\ diagnoserMode = [c \in Classes |-> Row(STUB, 0)]
    /\ actionTrust = [c \in AutoFix |-> Row(DETERMINISTIC_FALLBACK, 0)]
    /\ failureLog = 0
    /\ misdispatchLog = [c \in AutoFix |-> 0]
    /\ safetyHold = {}

-----------------------------------------------------------------------------
(* Dimension A, trust_engine.record_outcome.  Wrong versions first.        *)

\* A miss zeroes the streak and leaves the class trusted.
RecordOutcomeNoDemotion(row, correct) ==
    IF correct
    THEN Row(IF row.streak + 1 >= PromotionStreak THEN CAN_ACT ELSE row.state,
             row.streak + 1)
    ELSE Row(row.state, 0)

RecordOutcome(row, correct) ==
    IF correct
    THEN Row(IF row.streak + 1 >= PromotionStreak THEN CAN_ACT ELSE row.state,
             row.streak + 1)
    ELSE Row(IF row.state = CAN_ACT THEN REPORT_ONLY ELSE row.state, 0)

-----------------------------------------------------------------------------
(* Dimensions B and C, llm_trust_state.record_diagnoser_outcome and        *)
(* record_action_outcome: any miss falls back to the safe state.           *)

RecordDiagnoserOutcome(row, correct) ==
    IF correct
    THEN Row(IF row.streak + 1 >= DiagnoserStreak THEN LLM ELSE row.state,
             row.streak + 1)
    ELSE Row(STUB, 0)

\* A miss zeroes the streak and leaves the LLM's choice in force.
RecordActionOutcomeNoRevoke(row, correct) ==
    IF correct
    THEN Row(IF row.streak + 1 >= ActionStreak THEN LLM_CAN_ACT ELSE row.state,
             row.streak + 1)
    ELSE Row(row.state, 0)

RecordActionOutcome(row, correct) ==
    IF correct
    THEN Row(IF row.streak + 1 >= ActionStreak THEN LLM_CAN_ACT ELSE row.state,
             row.streak + 1)
    ELSE Row(DETERMINISTIC_FALLBACK, 0)

-----------------------------------------------------------------------------
(* The circuit breaker, check_circuit_breaker.  Dimension A loses every    *)
(* can_act row in one transaction; classes still earning keep their streak.*)

Tripped(count) == count >= FailureThreshold

\* A trip takes the state back and forgets the streak.
TripTrustKeepsStreak(rows) ==
    [c \in AutoFix |-> IF rows[c].state = CAN_ACT
                       THEN Row(REPORT_ONLY, rows[c].streak) ELSE rows[c]]

TripTrust(rows) ==
    [c \in AutoFix |-> IF rows[c].state = CAN_ACT
                       THEN Row(REPORT_ONLY, 0) ELSE rows[c]]

\* llm_trust_state.reset_to_safe_defaults for one class
SafeMode(rows, c) == [rows EXCEPT ![c] = Row(STUB, 0)]

SafeAction(rows, c) ==
    [k \in AutoFix |-> IF k = c THEN Row(DETERMINISTIC_FALLBACK, 0) ELSE rows[k]]

-----------------------------------------------------------------------------
(* The misdispatch guard, record_misdispatch: a class dispatched for other *)
(* classes' faults often enough is held, and its streak is left alone.     *)

HoldAfter(held, c, recent) ==
    IF recent >= HoldThreshold THEN held \cup {c} ELSE held

=============================================================================
