---------------------------- MODULE TrustLadder ----------------------------
(***************************************************************************)
(* The trust ladder as its functions define it when one process at a time  *)
(* calls them: earning and losing trust in the three dimensions, the       *)
(* circuit breaker, safety holds, and the operator's overrides.  The       *)
(* scorer's pipeline, which interleaves these functions between processes  *)
(* and may die between two of them, is module Scorer.                      *)
(*                                                                         *)
(* The history tables are kept as the number of correct rows each class's  *)
(* history ends with: that is the evidence an auditor would ask for.       *)
(***************************************************************************)
EXTENDS TrustTables

CONSTANTS
    StreakBound,        \* bound: no outcome is recorded past this streak
    FailureBound,       \* bound on failure_log rows inside the window
    MisdispatchBound,   \* bound on a class's misdispatch_log rows
    OverrideBound       \* bound on operator overrides

ASSUME LadderAssumption ==
    /\ StreakBound \in Nat
    /\ FailureBound \in Nat
    /\ MisdispatchBound \in Nat
    /\ OverrideBound \in Nat

VARIABLES
    trustHistory,       \* correct rows trust_history ends with, per class
    modeHistory,        \* the same of diagnoser_mode_history
    actionHistory,      \* the same of action_trust_history
    grantedA,           \* classes whose trust_state row an operator set and
                        \*   no outcome or trip has taken back since
    grantedB,           \* the same of diagnoser_mode
    grantedC,           \* the same of action_trust
    overrides           \* operator overrides so far

histories == <<trustHistory, modeHistory, actionHistory>>
grants == <<grantedA, grantedB, grantedC, overrides>>
vars == <<tables, histories, grants>>

TypeOK ==
    /\ TablesType
    /\ trustHistory \in [AutoFix -> Nat]
    /\ modeHistory \in [Classes -> Nat]
    /\ actionHistory \in [AutoFix -> Nat]
    /\ grantedA \in SUBSET AutoFix
    /\ grantedB \in SUBSET Classes
    /\ grantedC \in SUBSET AutoFix
    /\ overrides \in Nat

Init ==
    /\ TablesInit
    /\ trustHistory = [c \in AutoFix |-> 0]
    /\ modeHistory = [c \in Classes |-> 0]
    /\ actionHistory = [c \in AutoFix |-> 0]
    /\ grantedA = {} /\ grantedB = {} /\ grantedC = {}
    /\ overrides = 0

\* What a new history row does to the run of correct rows at its end.
Extend(run, correct) == IF correct THEN run + 1 ELSE 0

-----------------------------------------------------------------------------
(* Outcomes, recorded by the scorer.                                       *)

Outcome(c, correct) ==
    /\ correct => trustState[c].streak < StreakBound
                  /\ trustHistory[c] < StreakBound
    /\ trustState' = [trustState EXCEPT ![c] = RecordOutcome(@, correct)]
    /\ trustHistory' = [trustHistory EXCEPT ![c] = Extend(@, correct)]
    /\ grantedA' = IF correct THEN grantedA ELSE grantedA \ {c}
    /\ UNCHANGED <<diagnoserMode, actionTrust, failureLog, misdispatchLog,
                   safetyHold, modeHistory, actionHistory,
                   grantedB, grantedC, overrides>>

DiagnoserOutcome(c, correct) ==
    /\ correct => diagnoserMode[c].streak < StreakBound
                  /\ modeHistory[c] < StreakBound
    /\ diagnoserMode' = [diagnoserMode EXCEPT ![c] =
                            RecordDiagnoserOutcome(@, correct)]
    /\ modeHistory' = [modeHistory EXCEPT ![c] = Extend(@, correct)]
    /\ grantedB' = IF correct THEN grantedB ELSE grantedB \ {c}
    /\ UNCHANGED <<trustState, actionTrust, failureLog, misdispatchLog,
                   safetyHold, trustHistory, actionHistory,
                   grantedA, grantedC, overrides>>

ActionOutcome(c, correct) ==
    /\ correct => actionTrust[c].streak < StreakBound
                  /\ actionHistory[c] < StreakBound
    /\ actionTrust' = [actionTrust EXCEPT ![c] = RecordActionOutcome(@, correct)]
    /\ actionHistory' = [actionHistory EXCEPT ![c] = Extend(@, correct)]
    /\ grantedC' = IF correct THEN grantedC ELSE grantedC \ {c}
    /\ UNCHANGED <<trustState, diagnoserMode, failureLog, misdispatchLog,
                   safetyHold, trustHistory, modeHistory,
                   grantedA, grantedB, overrides>>

-----------------------------------------------------------------------------
(* The circuit breaker.  record_failure logs and checks in one call; a     *)
(* trip resets all three dimensions, of every class, and drops the holds.  *)

FailureLogged ==
    /\ failureLog < FailureBound
    /\ failureLog' = failureLog + 1
    /\ ~Tripped(failureLog + 1)
    /\ UNCHANGED <<trustState, diagnoserMode, actionTrust, misdispatchLog,
                   safetyHold, histories, grants>>

\* A trip that forgets Dimension C.
BreakerTripsForgetsC ==
    /\ failureLog < FailureBound
    /\ failureLog' = failureLog + 1
    /\ Tripped(failureLog + 1)
    /\ trustState' = TripTrust(trustState)
    /\ diagnoserMode' = [c \in Classes |-> Row(STUB, 0)]
    /\ trustHistory' = [c \in AutoFix |->
          IF trustState[c].state = CAN_ACT THEN 0 ELSE trustHistory[c]]
    /\ modeHistory' = [c \in Classes |-> 0]
    /\ actionHistory' = [c \in AutoFix |-> 0]
    /\ grantedA' = {c \in grantedA : trustState[c].state # CAN_ACT}
    /\ grantedB' = {} /\ grantedC' = {}
    /\ safetyHold' = {}
    /\ UNCHANGED <<actionTrust, misdispatchLog, overrides>>

BreakerTrips ==
    /\ failureLog < FailureBound
    /\ failureLog' = failureLog + 1
    /\ Tripped(failureLog + 1)
    /\ trustState' = TripTrust(trustState)
    /\ diagnoserMode' = [c \in Classes |-> Row(STUB, 0)]
    /\ actionTrust' = [c \in AutoFix |-> Row(DETERMINISTIC_FALLBACK, 0)]
    /\ trustHistory' = [c \in AutoFix |->
          IF trustState[c].state = CAN_ACT THEN 0 ELSE trustHistory[c]]
    /\ modeHistory' = [c \in Classes |-> 0]
    /\ actionHistory' = [c \in AutoFix |-> 0]
    /\ grantedA' = {c \in grantedA : trustState[c].state # CAN_ACT}
    /\ grantedB' = {} /\ grantedC' = {}
    /\ safetyHold' = {}
    /\ UNCHANGED <<misdispatchLog, overrides>>

\* A failure_log row leaves the five-minute window.
FailureExpires ==
    /\ failureLog > 0
    /\ failureLog' = failureLog - 1
    /\ UNCHANGED <<trustState, diagnoserMode, actionTrust, misdispatchLog,
                   safetyHold, histories, grants>>

-----------------------------------------------------------------------------
(* The misdispatch guard.                                                  *)

Misdispatch(c) ==
    /\ misdispatchLog[c] < MisdispatchBound
    /\ misdispatchLog' = [misdispatchLog EXCEPT ![c] = @ + 1]
    /\ safetyHold' = HoldAfter(safetyHold, c, misdispatchLog[c] + 1)
    /\ UNCHANGED <<trustState, diagnoserMode, actionTrust, failureLog,
                   histories, grants>>

\* A misdispatch_log row leaves the 24-hour window.
MisdispatchExpires(c) ==
    /\ misdispatchLog[c] > 0
    /\ misdispatchLog' = [misdispatchLog EXCEPT ![c] = @ - 1]
    /\ UNCHANGED <<trustState, diagnoserMode, actionTrust, failureLog,
                   safetyHold, histories, grants>>

\* clear_safety_hold.py
ClearSafetyHold(c) ==
    /\ c \in safetyHold
    /\ safetyHold' = safetyHold \ {c}
    /\ UNCHANGED <<trustState, diagnoserMode, actionTrust, failureLog,
                   misdispatchLog, histories, grants>>

-----------------------------------------------------------------------------
(* Operator overrides.  /promote and /demote write no history row;         *)
(* set_llm_trust_state.py writes one marked correct.                       *)

Overriding == overrides < OverrideBound /\ overrides' = overrides + 1

Promote(c) ==
    /\ Overriding
    /\ trustState[c].state # CAN_ACT
    /\ trustState' = [trustState EXCEPT ![c] = Row(CAN_ACT, PromotionStreak)]
    /\ grantedA' = grantedA \cup {c}
    /\ UNCHANGED <<diagnoserMode, actionTrust, failureLog, misdispatchLog,
                   safetyHold, histories, grantedB, grantedC>>

\* restore_promotion.py and phase_d_promote_all.py: no check of the state
RestorePromotion(c) ==
    /\ Overriding
    /\ trustState' = [trustState EXCEPT ![c] = Row(CAN_ACT, PromotionStreak)]
    /\ grantedA' = grantedA \cup {c}
    /\ UNCHANGED <<diagnoserMode, actionTrust, failureLog, misdispatchLog,
                   safetyHold, histories, grantedB, grantedC>>

DemoteKeepsStreak(c) ==
    /\ Overriding
    /\ trustState[c].state # REPORT_ONLY
    /\ trustState' = [trustState EXCEPT ![c].state = REPORT_ONLY]
    /\ grantedA' = grantedA \ {c}
    /\ UNCHANGED <<diagnoserMode, actionTrust, failureLog, misdispatchLog,
                   safetyHold, histories, grantedB, grantedC>>

Demote(c) ==
    /\ Overriding
    /\ trustState[c].state # REPORT_ONLY
    /\ trustState' = [trustState EXCEPT ![c] = Row(REPORT_ONLY, 0)]
    /\ grantedA' = grantedA \ {c}
    /\ UNCHANGED <<diagnoserMode, actionTrust, failureLog, misdispatchLog,
                   safetyHold, histories, grantedB, grantedC>>

SetDiagnoserMode(c, mode, n) ==
    /\ Overriding
    /\ modeHistory[c] < StreakBound
    /\ diagnoserMode' = [diagnoserMode EXCEPT ![c] = Row(mode, n)]
    /\ modeHistory' = [modeHistory EXCEPT ![c] = Extend(@, TRUE)]
    /\ grantedB' = grantedB \cup {c}
    /\ UNCHANGED <<trustState, actionTrust, failureLog, misdispatchLog,
                   safetyHold, trustHistory, actionHistory, grantedA, grantedC>>

SetActionTrust(c, state, n) ==
    /\ Overriding
    /\ actionHistory[c] < StreakBound
    /\ actionTrust' = [actionTrust EXCEPT ![c] = Row(state, n)]
    /\ actionHistory' = [actionHistory EXCEPT ![c] = Extend(@, TRUE)]
    /\ grantedC' = grantedC \cup {c}
    /\ UNCHANGED <<trustState, diagnoserMode, failureLog, misdispatchLog,
                   safetyHold, trustHistory, modeHistory, grantedA, grantedB>>

-----------------------------------------------------------------------------
Next ==
    \/ \E c \in AutoFix, ok \in BOOLEAN : Outcome(c, ok) \/ ActionOutcome(c, ok)
    \/ \E c \in Classes, ok \in BOOLEAN : DiagnoserOutcome(c, ok)
    \/ FailureLogged \/ BreakerTrips \/ FailureExpires
    \/ \E c \in AutoFix :
          \/ Misdispatch(c) \/ MisdispatchExpires(c) \/ ClearSafetyHold(c)
          \/ Promote(c) \/ RestorePromotion(c) \/ Demote(c)
    \/ \E c \in Classes, mode \in {STUB, LLM}, n \in 0..StreakBound :
          SetDiagnoserMode(c, mode, n)
    \/ \E c \in AutoFix, state \in {DETERMINISTIC_FALLBACK, LLM_CAN_ACT},
          n \in 0..StreakBound : SetActionTrust(c, state, n)

Spec == Init /\ [][Next]_vars

-----------------------------------------------------------------------------
(***************************************************************************)
(* Properties.                                                             *)
(***************************************************************************)

\* Trust is earned and revocable, in each dimension: a class may act, the LLM
\* may drive its diagnosis, and the LLM's choice of action is dispatched only
\* if the class's history ends with a full streak of correct outcomes, or an
\* operator granted it and nothing has gone wrong since (record_outcome,
\* record_diagnoser_outcome, record_action_outcome, check_circuit_breaker,
\* /promote, /demote).
EarnedTrust ==
    /\ \A c \in AutoFix :
          trustState[c].state = CAN_ACT
              => c \in grantedA \/ trustHistory[c] >= PromotionStreak
    /\ \A c \in Classes :
          diagnoserMode[c].state = LLM
              => c \in grantedB \/ modeHistory[c] >= DiagnoserStreak
    /\ \A c \in AutoFix :
          actionTrust[c].state = LLM_CAN_ACT
              => c \in grantedC \/ actionHistory[c] >= ActionStreak

\* The published ladder never contradicts itself: a class is trusted exactly
\* when its displayed streak is a full one.  Promotion, demotion, a trip and
\* the operator's overrides of Dimension A all have to agree for this.
StreakShowsTrust ==
    \A c \in AutoFix :
        trustState[c].state = CAN_ACT <=> trustState[c].streak >= PromotionStreak

\* Each dimension implements the abstract contract.
ContractA == INSTANCE RevocableTrust WITH
    Class <- AutoFix, Threshold <- PromotionStreak,
    trusted <- [c \in AutoFix |-> trustState[c].state = CAN_ACT],
    streak <- [c \in AutoFix |-> trustState[c].streak]

ContractB == INSTANCE RevocableTrust WITH
    Class <- Classes, Threshold <- DiagnoserStreak,
    trusted <- [c \in Classes |-> diagnoserMode[c].state = LLM],
    streak <- [c \in Classes |-> diagnoserMode[c].streak]

ContractC == INSTANCE RevocableTrust WITH
    Class <- AutoFix, Threshold <- ActionStreak,
    trusted <- [c \in AutoFix |-> actionTrust[c].state = LLM_CAN_ACT],
    streak <- [c \in AutoFix |-> actionTrust[c].streak]

\* Dimension A's table changes only as the contract allows: up by a full
\* streak or a counted override, down by a miss, a reset or an override.
AutonomyContract == ContractA!Spec

\* The same of the diagnoser mode and of action trust.
LlmTrustContract == ContractB!Spec /\ ContractC!Spec

-----------------------------------------------------------------------------
(* The inductive invariant: a row no operator has touched records no more  *)
(* than its history proves, and a high state always rests on a full streak.*)

BackedTrust ==
    \A c \in AutoFix \ grantedA : trustState[c].streak <= trustHistory[c]

BackedMode ==
    \A c \in Classes \ grantedB :
        /\ diagnoserMode[c].streak <= modeHistory[c]
        /\ diagnoserMode[c].state = LLM
              => diagnoserMode[c].streak >= DiagnoserStreak

BackedAction ==
    \A c \in AutoFix \ grantedC :
        /\ actionTrust[c].streak <= actionHistory[c]
        /\ actionTrust[c].state = LLM_CAN_ACT
              => actionTrust[c].streak >= ActionStreak

\* A row that claims progress the history cannot show, in any dimension,
\* was put there by an operator.
LadderInv ==
    /\ TypeOK
    /\ StreakShowsTrust
    /\ BackedTrust
    /\ BackedMode
    /\ BackedAction
=============================================================================
