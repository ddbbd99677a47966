------------------------- MODULE TrustLadderProofs -------------------------
(***************************************************************************)
(* Proofs about the trust ladder, for every roster of classes, every       *)
(* threshold and every bound.                                              *)
(***************************************************************************)
EXTENDS TrustLadder, TLAPS

-----------------------------------------------------------------------------
(* What the functions that own the three tables return.                    *)

\* record_outcome returns a row whose streak is full exactly when its state
\* is can_act, provided the row it read was one.
LEMMA RecordOutcomeRow ==
    ASSUME NEW row \in TrustRow, NEW correct \in BOOLEAN
    PROVE  /\ RecordOutcome(row, correct) \in TrustRow
           /\ RecordOutcome(row, correct).streak = Extend(row.streak, correct)
           /\ (row.state = CAN_ACT <=> row.streak >= PromotionStreak)
                => (RecordOutcome(row, correct).state = CAN_ACT
                      <=> RecordOutcome(row, correct).streak >= PromotionStreak)
  BY TablesAssumption
     DEF RecordOutcome, TrustRow, Row, Extend, CAN_ACT, REPORT_ONLY

\* record_diagnoser_outcome never leaves the LLM in charge on a short streak.
LEMMA RecordDiagnoserOutcomeRow ==
    ASSUME NEW row \in ModeRow, NEW correct \in BOOLEAN
    PROVE  /\ RecordDiagnoserOutcome(row, correct) \in ModeRow
           /\ RecordDiagnoserOutcome(row, correct).streak
                 = Extend(row.streak, correct)
           /\ (row.state = LLM => row.streak >= DiagnoserStreak)
                => (RecordDiagnoserOutcome(row, correct).state = LLM
                      => RecordDiagnoserOutcome(row, correct).streak
                            >= DiagnoserStreak)
  BY TablesAssumption
     DEF RecordDiagnoserOutcome, ModeRow, Row, Extend, STUB, LLM

\* record_action_outcome never leaves the LLM's action trusted on a short
\* streak.
LEMMA RecordActionOutcomeRow ==
    ASSUME NEW row \in ActionRow, NEW correct \in BOOLEAN
    PROVE  /\ RecordActionOutcome(row, correct) \in ActionRow
           /\ RecordActionOutcome(row, correct).streak
                 = Extend(row.streak, correct)
           /\ (row.state = LLM_CAN_ACT => row.streak >= ActionStreak)
                => (RecordActionOutcome(row, correct).state = LLM_CAN_ACT
                      => RecordActionOutcome(row, correct).streak
                            >= ActionStreak)
  BY TablesAssumption
     DEF RecordActionOutcome, ActionRow, Row, Extend,
         DETERMINISTIC_FALLBACK, LLM_CAN_ACT

-----------------------------------------------------------------------------
(* The inductive invariant.                                                *)

LEMMA LadderInit == Init => LadderInv
  <1> SUFFICES ASSUME Init PROVE LadderInv
    OBVIOUS
  <1> USE DEF Init, TablesInit
  <1>1. TypeOK
    BY TablesAssumption
       DEF TypeOK, TablesType, TrustRow, ModeRow, ActionRow, Row, REPORT_ONLY,
           CAN_ACT, STUB, LLM, DETERMINISTIC_FALLBACK, LLM_CAN_ACT
  <1>2. StreakShowsTrust
    BY TablesAssumption DEF StreakShowsTrust, Row, REPORT_ONLY, CAN_ACT
  <1>3. BackedTrust
    BY DEF BackedTrust, Row
  <1>4. BackedMode
    BY DEF BackedMode, Row, STUB, LLM
  <1>5. BackedAction
    BY DEF BackedAction, Row, DETERMINISTIC_FALLBACK, LLM_CAN_ACT
  <1>6. QED
    BY <1>1, <1>2, <1>3, <1>4, <1>5 DEF LadderInv

LEMMA LadderOutcome ==
    ASSUME LadderInv, NEW c \in AutoFix, NEW correct \in BOOLEAN,
           Outcome(c, correct)
    PROVE  LadderInv'
  <1> DEFINE new == RecordOutcome(trustState[c], correct)
  <1> USE DEF LadderInv
  <1>1. /\ trustState' = [trustState EXCEPT ![c] = new]
        /\ trustHistory' = [trustHistory EXCEPT ![c] =
                               Extend(trustHistory[c], correct)]
        /\ grantedA' = IF correct THEN grantedA ELSE grantedA \ {c}
        /\ UNCHANGED <<diagnoserMode, actionTrust, failureLog, misdispatchLog,
                       safetyHold, modeHistory, actionHistory,
                       grantedB, grantedC, overrides>>
    BY DEF Outcome
  <1>2. trustState \in [AutoFix -> TrustRow] /\ trustState[c] \in TrustRow
    BY DEF TypeOK, TablesType
  <1>3. /\ new \in TrustRow
        /\ new.streak = Extend(trustState[c].streak, correct)
        /\ (trustState[c].state = CAN_ACT
               <=> trustState[c].streak >= PromotionStreak)
             => (new.state = CAN_ACT <=> new.streak >= PromotionStreak)
    BY <1>2, RecordOutcomeRow
  <1> HIDE DEF new
  <1>4. TypeOK'
    BY <1>1, <1>2, <1>3 DEF TypeOK, TablesType, Extend
  <1>5. StreakShowsTrust'
    BY <1>1, <1>2, <1>3 DEF StreakShowsTrust
  <1>6. BackedTrust'
    BY <1>1, <1>2, <1>3 DEF BackedTrust, TypeOK, TablesType, Extend, TrustRow
  <1>7. BackedMode' /\ BackedAction'
    BY <1>1 DEF BackedMode, BackedAction
  <1>8. QED
    BY <1>4, <1>5, <1>6, <1>7

LEMMA LadderDiagnoserOutcome ==
    ASSUME LadderInv, NEW c \in Classes, NEW correct \in BOOLEAN,
           DiagnoserOutcome(c, correct)
    PROVE  LadderInv'
  <1> DEFINE new == RecordDiagnoserOutcome(diagnoserMode[c], correct)
  <1> USE DEF LadderInv
  <1>1. /\ diagnoserMode' = [diagnoserMode EXCEPT ![c] = new]
        /\ modeHistory' = [modeHistory EXCEPT ![c] =
                              Extend(modeHistory[c], correct)]
        /\ grantedB' = IF correct THEN grantedB ELSE grantedB \ {c}
        /\ UNCHANGED <<trustState, actionTrust, failureLog, misdispatchLog,
                       safetyHold, trustHistory, actionHistory,
                       grantedA, grantedC, overrides>>
    BY DEF DiagnoserOutcome
  <1>2. diagnoserMode \in [Classes -> ModeRow] /\ diagnoserMode[c] \in ModeRow
    BY DEF TypeOK, TablesType
  <1>3. /\ new \in ModeRow
        /\ new.streak = Extend(diagnoserMode[c].streak, correct)
        /\ (diagnoserMode[c].state = LLM
               => diagnoserMode[c].streak >= DiagnoserStreak)
             => (new.state = LLM => new.streak >= DiagnoserStreak)
    BY <1>2, RecordDiagnoserOutcomeRow
  <1>4. ~correct => new.state # LLM
    BY DEF RecordDiagnoserOutcome, Row, STUB, LLM
  <1> HIDE DEF new
  <1>5. TypeOK'
    BY <1>1, <1>2, <1>3 DEF TypeOK, TablesType, Extend
  <1>6. BackedMode'
    BY <1>1, <1>2, <1>3, <1>4
       DEF BackedMode, TypeOK, TablesType, Extend, ModeRow
  <1>7. StreakShowsTrust' /\ BackedTrust' /\ BackedAction'
    BY <1>1 DEF StreakShowsTrust, BackedTrust, BackedAction
  <1>8. QED
    BY <1>5, <1>6, <1>7

LEMMA LadderActionOutcome ==
    ASSUME LadderInv, NEW c \in AutoFix, NEW correct \in BOOLEAN,
           ActionOutcome(c, correct)
    PROVE  LadderInv'
  <1> DEFINE new == RecordActionOutcome(actionTrust[c], correct)
  <1> USE DEF LadderInv
  <1>1. /\ actionTrust' = [actionTrust EXCEPT ![c] = new]
        /\ actionHistory' = [actionHistory EXCEPT ![c] =
                                Extend(actionHistory[c], correct)]
        /\ grantedC' = IF correct THEN grantedC ELSE grantedC \ {c}
        /\ UNCHANGED <<trustState, diagnoserMode, failureLog, misdispatchLog,
                       safetyHold, trustHistory, modeHistory,
                       grantedA, grantedB, overrides>>
    BY DEF ActionOutcome
  <1>2. actionTrust \in [AutoFix -> ActionRow] /\ actionTrust[c] \in ActionRow
    BY DEF TypeOK, TablesType
  <1>3. /\ new \in ActionRow
        /\ new.streak = Extend(actionTrust[c].streak, correct)
        /\ (actionTrust[c].state = LLM_CAN_ACT
               => actionTrust[c].streak >= ActionStreak)
             => (new.state = LLM_CAN_ACT => new.streak >= ActionStreak)
    BY <1>2, RecordActionOutcomeRow
  <1>4. ~correct => new.state # LLM_CAN_ACT
    BY DEF RecordActionOutcome, Row, DETERMINISTIC_FALLBACK, LLM_CAN_ACT
  <1> HIDE DEF new
  <1>5. TypeOK'
    BY <1>1, <1>2, <1>3 DEF TypeOK, TablesType, Extend
  <1>6. BackedAction'
    BY <1>1, <1>2, <1>3, <1>4
       DEF BackedAction, TypeOK, TablesType, Extend, ActionRow
  <1>7. StreakShowsTrust' /\ BackedTrust' /\ BackedMode'
    BY <1>1 DEF StreakShowsTrust, BackedTrust, BackedMode
  <1>8. QED
    BY <1>5, <1>6, <1>7

LEMMA LadderBreakerTrips ==
    ASSUME LadderInv, BreakerTrips
    PROVE  LadderInv'
  <1> USE DEF LadderInv, BreakerTrips
  <1>1. /\ trustState \in [AutoFix -> TrustRow]
        /\ trustState' = [c \in AutoFix |->
               IF trustState[c].state = CAN_ACT
               THEN Row(REPORT_ONLY, 0) ELSE trustState[c]]
    BY DEF TypeOK, TablesType, TripTrust
  <1>2. Row(REPORT_ONLY, 0) \in TrustRow
    BY DEF Row, TrustRow, REPORT_ONLY
  <1>3. TypeOK'
    <2>1. trustState' \in [AutoFix -> TrustRow]
      BY <1>1, <1>2
    <2>2. diagnoserMode' \in [Classes -> ModeRow]
      BY DEF ModeRow, Row, STUB
    <2>3. actionTrust' \in [AutoFix -> ActionRow]
      BY DEF ActionRow, Row, DETERMINISTIC_FALLBACK
    <2>4. QED
      BY <2>1, <2>2, <2>3 DEF TypeOK, TablesType
  <1>4. StreakShowsTrust'
    BY <1>1, TablesAssumption
       DEF StreakShowsTrust, Row, REPORT_ONLY, CAN_ACT
  <1>5. BackedTrust'
    BY <1>1 DEF BackedTrust, Row, TypeOK
  <1>6. BackedMode'
    BY DEF BackedMode, Row, STUB, LLM
  <1>7. BackedAction'
    BY DEF BackedAction, Row, DETERMINISTIC_FALLBACK, LLM_CAN_ACT
  <1>8. QED
    BY <1>3, <1>4, <1>5, <1>6, <1>7

\* Steps that touch no trust row: the two logs and the holds.
LEMMA LadderLogs ==
    ASSUME LadderInv,
           \/ FailureLogged \/ FailureExpires
           \/ \E c \in AutoFix : \/ Misdispatch(c) \/ MisdispatchExpires(c)
                                 \/ ClearSafetyHold(c)
    PROVE  LadderInv'
  <1> USE DEF LadderInv
  <1>1. UNCHANGED <<trustState, diagnoserMode, actionTrust, trustHistory,
                    modeHistory, actionHistory, grantedA, grantedB, grantedC,
                    overrides>>
    BY DEF FailureLogged, FailureExpires, Misdispatch, MisdispatchExpires,
           ClearSafetyHold, histories, grants
  <1>2. failureLog' \in Nat
    BY DEF TypeOK, TablesType, FailureLogged, FailureExpires, Misdispatch,
           MisdispatchExpires, ClearSafetyHold
  <1>3. misdispatchLog' \in [AutoFix -> Nat]
    BY DEF TypeOK, TablesType, FailureLogged, FailureExpires, Misdispatch,
           MisdispatchExpires, ClearSafetyHold
  <1>4. safetyHold' \in SUBSET AutoFix
    BY DEF TypeOK, TablesType, FailureLogged, FailureExpires, Misdispatch,
           MisdispatchExpires, ClearSafetyHold, HoldAfter
  <1>5. TypeOK'
    BY <1>1, <1>2, <1>3, <1>4 DEF TypeOK, TablesType
  <1>6. QED
    BY <1>1, <1>5 DEF StreakShowsTrust, BackedTrust, BackedMode, BackedAction

\* /promote, restore_promotion.py and /demote keep state and streak in step.
LEMMA LadderOverrideTrust ==
    ASSUME LadderInv, NEW c \in AutoFix,
           Promote(c) \/ RestorePromotion(c) \/ Demote(c)
    PROVE  LadderInv'
  <1> USE DEF LadderInv
  <1>1. /\ \/ /\ trustState' = [trustState EXCEPT ![c] =
                                   Row(CAN_ACT, PromotionStreak)]
              /\ grantedA' = grantedA \cup {c}
           \/ /\ trustState' = [trustState EXCEPT ![c] = Row(REPORT_ONLY, 0)]
              /\ grantedA' = grantedA \ {c}
        /\ overrides' = overrides + 1
        /\ UNCHANGED <<diagnoserMode, actionTrust, failureLog, misdispatchLog,
                       safetyHold, trustHistory, modeHistory, actionHistory,
                       grantedB, grantedC>>
    BY DEF Promote, RestorePromotion, Demote, Overriding, histories
  <1>2. /\ Row(CAN_ACT, PromotionStreak) \in TrustRow
        /\ Row(REPORT_ONLY, 0) \in TrustRow
    BY TablesAssumption DEF Row, TrustRow, CAN_ACT, REPORT_ONLY
  <1>3. TypeOK'
    BY <1>1, <1>2 DEF TypeOK, TablesType
  <1>4. StreakShowsTrust'
    BY <1>1, TablesAssumption
       DEF StreakShowsTrust, TypeOK, TablesType, Row, CAN_ACT, REPORT_ONLY
  <1>5. BackedTrust'
    BY <1>1 DEF BackedTrust, TypeOK, TablesType, Row
  <1>6. BackedMode' /\ BackedAction'
    BY <1>1 DEF BackedMode, BackedAction
  <1>7. QED
    BY <1>3, <1>4, <1>5, <1>6

LEMMA LadderSetDiagnoserMode ==
    ASSUME LadderInv, NEW c \in Classes, NEW mode \in {STUB, LLM},
           NEW n \in 0..StreakBound, SetDiagnoserMode(c, mode, n)
    PROVE  LadderInv'
  <1> USE DEF LadderInv, SetDiagnoserMode
  <1>1. Row(mode, n) \in ModeRow
    BY LadderAssumption DEF Row, ModeRow
  <1>2. TypeOK'
    BY <1>1 DEF TypeOK, TablesType, Overriding, Extend
  <1>3. BackedMode'
    BY DEF BackedMode, TypeOK, TablesType
  <1>4. StreakShowsTrust' /\ BackedTrust' /\ BackedAction'
    BY DEF StreakShowsTrust, BackedTrust, BackedAction
  <1>5. QED
    BY <1>2, <1>3, <1>4

LEMMA LadderSetActionTrust ==
    ASSUME LadderInv, NEW c \in AutoFix,
           NEW state \in {DETERMINISTIC_FALLBACK, LLM_CAN_ACT},
           NEW n \in 0..StreakBound, SetActionTrust(c, state, n)
    PROVE  LadderInv'
  <1> USE DEF LadderInv, SetActionTrust
  <1>1. Row(state, n) \in ActionRow
    BY LadderAssumption DEF Row, ActionRow
  <1>2. TypeOK'
    BY <1>1 DEF TypeOK, TablesType, Overriding, Extend
  <1>3. BackedAction'
    BY DEF BackedAction, TypeOK, TablesType
  <1>4. StreakShowsTrust' /\ BackedTrust' /\ BackedMode'
    BY DEF StreakShowsTrust, BackedTrust, BackedMode
  <1>5. QED
    BY <1>2, <1>3, <1>4

LEMMA LadderStep == LadderInv /\ [Next]_vars => LadderInv'
  <1> SUFFICES ASSUME LadderInv, [Next]_vars PROVE LadderInv'
    OBVIOUS
  <1>1. CASE \E c \in AutoFix, ok \in BOOLEAN :
                 Outcome(c, ok) \/ ActionOutcome(c, ok)
    BY <1>1, LadderOutcome, LadderActionOutcome
  <1>2. CASE \E c \in Classes, ok \in BOOLEAN : DiagnoserOutcome(c, ok)
    BY <1>2, LadderDiagnoserOutcome
  <1>3. CASE BreakerTrips
    BY <1>3, LadderBreakerTrips
  <1>4. CASE \/ FailureLogged \/ FailureExpires
             \/ \E c \in AutoFix : \/ Misdispatch(c) \/ MisdispatchExpires(c)
                                   \/ ClearSafetyHold(c)
    BY <1>4, LadderLogs
  <1>5. CASE \E c \in AutoFix : Promote(c) \/ RestorePromotion(c) \/ Demote(c)
    BY <1>5, LadderOverrideTrust
  <1>6. CASE \E c \in Classes, mode \in {STUB, LLM}, n \in 0..StreakBound :
                 SetDiagnoserMode(c, mode, n)
    BY <1>6, LadderSetDiagnoserMode
  <1>7. CASE \E c \in AutoFix, state \in {DETERMINISTIC_FALLBACK, LLM_CAN_ACT},
                n \in 0..StreakBound : SetActionTrust(c, state, n)
    BY <1>7, LadderSetActionTrust
  <1>8. CASE UNCHANGED vars
    BY <1>8 DEF LadderInv, TypeOK, TablesType, StreakShowsTrust, BackedTrust,
                BackedMode, BackedAction, vars, tables, histories, grants
  <1>9. QED
    BY <1>1, <1>2, <1>3, <1>4, <1>5, <1>6, <1>7, <1>8 DEF Next

\* The inductive invariant holds throughout: no function of the trust engine,
\* of llm_trust_state.py or of the breaker leaves a row ahead of its history.
THEOREM LadderInvariant == Spec => []LadderInv
  BY LadderInit, LadderStep, PTL DEF Spec

\* Trust is earned and revocable in all three dimensions, for every roster of
\* classes and every streak length.
THEOREM TrustIsEarned == Spec => []EarnedTrust
  <1>1. LadderInv => EarnedTrust
    <2> SUFFICES ASSUME LadderInv PROVE EarnedTrust
      OBVIOUS
    <2> USE DEF LadderInv, TypeOK, TablesType
    <2>1. ASSUME NEW c \in AutoFix, trustState[c].state = CAN_ACT,
                 c \notin grantedA
          PROVE  trustHistory[c] >= PromotionStreak
      BY <2>1, TablesAssumption DEF StreakShowsTrust, BackedTrust, TrustRow
    <2>2. ASSUME NEW c \in Classes, diagnoserMode[c].state = LLM,
                 c \notin grantedB
          PROVE  modeHistory[c] >= DiagnoserStreak
      BY <2>2, TablesAssumption DEF BackedMode, ModeRow
    <2>3. ASSUME NEW c \in AutoFix, actionTrust[c].state = LLM_CAN_ACT,
                 c \notin grantedC
          PROVE  actionHistory[c] >= ActionStreak
      BY <2>3, TablesAssumption DEF BackedAction, ActionRow
    <2>4. QED
      BY <2>1, <2>2, <2>3 DEF EarnedTrust
  <1>2. QED
    BY <1>1, LadderInvariant, PTL

-----------------------------------------------------------------------------
(* Dimension A implements the abstract contract.                           *)

\* Every step of the ladder is a step of the contract, or leaves it alone.
LEMMA AutonomyStep ==
    ASSUME LadderInv, [Next]_vars
    PROVE  [ContractA!Next]_(ContractA!vars)
  <1> DEFINE T == [k \in AutoFix |-> trustState[k].state = CAN_ACT]
             S == [k \in AutoFix |-> trustState[k].streak]
  <1> USE DEF LadderInv
  <1>t. /\ trustState \in [AutoFix -> TrustRow]
        /\ overrides \in Nat
    BY DEF TypeOK, TablesType
  <1>1. ASSUME NEW c \in AutoFix, NEW ok \in BOOLEAN, Outcome(c, ok)
        PROVE  ContractA!Next
    <2>1. /\ trustState' = [trustState EXCEPT ![c] =
                               RecordOutcome(trustState[c], ok)]
          /\ overrides' = overrides
      BY <1>1 DEF Outcome
    <2>2. CASE ok
      <3>1. S' = [S EXCEPT ![c] = @ + 1]
        BY <2>1, <2>2, <1>t DEF RecordOutcome, Row
      <3>2. T' = [T EXCEPT ![c] = @ \/ S[c] + 1 >= PromotionStreak]
        BY <2>1, <2>2, <1>t DEF RecordOutcome, Row
      <3>3. QED
        BY <3>1, <3>2, <2>1 DEF ContractA!Next, ContractA!Correct
    <2>3. CASE ~ok
      <3>1. S' = [S EXCEPT ![c] = 0]
        BY <2>1, <2>3, <1>t DEF RecordOutcome, Row
      <3>2. T' = [T EXCEPT ![c] = FALSE]
        BY <2>1, <2>3, <1>t DEF RecordOutcome, Row, CAN_ACT, REPORT_ONLY
      <3>3. QED
        BY <3>1, <3>2, <2>1 DEF ContractA!Next, ContractA!Wrong
    <2>4. QED
      BY <2>2, <2>3
  <1>2. ASSUME BreakerTrips
        PROVE  ContractA!Next
    <2>1. /\ trustState' = TripTrust(trustState)
          /\ overrides' = overrides
      BY <1>2 DEF BreakerTrips
    <2>2. T' \in [AutoFix -> BOOLEAN] /\ S' \in [AutoFix -> Nat]
      BY <2>1, <1>t DEF TripTrust, Row, TrustRow
    <2>3. ASSUME NEW c \in AutoFix
          PROVE  \/ T'[c] = T[c] /\ S'[c] = S[c]
                 \/ T'[c] = FALSE /\ S'[c] = 0
      BY <2>1, <1>t DEF TripTrust, Row, TrustRow, CAN_ACT, REPORT_ONLY
    <2>4. QED
      BY <2>1, <2>2, <2>3 DEF ContractA!Next, ContractA!Reset
  <1>3. ASSUME NEW c \in AutoFix,
               Promote(c) \/ RestorePromotion(c) \/ Demote(c)
        PROVE  ContractA!Next
    <2>1. PICK row \in TrustRow :
             /\ trustState' = [trustState EXCEPT ![c] = row]
             /\ overrides' = overrides + 1
      BY <1>3, TablesAssumption
         DEF Promote, RestorePromotion, Demote, Overriding, Row, TrustRow,
             CAN_ACT, REPORT_ONLY
    <2>2. T'[c] \in BOOLEAN /\ S'[c] \in Nat
      BY <2>1, <1>t DEF TrustRow
    <2>3. T' = [T EXCEPT ![c] = T'[c]] /\ S' = [S EXCEPT ![c] = S'[c]]
      BY <2>1, <1>t
    <2>4. QED
      BY <2>1, <2>2, <2>3 DEF ContractA!Next, ContractA!Override
  <1>4. ASSUME trustState' = trustState, overrides' = overrides + 1
        PROVE  ContractA!Next
    <2>1. PICK c \in AutoFix : TRUE
      BY TablesAssumption
    <2>2. T'[c] \in BOOLEAN /\ S'[c] \in Nat
      BY <1>4, <1>t DEF TrustRow
    <2>3. T' = [T EXCEPT ![c] = T'[c]] /\ S' = [S EXCEPT ![c] = S'[c]]
      BY <1>4, <1>t
    <2>4. QED
      BY <1>4, <2>2, <2>3 DEF ContractA!Next, ContractA!Override
  <1>5. ASSUME trustState' = trustState, overrides' = overrides
        PROVE  UNCHANGED ContractA!vars
    BY <1>5 DEF ContractA!vars
  <1>6. \/ \E c \in AutoFix, ok \in BOOLEAN : Outcome(c, ok)
        \/ BreakerTrips
        \/ \E c \in AutoFix : Promote(c) \/ RestorePromotion(c) \/ Demote(c)
        \/ trustState' = trustState /\ overrides' = overrides + 1
        \/ trustState' = trustState /\ overrides' = overrides
    BY DEF Next, vars, tables, histories, grants, ActionOutcome,
           DiagnoserOutcome, FailureLogged, FailureExpires, Misdispatch,
           MisdispatchExpires, ClearSafetyHold, SetDiagnoserMode,
           SetActionTrust, Overriding
  <1>7. QED
    BY <1>1, <1>2, <1>3, <1>4, <1>5, <1>6

\* Dimension A implements RevocableTrust: a class's autonomy changes only by a
\* full streak, a miss, a trip of the breaker, or a counted override.
THEOREM AutonomyIsRevocable == Spec => AutonomyContract
  <1>1. Init => ContractA!Init
    <2> SUFFICES ASSUME Init PROVE ContractA!Init
      OBVIOUS
    <2>1. \A c \in AutoFix : /\ (trustState[c].state = CAN_ACT) = FALSE
                             /\ trustState[c].streak = 0
      BY DEF Init, TablesInit, Row, REPORT_ONLY, CAN_ACT
    <2>2. overrides = 0
      BY DEF Init
    <2>3. QED
      BY <2>1, <2>2, Zenon DEF ContractA!Init
  <1>2. LadderInv /\ [Next]_vars => [ContractA!Next]_(ContractA!vars)
    BY AutonomyStep
  <1>3. QED
    BY <1>1, <1>2, LadderInvariant, PTL
       DEF Spec, AutonomyContract, ContractA!Spec

-----------------------------------------------------------------------------
(* So do the two dimensions of LLM trust.                                  *)

\* Every step of the ladder is a step of the diagnoser mode's contract, or leaves
\* it alone.
LEMMA ModeStep ==
    ASSUME LadderInv, [Next]_vars
    PROVE  [ContractB!Next]_(ContractB!vars)
  <1> DEFINE T == [k \in Classes |-> diagnoserMode[k].state = LLM]
             S == [k \in Classes |-> diagnoserMode[k].streak]
  <1> USE DEF LadderInv
  <1>t. /\ diagnoserMode \in [Classes -> ModeRow]
        /\ overrides \in Nat
    BY DEF TypeOK, TablesType
  <1>1. ASSUME NEW c \in Classes, NEW ok \in BOOLEAN, DiagnoserOutcome(c, ok)
        PROVE  ContractB!Next
    <2>1. /\ diagnoserMode' = [diagnoserMode EXCEPT ![c] =
                               RecordDiagnoserOutcome(diagnoserMode[c], ok)]
          /\ overrides' = overrides
      BY <1>1 DEF DiagnoserOutcome
    <2>2. CASE ok
      <3>1. S' = [S EXCEPT ![c] = @ + 1]
        BY <2>1, <2>2, <1>t DEF RecordDiagnoserOutcome, Row
      <3>2. T' = [T EXCEPT ![c] = @ \/ S[c] + 1 >= DiagnoserStreak]
        BY <2>1, <2>2, <1>t DEF RecordDiagnoserOutcome, Row
      <3>3. QED
        BY <3>1, <3>2, <2>1 DEF ContractB!Next, ContractB!Correct
    <2>3. CASE ~ok
      <3>1. S' = [S EXCEPT ![c] = 0]
        BY <2>1, <2>3, <1>t DEF RecordDiagnoserOutcome, Row
      <3>2. T' = [T EXCEPT ![c] = FALSE]
        BY <2>1, <2>3, <1>t DEF RecordDiagnoserOutcome, Row, LLM, STUB
      <3>3. QED
        BY <3>1, <3>2, <2>1 DEF ContractB!Next, ContractB!Wrong
    <2>4. QED
      BY <2>2, <2>3
  <1>2. ASSUME BreakerTrips
        PROVE  ContractB!Next
    <2>1. /\ diagnoserMode' = [c \in Classes |-> Row(STUB, 0)]
          /\ overrides' = overrides
      BY <1>2 DEF BreakerTrips
    <2>2. T' \in [Classes -> BOOLEAN] /\ S' \in [Classes -> Nat]
      BY <2>1 DEF Row
    <2>3. ASSUME NEW c \in Classes
          PROVE  T'[c] = FALSE /\ S'[c] = 0
      BY <2>1 DEF Row, LLM, STUB
    <2>4. QED
      BY <2>1, <2>2, <2>3 DEF ContractB!Next, ContractB!Reset
  <1>3. ASSUME NEW c \in Classes, NEW x \in {STUB, LLM},
               NEW n \in 0..StreakBound, SetDiagnoserMode(c, x, n)
        PROVE  ContractB!Next
    <2>1. /\ diagnoserMode' = [diagnoserMode EXCEPT ![c] = Row(x, n)]
          /\ overrides' = overrides + 1
          /\ Row(x, n) \in ModeRow
      BY <1>3, LadderAssumption DEF SetDiagnoserMode, Overriding, Row, ModeRow
    <2>2. T'[c] \in BOOLEAN /\ S'[c] \in Nat
      BY <2>1, <1>t DEF ModeRow
    <2>3. T' = [T EXCEPT ![c] = T'[c]] /\ S' = [S EXCEPT ![c] = S'[c]]
      BY <2>1, <1>t
    <2>4. QED
      BY <2>1, <2>2, <2>3 DEF ContractB!Next, ContractB!Override
  <1>4. ASSUME diagnoserMode' = diagnoserMode, overrides' = overrides + 1
        PROVE  ContractB!Next
    <2>1. PICK c \in Classes : TRUE
      BY TablesAssumption DEF Classes
    <2>2. T'[c] \in BOOLEAN /\ S'[c] \in Nat
      BY <1>4, <1>t DEF ModeRow
    <2>3. T' = [T EXCEPT ![c] = T'[c]] /\ S' = [S EXCEPT ![c] = S'[c]]
      BY <1>4, <1>t
    <2>4. QED
      BY <1>4, <2>2, <2>3 DEF ContractB!Next, ContractB!Override
  <1>5. ASSUME diagnoserMode' = diagnoserMode, overrides' = overrides
        PROVE  UNCHANGED ContractB!vars
    BY <1>5 DEF ContractB!vars
  <1>6. \/ \E c \in Classes, ok \in BOOLEAN : DiagnoserOutcome(c, ok)
        \/ BreakerTrips
        \/ \E c \in Classes, x \in {STUB, LLM}, n \in 0..StreakBound :
              SetDiagnoserMode(c, x, n)
        \/ diagnoserMode' = diagnoserMode /\ overrides' = overrides + 1
        \/ diagnoserMode' = diagnoserMode /\ overrides' = overrides
    BY DEF Next, vars, tables, histories, grants, Outcome,
           ActionOutcome, FailureLogged, FailureExpires, Misdispatch,
           MisdispatchExpires, ClearSafetyHold, SetActionTrust,
           Promote, RestorePromotion, Demote, Overriding
  <1>7. QED
    BY <1>1, <1>2, <1>3, <1>4, <1>5, <1>6

\* Every step of the ladder is a step of action trust's contract, or leaves
\* it alone.
LEMMA ActionTrustStep ==
    ASSUME LadderInv, [Next]_vars
    PROVE  [ContractC!Next]_(ContractC!vars)
  <1> DEFINE T == [k \in AutoFix |-> actionTrust[k].state = LLM_CAN_ACT]
             S == [k \in AutoFix |-> actionTrust[k].streak]
  <1> USE DEF LadderInv
  <1>t. /\ actionTrust \in [AutoFix -> ActionRow]
        /\ overrides \in Nat
    BY DEF TypeOK, TablesType
  <1>1. ASSUME NEW c \in AutoFix, NEW ok \in BOOLEAN, ActionOutcome(c, ok)
        PROVE  ContractC!Next
    <2>1. /\ actionTrust' = [actionTrust EXCEPT ![c] =
                               RecordActionOutcome(actionTrust[c], ok)]
          /\ overrides' = overrides
      BY <1>1 DEF ActionOutcome
    <2>2. CASE ok
      <3>1. S' = [S EXCEPT ![c] = @ + 1]
        BY <2>1, <2>2, <1>t DEF RecordActionOutcome, Row
      <3>2. T' = [T EXCEPT ![c] = @ \/ S[c] + 1 >= ActionStreak]
        BY <2>1, <2>2, <1>t DEF RecordActionOutcome, Row
      <3>3. QED
        BY <3>1, <3>2, <2>1 DEF ContractC!Next, ContractC!Correct
    <2>3. CASE ~ok
      <3>1. S' = [S EXCEPT ![c] = 0]
        BY <2>1, <2>3, <1>t DEF RecordActionOutcome, Row
      <3>2. T' = [T EXCEPT ![c] = FALSE]
        BY <2>1, <2>3, <1>t DEF RecordActionOutcome, Row, LLM_CAN_ACT, DETERMINISTIC_FALLBACK
      <3>3. QED
        BY <3>1, <3>2, <2>1 DEF ContractC!Next, ContractC!Wrong
    <2>4. QED
      BY <2>2, <2>3
  <1>2. ASSUME BreakerTrips
        PROVE  ContractC!Next
    <2>1. /\ actionTrust' = [c \in AutoFix |-> Row(DETERMINISTIC_FALLBACK, 0)]
          /\ overrides' = overrides
      BY <1>2 DEF BreakerTrips
    <2>2. T' \in [AutoFix -> BOOLEAN] /\ S' \in [AutoFix -> Nat]
      BY <2>1 DEF Row
    <2>3. ASSUME NEW c \in AutoFix
          PROVE  T'[c] = FALSE /\ S'[c] = 0
      BY <2>1 DEF Row, LLM_CAN_ACT, DETERMINISTIC_FALLBACK
    <2>4. QED
      BY <2>1, <2>2, <2>3 DEF ContractC!Next, ContractC!Reset
  <1>3. ASSUME NEW c \in AutoFix, NEW x \in {DETERMINISTIC_FALLBACK, LLM_CAN_ACT},
               NEW n \in 0..StreakBound, SetActionTrust(c, x, n)
        PROVE  ContractC!Next
    <2>1. /\ actionTrust' = [actionTrust EXCEPT ![c] = Row(x, n)]
          /\ overrides' = overrides + 1
          /\ Row(x, n) \in ActionRow
      BY <1>3, LadderAssumption DEF SetActionTrust, Overriding, Row, ActionRow
    <2>2. T'[c] \in BOOLEAN /\ S'[c] \in Nat
      BY <2>1, <1>t DEF ActionRow
    <2>3. T' = [T EXCEPT ![c] = T'[c]] /\ S' = [S EXCEPT ![c] = S'[c]]
      BY <2>1, <1>t
    <2>4. QED
      BY <2>1, <2>2, <2>3 DEF ContractC!Next, ContractC!Override
  <1>4. ASSUME actionTrust' = actionTrust, overrides' = overrides + 1
        PROVE  ContractC!Next
    <2>1. PICK c \in AutoFix : TRUE
      BY TablesAssumption DEF Classes
    <2>2. T'[c] \in BOOLEAN /\ S'[c] \in Nat
      BY <1>4, <1>t DEF ActionRow
    <2>3. T' = [T EXCEPT ![c] = T'[c]] /\ S' = [S EXCEPT ![c] = S'[c]]
      BY <1>4, <1>t
    <2>4. QED
      BY <1>4, <2>2, <2>3 DEF ContractC!Next, ContractC!Override
  <1>5. ASSUME actionTrust' = actionTrust, overrides' = overrides
        PROVE  UNCHANGED ContractC!vars
    BY <1>5 DEF ContractC!vars
  <1>6. \/ \E c \in AutoFix, ok \in BOOLEAN : ActionOutcome(c, ok)
        \/ BreakerTrips
        \/ \E c \in AutoFix, x \in {DETERMINISTIC_FALLBACK, LLM_CAN_ACT}, n \in 0..StreakBound :
              SetActionTrust(c, x, n)
        \/ actionTrust' = actionTrust /\ overrides' = overrides + 1
        \/ actionTrust' = actionTrust /\ overrides' = overrides
    BY DEF Next, vars, tables, histories, grants, Outcome,
           DiagnoserOutcome, FailureLogged, FailureExpires, Misdispatch,
           MisdispatchExpires, ClearSafetyHold, SetDiagnoserMode,
           Promote, RestorePromotion, Demote, Overriding
  <1>7. QED
    BY <1>1, <1>2, <1>3, <1>4, <1>5, <1>6

\* Dimensions B and C implement RevocableTrust too: the LLM comes to drive a
\* class's diagnosis, or its action to be dispatched, only by a full streak
\* or a counted override, and loses it by one miss or a trip
\* (record_diagnoser_outcome, record_action_outcome, reset_to_safe_defaults,
\* set_llm_trust_state.py).
THEOREM LlmTrustIsRevocable == Spec => LlmTrustContract
  <1>1. Init => ContractB!Init
    <2> SUFFICES ASSUME Init PROVE ContractB!Init
      OBVIOUS
    <2>1. \A c \in Classes : /\ (diagnoserMode[c].state = LLM) = FALSE
                             /\ diagnoserMode[c].streak = 0
      BY DEF Init, TablesInit, Row, STUB, LLM
    <2>2. overrides = 0
      BY DEF Init
    <2>3. QED
      BY <2>1, <2>2, Zenon DEF ContractB!Init
  <1>2. Init => ContractC!Init
    <2> SUFFICES ASSUME Init PROVE ContractC!Init
      OBVIOUS
    <2>1. \A c \in AutoFix : /\ (actionTrust[c].state = LLM_CAN_ACT) = FALSE
                             /\ actionTrust[c].streak = 0
      BY DEF Init, TablesInit, Row, DETERMINISTIC_FALLBACK, LLM_CAN_ACT
    <2>2. overrides = 0
      BY DEF Init
    <2>3. QED
      BY <2>1, <2>2, Zenon DEF ContractC!Init
  <1>3. LadderInv /\ [Next]_vars => [ContractB!Next]_(ContractB!vars)
    BY ModeStep
  <1>4. LadderInv /\ [Next]_vars => [ContractC!Next]_(ContractC!vars)
    BY ActionTrustStep
  <1>5. QED
    BY <1>1, <1>2, <1>3, <1>4, LadderInvariant, PTL
       DEF Spec, LlmTrustContract, ContractB!Spec, ContractC!Spec
=============================================================================
