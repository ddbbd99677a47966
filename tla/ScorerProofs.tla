---------------------------- MODULE ScorerProofs ----------------------------
(***************************************************************************)
(* Proofs about the episode scorer, for every number of scorer processes   *)
(* and episodes, every ground truth, and every bound on kills and          *)
(* overrides.                                                              *)
(***************************************************************************)
EXTENDS Scorer, TLAPS

-----------------------------------------------------------------------------
(* What a change of one process's job can disturb.                         *)

\* The record an idle process holds is a job.
LEMMA IdleIsJob == Idle \in Job
  BY DEF Idle, Job, Steps, Proposals, Sources, Verdicts

\* A process that is not between the scores row and the end of its episode
\* holds no ticket: wherever it goes outside that stretch, nothing is counted.
LEMMA OutsideCounting ==
    ASSUME ScorerInv, NEW s \in Scorers, NEW j \in Job,
           job' = [job EXCEPT ![s] = j],
           j.pc = "idle" <=> j.ep = Nothing,
           j.pc \notin Counting,
           scored' = scored, tally' = tally
    PROVE  JobsFit' /\ CountsOnce' /\ NoDoubleCount'
  <1>1. /\ job \in [Scorers -> Job]
        /\ job'[s] = j
        /\ \A r \in Scorers : r # s => job'[r] = job[r]
    BY DEF ScorerInv, TypeOK
  <1>2. JobsFit'
    BY <1>1 DEF ScorerInv, JobsFit, At, Truth, Counting
  <1>3. CountsOnce'
    BY <1>1 DEF ScorerInv, CountsOnce, Counting
  <1>4. QED
    BY <1>2, <1>3 DEF ScorerInv, NoDoubleCount

\* A step along that stretch that moves no counter keeps the ticket.
LEMMA AlongCounting ==
    ASSUME ScorerInv, NEW s \in Scorers, NEW j \in Job,
           job' = [job EXCEPT ![s] = j],
           job[s].pc \in Counting, j.pc \in Counting, j.ep = job[s].ep,
           j.pc \in {"readA", "writeA"} => job[s].pc \in {"readA", "writeA"},
           j.pc \notin {"readC", "writeC"} =>
               job[s].pc \notin {"readC", "writeC"},
           j.pc = "hold" => j.predicted \in AutoFix,
           j.pc = "writeA" => Truth(s) \in AutoFix /\ j.row \in TrustRow,
           j.pc = "writeB" => j.row \in ModeRow,
           j.pc = "writeC" => Truth(s) \in AutoFix /\ j.row \in ActionRow,
           scored' = scored, tally' = tally
    PROVE  JobsFit' /\ CountsOnce' /\ NoDoubleCount'
  <1>1. /\ job \in [Scorers -> Job]
        /\ job'[s] = j
        /\ \A r \in Scorers : r # s => job'[r] = job[r]
    BY DEF ScorerInv, TypeOK
  <1>2. JobsFit'
    BY <1>1 DEF ScorerInv, JobsFit, At, Truth, Counting
  <1>3. CountsOnce'
    BY <1>1 DEF ScorerInv, CountsOnce, Counting
  <1>4. QED
    BY <1>2, <1>3 DEF ScorerInv, NoDoubleCount

-----------------------------------------------------------------------------
(* The inductive invariant: each step of a process keeps it.               *)

LEMMA ScorerInit == Init => ScorerInv
  <1> SUFFICES ASSUME Init PROVE ScorerInv
    OBVIOUS
  <1> USE ScorerAssumption, TablesAssumption DEF Init
  <1>1. TablesType
    <2>1. trustState \in [AutoFix -> TrustRow]
      BY DEF TrustRow, Row, CAN_ACT, REPORT_ONLY
    <2>2. diagnoserMode \in [Classes -> ModeRow]
      BY DEF ModeRow, Row, STUB, LLM
    <2>3. actionTrust \in [AutoFix -> ActionRow]
      BY DEF ActionRow, Row, DETERMINISTIC_FALLBACK, LLM_CAN_ACT
    <2>4. QED
      BY <2>1, <2>2, <2>3 DEF TablesType
  <1>2. TypeOK
    BY <1>1, IdleIsJob DEF TypeOK
  <1>3. NoDoubleCount
    BY DEF NoDoubleCount
  <1>4. JobsFit
    BY DEF JobsFit, At, Idle
  <1>5. CountsOnce
    BY DEF CountsOnce, Counting, Idle
  <1>6. QED
    BY <1>2, <1>3, <1>4, <1>5 DEF ScorerInv

\* Storing an answer of /diagnose in a job leaves a job.
LEMMA JobDiagnosed ==
    ASSUME NEW k \in Job, NEW pc \in Steps,
           NEW predicted \in Classes \cup {Unclassified, Nothing},
           NEW llm \in Classes \cup {Nothing}, NEW primary \in BOOLEAN
    PROVE  [k EXCEPT !.pc = pc, !.predicted = predicted,
                     !.llm = llm, !.primary = primary] \in Job
  BY DEF Job

\* Picking an episode, and everything up to the scores row that writes no
\* table.
LEMMA ScorerQuiet ==
    ASSUME ScorerInv, NEW s \in Scorers,
           \/ \E e \in Episodes : Start(s, e)
           \/ \E stub \in Classes \cup {Unclassified},
                 llm \in Classes \cup {Nothing}, primary \in BOOLEAN :
                    Diagnose(s, stub, llm, primary)
           \/ \E proposal \in Proposals : Propose(s, proposal)
           \/ Dispatch(s)
           \/ \E confirmed \in BOOLEAN : Judge(s, confirmed)
           \/ BreakerHolds(s) \/ ClearAllSafetyHolds(s)
    PROVE  ScorerInv'
  <1> USE DEF ScorerInv
  <1>t. /\ job \in [Scorers -> Job]
        /\ job[s] \in Job
        /\ job[s].pc # "idle" => job[s].ep # Nothing
    BY DEF TypeOK, JobsFit, At
  <1>u. UNCHANGED <<tables, scored, ghosts, bounds>>
    BY DEF Start, Diagnose, Propose, Dispatch, Judge, BreakerHolds,
           ClearAllSafetyHolds
  <1> DEFINE Quiet(j) == /\ job' = [job EXCEPT ![s] = j]
                         /\ j.pc = "idle" <=> j.ep = Nothing
                         /\ j.pc \notin Counting
  <1>1. \E j \in Job : Quiet(j)
    <2>1. ASSUME NEW e \in Episodes, Start(s, e)
          PROVE  \E j \in Job : Quiet(j)
      <3> DEFINE j == [Idle EXCEPT !.pc = "diagnose", !.ep = e]
      <3>1. j \in Job /\ j.pc = "diagnose" /\ j.ep = e
        BY IdleIsJob DEF Job, Steps, Idle
      <3>2. QED
        BY <2>1, <3>1, ScorerAssumption DEF Start, Counting
    <2>2. ASSUME NEW stub \in Classes \cup {Unclassified},
                 NEW llm \in Classes \cup {Nothing}, NEW primary \in BOOLEAN,
                 Diagnose(s, stub, llm, primary)
          PROVE  \E j \in Job : Quiet(j)
      <3>1. PICK pc \in {"propose", "judge"},
                 predicted \in Classes \cup {Unclassified, Nothing},
                 kept \in Classes \cup {Nothing} :
              job' = [job EXCEPT ![s] = [job[s] EXCEPT !.pc = pc,
                         !.predicted = predicted, !.llm = kept,
                         !.primary = primary]]
        BY <2>2 DEF Diagnose
      <3> DEFINE j == [job[s] EXCEPT !.pc = pc, !.predicted = predicted,
                                     !.llm = kept, !.primary = primary]
      <3>2. pc \in Steps
        BY DEF Steps
      <3>3. j \in Job
        BY <1>t, <3>2, JobDiagnosed
      <3>4. j.pc = pc /\ j.ep = job[s].ep
        BY <1>t DEF Job
      <3>5. QED
        BY <2>2, <3>1, <3>3, <3>4, <1>t DEF Diagnose, At, Counting
    <2>3. ASSUME NEW proposal \in Proposals, Propose(s, proposal)
          PROVE  \E j \in Job : Quiet(j)
      <3> DEFINE j == [job[s] EXCEPT !.pc = "dispatch", !.proposal = proposal]
      <3>1. j \in Job /\ j.pc = "dispatch" /\ j.ep = job[s].ep
        BY ZenonT(60), <1>t DEF Job, Steps
      <3>2. QED
        BY <2>3, <3>1, <1>t DEF Propose, At, Counting
    <2>4. ASSUME Dispatch(s)
          PROVE  \E j \in Job : Quiet(j)
      <3>1. PICK pc \in {"judge", "fix"}, fix \in AutoFix \cup {Nothing},
                 source \in Sources :
              job' = [job EXCEPT ![s] = [job[s] EXCEPT !.pc = pc,
                         !.fix = fix, !.source = source]]
        BY <2>4 DEF Dispatch, DispatchDecision, Sources
      <3> DEFINE j == [job[s] EXCEPT !.pc = pc, !.fix = fix,
                                     !.source = source]
      <3>2. pc \in Steps
        BY DEF Steps
      <3>3. j \in Job /\ j.pc = pc /\ j.ep = job[s].ep
        BY ZenonT(60), <1>t, <3>2 DEF Job
      <3>4. QED
        BY <2>4, <3>1, <3>3, <1>t DEF Dispatch, At, Counting
    <2>5. ASSUME NEW confirmed \in BOOLEAN, Judge(s, confirmed)
          PROVE  \E j \in Job : Quiet(j)
      <3>1. PICK pc \in {"score", "failure"}, applied \in BOOLEAN,
                 verdict \in Verdicts :
              job' = [job EXCEPT ![s] = [job[s] EXCEPT !.pc = pc,
                         !.applied = applied, !.verdict = verdict]]
        <4>1. CASE job[s].fix # Nothing
          BY <2>5, <4>1 DEF Judge, Verdicts
        <4>2. CASE job[s].fix = Nothing
          <5>1. PICK verdict \in Verdicts :
                  job' = [job EXCEPT ![s] = [job[s] EXCEPT !.pc = "score",
                             !.verdict = verdict]]
            BY <2>5, <4>2 DEF Judge, Verdicts
          <5>2. /\ [job[s] EXCEPT !.pc = "score", !.verdict = verdict]
                    = [job[s] EXCEPT !.pc = "score",
                          !.applied = job[s].applied, !.verdict = verdict]
                /\ job[s].applied \in BOOLEAN
            BY <1>t DEF Job
          <5>3. QED
            BY <5>1, <5>2
        <4>3. QED
          BY <4>1, <4>2
      <3> DEFINE j == [job[s] EXCEPT !.pc = pc, !.applied = applied,
                                     !.verdict = verdict]
      <3>2. j \in Job /\ j.pc = pc /\ j.ep = job[s].ep
        BY ZenonT(180), <1>t DEF Job, Steps
      <3>3. QED
        BY <2>5, <3>1, <3>2, <1>t DEF Judge, At, Counting
    <2>6. ASSUME BreakerHolds(s)
          PROVE  \E j \in Job : Quiet(j)
      <3> DEFINE j == [job[s] EXCEPT !.pc = "score"]
      <3>1. j \in Job /\ j.pc = "score" /\ j.ep = job[s].ep
        BY <1>t DEF Job, Steps
      <3>2. QED
        BY <2>6, <3>1, <1>t DEF BreakerHolds, At, Counting
    <2>7. ASSUME ClearAllSafetyHolds(s)
          PROVE  \E j \in Job : Quiet(j)
      <3>1. PICK pc \in {"score", "release"} :
              job' = [job EXCEPT ![s] = [job[s] EXCEPT !.pc = pc,
                                                       !.todo = safetyHold]]
        BY <2>7 DEF ClearAllSafetyHolds
      <3> DEFINE j == [job[s] EXCEPT !.pc = pc, !.todo = safetyHold]
      <3>2. pc \in Steps /\ safetyHold \subseteq Classes
        BY DEF Steps, TypeOK, TablesType, Classes
      <3>3. j \in Job /\ j.pc = pc /\ j.ep = job[s].ep
        BY ZenonT(60), <1>t, <3>2 DEF Job
      <3>4. QED
        BY <2>7, <3>1, <3>3, <1>t DEF ClearAllSafetyHolds, At, Counting
    <2>8. QED
      BY <2>1, <2>2, <2>3, <2>4, <2>5, <2>6, <2>7
  <1>2. TypeOK'
    BY <1>u, <1>1, <1>t DEF TypeOK, TablesType, tables, ghosts, bounds
  <1>3. JobsFit' /\ CountsOnce' /\ NoDoubleCount'
    BY <1>u, <1>1, OutsideCounting DEF ghosts
  <1>4. QED
    BY <1>2, <1>3

\* record_failure, a trip and what follows it, and the fix itself: tables or
\* the count of late fixes change, no counter does.
LEMMA ScorerBreaker ==
    ASSUME ScorerInv, NEW s \in Scorers,
           \/ RecordFailure(s) \/ BreakerTrips(s) \/ ResetAction(s)
           \/ \E c \in Classes : ResetDiagnoser(s, c) \/ ReleaseHold(s, c)
           \/ \E applied \in BOOLEAN : ApplyFix(s, applied)
    PROVE  ScorerInv'
  <1> USE DEF ScorerInv
  <1>t. /\ job \in [Scorers -> Job]
        /\ job[s] \in Job
        /\ job[s].pc # "idle" => job[s].ep # Nothing
    BY DEF TypeOK, JobsFit, At
  <1>u. UNCHANGED <<scored, tally, unlogged, bounds, misdispatchLog>>
    BY DEF RecordFailure, BreakerTrips, ResetAction, ResetDiagnoser,
           ReleaseHold, ApplyFix, tables, ghosts
  <1> DEFINE Next1(j) == /\ job' = [job EXCEPT ![s] = j]
                         /\ j.pc = "idle" <=> j.ep = Nothing
                         /\ j.pc \notin Counting
  <1>s. {"breaker", "reset", "resetAction", "score", "clearHolds", "release",
         "judge"} \subseteq Steps
    BY DEF Steps
  <1>1. CASE RecordFailure(s)
    <2> DEFINE j == [job[s] EXCEPT !.pc = "breaker"]
    <2>1. j \in Job /\ j.pc = "breaker" /\ j.ep = job[s].ep
      BY <1>t, <1>s DEF Job
    <2>2. Next1(j)
      BY <1>1, <2>1, <1>t DEF RecordFailure, At, Counting
    <2>3. TypeOK'
      BY <1>1, <1>u, <1>t, <2>1, <2>2
         DEF RecordFailure, TypeOK, TablesType, ghosts, bounds
    <2>4. QED
      BY <1>u, <2>1, <2>2, <2>3, OutsideCounting
  <1>2. CASE BreakerTrips(s)
    <2> DEFINE j == [job[s] EXCEPT !.pc = "reset", !.todo = Classes]
    <2>1. j \in Job /\ j.pc = "reset" /\ j.ep = job[s].ep
      BY <1>t, <1>s DEF Job
    <2>2. Next1(j)
      BY <1>2, <2>1, <1>t DEF BreakerTrips, At, Counting
    <2>3. trustState' \in [AutoFix -> TrustRow]
      BY <1>2 DEF BreakerTrips, TripTrust, TypeOK, TablesType, TrustRow, Row,
                  REPORT_ONLY
    <2>4. TypeOK'
      BY <1>2, <1>u, <1>t, <2>1, <2>2, <2>3
         DEF BreakerTrips, TypeOK, TablesType, bounds
    <2>5. QED
      BY <1>u, <2>1, <2>2, <2>4, OutsideCounting
  <1>3. ASSUME NEW applied \in BOOLEAN, ApplyFix(s, applied)
        PROVE  ScorerInv'
    <2> DEFINE j == [job[s] EXCEPT !.pc = "judge", !.applied = applied]
    <2>1. j \in Job /\ j.pc = "judge" /\ j.ep = job[s].ep
      BY ZenonT(60), <1>t, <1>s DEF Job
    <2>2. Next1(j)
      BY <1>3, <2>1, <1>t DEF ApplyFix, At, Counting
    <2>3. late' \in [AutoFix -> [Scorers -> Nat]]
      <3> DEFINE c == Account(s)
      <3>1. /\ late' = late \/ late' = [late EXCEPT ![c][s] = late[c][s] + 1]
            /\ late \in [AutoFix -> [Scorers -> Nat]]
        BY <1>3 DEF ApplyFix, TypeOK
      <3> HIDE DEF c
      <3>2. CASE c \in AutoFix
        BY <3>1, <3>2
      <3>3. CASE c \notin AutoFix
        <4>1. [late EXCEPT ![c][s] = late[c][s] + 1] = late
          BY <3>1, <3>3
        <4>2. QED
          BY <3>1, <4>1
      <3>4. QED
        BY <3>2, <3>3
    <2>x. UNCHANGED <<tables, scored, tally, earned, granted, unlogged, bounds>>
      BY <1>3 DEF ApplyFix
    <2>4. TypeOK'
      BY <1>t, <2>1, <2>2, <2>3, <2>x DEF TypeOK, TablesType, tables, bounds
    <2>5. QED
      BY <1>u, <2>1, <2>2, <2>4, OutsideCounting
  <1>4. ASSUME NEW c \in Classes, ResetDiagnoser(s, c)
        PROVE  ScorerInv'
    <2> DEFINE j == [job[s] EXCEPT !.pc = "resetAction",
                                   !.todo = job[s].todo \ {c}, !.under = c]
    <2>1. j \in Job /\ j.pc = "resetAction" /\ j.ep = job[s].ep
      BY ZenonT(60), <1>t, <1>s DEF Job
    <2>2. Next1(j)
      BY <1>4, <2>1, <1>t DEF ResetDiagnoser, At, Counting
    <2>3. diagnoserMode' \in [Classes -> ModeRow]
      BY <1>4 DEF ResetDiagnoser, SafeMode, TypeOK, TablesType, ModeRow, Row,
                  STUB
    <2>4. TypeOK'
      BY ZenonT(60), <1>4, <1>u, <1>t, <2>1, <2>2, <2>3
         DEF ResetDiagnoser, TypeOK, TablesType, ghosts, bounds
    <2>5. QED
      BY <1>u, <2>1, <2>2, <2>4, OutsideCounting
  <1>5. CASE ResetAction(s)
    <2>1. PICK pc \in {"reset", "clearHolds"} :
            job' = [job EXCEPT ![s] = [job[s] EXCEPT !.pc = pc,
                                                     !.under = Nothing]]
      BY <1>5 DEF ResetAction
    <2> DEFINE j == [job[s] EXCEPT !.pc = pc, !.under = Nothing]
    <2>2. j \in Job /\ j.pc = pc /\ j.ep = job[s].ep
      BY ZenonT(60), <1>t, <1>s DEF Job
    <2>3. Next1(j)
      BY <1>5, <2>1, <2>2, <1>t DEF ResetAction, At, Counting
    <2>4. actionTrust' \in [AutoFix -> ActionRow]
      BY <1>5 DEF ResetAction, SafeAction, TypeOK, TablesType, ActionRow, Row,
                  DETERMINISTIC_FALLBACK
    <2>5. TypeOK'
      BY ZenonT(60), <1>5, <1>u, <1>t, <2>2, <2>3, <2>4
         DEF ResetAction, TypeOK, TablesType, ghosts, bounds
    <2>6. QED
      BY <1>u, <2>2, <2>3, <2>5, OutsideCounting
  <1>6. ASSUME NEW c \in Classes, ReleaseHold(s, c)
        PROVE  ScorerInv'
    <2>1. PICK pc \in {"score", "release"} :
            job' = [job EXCEPT ![s] = [job[s] EXCEPT !.pc = pc,
                                          !.todo = job[s].todo \ {c}]]
      BY <1>6 DEF ReleaseHold
    <2> DEFINE j == [job[s] EXCEPT !.pc = pc, !.todo = job[s].todo \ {c}]
    <2>2. j \in Job /\ j.pc = pc /\ j.ep = job[s].ep
      BY ZenonT(60), <1>t, <1>s DEF Job
    <2>3. Next1(j)
      BY <1>6, <2>1, <2>2, <1>t DEF ReleaseHold, At, Counting
    <2>4. /\ late' \in [AutoFix -> [Scorers -> Nat]]
          /\ safetyHold' \subseteq AutoFix
      BY <1>6 DEF ReleaseHold, LateAfter, TypeOK, TablesType
    <2>5. TypeOK'
      BY ZenonT(60), <1>6, <1>u, <1>t, <2>2, <2>3, <2>4
         DEF ReleaseHold, TypeOK, TablesType, bounds
    <2>6. QED
      BY <1>u, <2>2, <2>3, <2>5, OutsideCounting
  <1>7. QED
    BY <1>1, <1>2, <1>3, <1>4, <1>5, <1>6

\* The scores row hands the ticket to one process: the primary key refuses
\* the row to every other.
LEMMA ScorerInsert ==
    ASSUME ScorerInv, NEW s \in Scorers, InsertScore(s)
    PROVE  ScorerInv'
  <1> USE DEF ScorerInv
  <1>t. /\ job \in [Scorers -> Job]
        /\ job[s] \in Job
        /\ job[s].pc = "score" /\ job[s].ep \in Episodes
    BY DEF TypeOK, JobsFit, InsertScore, At, Job
  <1>1. CASE job[s].ep \in scored
    <2>1. /\ job' = [job EXCEPT ![s] = Idle]
          /\ UNCHANGED <<tables, scored, ghosts, bounds>>
      BY <1>1 DEF InsertScore, ghosts
    <2>2. TypeOK'
      BY <2>1, <1>t, IdleIsJob DEF TypeOK, TablesType, tables, ghosts, bounds
    <2>3. Idle.pc = "idle" /\ Idle.ep = Nothing /\ Idle.pc \notin Counting
      BY DEF Idle, Counting
    <2>4. QED
      BY <2>1, <2>2, <2>3, IdleIsJob, OutsideCounting DEF ghosts
  <1>2. CASE job[s].ep \notin scored
    <2>1. PICK pc \in {"misdispatch", "readA"} :
            job' = [job EXCEPT ![s] = [job[s] EXCEPT !.pc = pc]]
      BY <1>2 DEF InsertScore
    <2> DEFINE j == [job[s] EXCEPT !.pc = pc]
    <2>2. pc \in Steps /\ pc \in Counting
      BY DEF Steps, Counting
    <2>3. j \in Job /\ j.pc = pc /\ j.ep = job[s].ep
      BY <1>t, <2>2 DEF Job
    <2>4. /\ job'[s] = j
          /\ \A r \in Scorers : r # s => job'[r] = job[r]
          /\ job' \in [Scorers -> Job]
      BY <1>t, <2>1, <2>3
    <2>5. /\ scored' = scored \cup {job[s].ep}
          /\ unlogged' \subseteq unlogged \cup {job[s].ep}
          /\ UNCHANGED <<tables, tally, earned, late, granted, bounds>>
      BY <1>2 DEF InsertScore
    <2> HIDE DEF j
    <2>6. TypeOK'
      BY <1>t, <2>4, <2>5 DEF TypeOK, TablesType, tables, bounds
    <2>7. JobsFit'
      BY <1>t, <2>3, <2>4, ScorerAssumption DEF JobsFit, At, Truth
    <2>8. CountsOnce'
      BY <1>t, <1>2, <2>2, <2>3, <2>4, <2>5 DEF CountsOnce, Counting
    <2>9. QED
      BY <2>5, <2>6, <2>7, <2>8 DEF NoDoubleCount
  <1>3. QED
    BY <1>1, <1>2

\* Steps after the scores row that read a table, or log the misdispatch.
LEMMA ScorerReads ==
    ASSUME ScorerInv, NEW s \in Scorers,
           \/ ReadTrust(s) \/ RecordMisdispatch(s) \/ SetSafetyHold(s)
           \/ ReadMode(s) \/ ReadAction(s)
    PROVE  ScorerInv'
  <1> USE DEF ScorerInv
  <1>t. /\ job \in [Scorers -> Job]
        /\ job[s] \in Job
        /\ job[s].ep \in Episodes /\ Truth(s) \in Classes
    BY ScorerAssumption DEF TypeOK, JobsFit, ReadTrust, RecordMisdispatch,
                            SetSafetyHold, ReadMode, ReadAction, At, Job, Truth
  <1>s. /\ {"writeA", "hold", "readB", "writeB", "readC", "writeC"}
              \subseteq Steps
        /\ "none" \in Sources /\ "none" \in Verdicts
    BY DEF Steps, Sources, Verdicts
  <1>u. UNCHANGED <<scored, tally, trustState, diagnoserMode, actionTrust,
                    failureLog, earned, late, granted, bounds>>
    BY DEF ReadTrust, RecordMisdispatch, SetSafetyHold, ReadMode, ReadAction,
           tables, ghosts
  <1>r. /\ Truth(s) \in AutoFix => /\ trustState[Truth(s)] \in TrustRow
                                   /\ actionTrust[Truth(s)] \in ActionRow
        /\ diagnoserMode[Truth(s)] \in ModeRow
    BY <1>t DEF TypeOK, TablesType
  <1>i. /\ Idle.pc = "idle" /\ Idle.ep = Nothing /\ Idle.pc \notin Counting
    BY DEF Idle, Counting
  <1>1. ASSUME job' = [job EXCEPT ![s] = Idle], UNCHANGED tables,
               UNCHANGED unlogged
        PROVE  ScorerInv'
    <2>1. TypeOK'
      BY <1>1, <1>t, <1>u, IdleIsJob DEF TypeOK, TablesType, tables, bounds
    <2>2. QED
      BY <1>1, <1>u, <1>i, <2>1, IdleIsJob, OutsideCounting
  <1>2. CASE ReadTrust(s)
    <2>1. CASE Truth(s) \notin AutoFix
      BY <1>1, <1>2, <2>1 DEF ReadTrust, ghosts
    <2>2. CASE Truth(s) \in AutoFix
      <3> DEFINE j == [job[s] EXCEPT !.pc = "writeA",
                                     !.row = trustState[Truth(s)]]
      <3>1. /\ j \in Job /\ j.pc = "writeA" /\ j.ep = job[s].ep
            /\ j.row = trustState[Truth(s)]
        BY <1>t, <1>s, <1>r, <2>2 DEF Job
      <3>2. /\ job' = [job EXCEPT ![s] = j] /\ job[s].pc = "readA"
            /\ UNCHANGED <<tables, unlogged>>
        BY <1>2, <2>2 DEF ReadTrust, At, ghosts
      <3> HIDE DEF j
      <3>3. TypeOK'
        BY <1>t, <1>u, <3>1, <3>2 DEF TypeOK, TablesType, tables, bounds
      <3>4. JobsFit' /\ CountsOnce' /\ NoDoubleCount'
        BY <1>u, <1>r, <2>2, <3>1, <3>2, AlongCounting DEF Counting
      <3>5. QED
        BY <3>3, <3>4
    <2>3. QED
      BY <2>1, <2>2
  <1>3. CASE RecordMisdispatch(s) \/ SetSafetyHold(s)
    <2>1. PICK pc \in {"hold", "readB"},
               predicted \in Classes \cup {Unclassified, Nothing},
               fix \in AutoFix \cup {Nothing}, source \in Sources,
               verdict \in Verdicts :
            /\ job' = [job EXCEPT ![s] = [job[s] EXCEPT !.pc = pc,
                          !.predicted = predicted, !.fix = fix,
                          !.source = source, !.verdict = verdict]]
            /\ pc = "hold" => predicted \in AutoFix
      <3> DEFINE k == job[s]
      <3>1. /\ k.predicted \in Classes \cup {Unclassified, Nothing}
            /\ k.fix \in AutoFix \cup {Nothing}
            /\ k.source \in Sources /\ k.verdict \in Verdicts
        BY <1>t DEF Job
      <3>2. CASE RecordMisdispatch(s)
        <4>1. CASE /\ k.predicted \in AutoFix
                   /\ job' = [job EXCEPT ![s] = [k EXCEPT !.pc = "hold",
                         !.fix = Nothing, !.source = "none",
                         !.verdict = "none"]]
          <5>1. [k EXCEPT !.pc = "hold", !.fix = Nothing, !.source = "none",
                          !.verdict = "none"]
                  = [k EXCEPT !.pc = "hold", !.predicted = k.predicted,
                        !.fix = Nothing, !.source = "none",
                        !.verdict = "none"]
            BY <1>t DEF Job
          <5>2. QED
            BY <1>s, <3>1, <4>1, <5>1
        <4>2. CASE job' = [job EXCEPT ![s] = [k EXCEPT !.pc = "readB",
                      !.predicted = Nothing, !.fix = Nothing,
                      !.source = "none", !.verdict = "none"]]
          BY <1>s, <4>2
        <4>3. QED
          BY <3>2, <4>1, <4>2 DEF RecordMisdispatch
      <3>3. CASE SetSafetyHold(s)
        <4>1. [k EXCEPT !.pc = "readB", !.predicted = Nothing]
                = [k EXCEPT !.pc = "readB", !.predicted = Nothing,
                      !.fix = k.fix, !.source = k.source,
                      !.verdict = k.verdict]
          BY <1>t DEF Job
        <4>2. job' = [job EXCEPT ![s] = [k EXCEPT !.pc = "readB",
                          !.predicted = Nothing, !.fix = k.fix,
                          !.source = k.source, !.verdict = k.verdict]]
          BY <3>3, <4>1 DEF SetSafetyHold
        <4> USE <3>1
        <4> WITNESS "readB" \in {"hold", "readB"},
                    Nothing \in Classes \cup {Unclassified, Nothing},
                    k.fix \in AutoFix \cup {Nothing}, k.source \in Sources,
                    k.verdict \in Verdicts
        <4>3. QED
          BY <4>2
      <3>4. QED
        BY <1>3, <3>2, <3>3
    <2> DEFINE j == [job[s] EXCEPT !.pc = pc, !.predicted = predicted,
                        !.fix = fix, !.source = source, !.verdict = verdict]
    <2>2. j \in Job /\ j.pc = pc /\ j.ep = job[s].ep
      BY ZenonT(90), <1>t, <1>s DEF Job
    <2>3. /\ job' = [job EXCEPT ![s] = j]
          /\ job[s].pc \in {"misdispatch", "hold"}
      BY <1>3, <2>1 DEF RecordMisdispatch, SetSafetyHold, At
    <2> HIDE DEF j
    <2>4. /\ misdispatchLog' \in [AutoFix -> Nat]
          /\ safetyHold' \subseteq AutoFix
          /\ unlogged' \subseteq unlogged
      <3>1. CASE RecordMisdispatch(s)
        BY <3>1 DEF RecordMisdispatch, TypeOK, TablesType
      <3>2. CASE SetSafetyHold(s)
        BY <3>2 DEF SetSafetyHold, HoldAfter, TypeOK, TablesType, JobsFit, At,
                    ghosts
      <3>3. QED
        BY <1>3, <3>1, <3>2
    <2>5. TypeOK'
      BY <1>t, <1>u, <2>2, <2>3, <2>4 DEF TypeOK, TablesType, bounds
    <2>6. JobsFit' /\ CountsOnce' /\ NoDoubleCount'
      <3>1. j.predicted = predicted
        BY <1>t DEF j, Job
      <3>2. QED
        BY <1>u, <2>1, <2>2, <2>3, <3>1, AlongCounting DEF Counting
    <2>7. QED
      BY <2>5, <2>6
  <1>4. CASE ReadMode(s)
    <2>1. PICK pc \in {"writeB", "readC"},
               row \in ModeRow \cup {job[s].row} :
            /\ job' = [job EXCEPT ![s] =
                          [job[s] EXCEPT !.pc = pc, !.row = row]]
            /\ pc = "writeB" => row \in ModeRow
      <3>1. CASE job[s].primary
        BY <1>4, <1>r, <3>1 DEF ReadMode
      <3>2. CASE ~job[s].primary
        <4>1. [job[s] EXCEPT !.pc = "readC"]
                = [job[s] EXCEPT !.pc = "readC", !.row = job[s].row]
          BY <1>t DEF Job
        <4>2. QED
          BY <1>4, <3>2, <4>1 DEF ReadMode
      <3>3. QED
        BY <3>1, <3>2
    <2> DEFINE j == [job[s] EXCEPT !.pc = pc, !.row = row]
    <2>2. j \in Job /\ j.pc = pc /\ j.ep = job[s].ep /\ j.row = row
      BY <1>t, <1>s DEF Job
    <2>3. /\ job[s].pc = "readB"
          /\ UNCHANGED <<tables, unlogged>>
      BY <1>4 DEF ReadMode, At, ghosts
    <2>4. job' = [job EXCEPT ![s] = j]
      BY <2>1
    <2> HIDE DEF j
    <2>5. TypeOK'
      BY <1>t, <1>u, <2>2, <2>3, <2>4 DEF TypeOK, TablesType, tables, bounds
    <2>6. JobsFit' /\ CountsOnce' /\ NoDoubleCount'
      BY <1>u, <2>1, <2>2, <2>3, <2>4, AlongCounting DEF Counting
    <2>7. QED
      BY <2>5, <2>6
  <1>5. CASE ReadAction(s)
    <2> DEFINE due == job[s].proposal # "none" /\ Truth(s) \in AutoFix
    <2>1. CASE ~due
      BY <1>1, <1>5, <2>1 DEF ReadAction, ghosts
    <2>2. CASE due
      <3> DEFINE j == [job[s] EXCEPT !.pc = "writeC",
                                     !.row = actionTrust[Truth(s)]]
      <3>1. /\ j \in Job /\ j.pc = "writeC" /\ j.ep = job[s].ep
            /\ j.row = actionTrust[Truth(s)]
        BY <1>t, <1>s, <1>r, <2>2 DEF Job
      <3>2. /\ job' = [job EXCEPT ![s] = j] /\ job[s].pc = "readC"
            /\ UNCHANGED <<tables, unlogged>>
        BY <1>5, <2>2 DEF ReadAction, At, ghosts
      <3> HIDE DEF j
      <3>3. TypeOK'
        BY <1>t, <1>u, <3>1, <3>2 DEF TypeOK, TablesType, tables, bounds
      <3>4. JobsFit' /\ CountsOnce' /\ NoDoubleCount'
        BY <1>u, <1>r, <2>2, <3>1, <3>2, AlongCounting DEF Counting
      <3>5. QED
        BY <3>3, <3>4
    <2>3. QED
      BY <2>1, <2>2
  <1>6. QED
    BY <1>2, <1>3, <1>4, <1>5

\* The three writes.  Each counter is moved by the one process that holds the
\* episode's ticket, and once: it then stands past that counter for good.
LEMMA ScorerWrites ==
    ASSUME ScorerInv, NEW s \in Scorers,
           WriteTrust(s) \/ WriteMode(s) \/ WriteAction(s)
    PROVE  ScorerInv'
  <1> USE DEF ScorerInv
  <1> DEFINE e == job[s].ep
  <1>t. /\ job \in [Scorers -> Job]
        /\ job[s] \in Job
        /\ e \in Episodes /\ e \in scored /\ Truth(s) \in Classes
        /\ tally[e] \in [A : Nat, B : Nat, C : Nat]
        /\ tally \in [Episodes -> [A : Nat, B : Nat, C : Nat]]
    BY ScorerAssumption DEF TypeOK, JobsFit, CountsOnce, Counting, WriteTrust,
                            WriteMode, WriteAction, At, Job, Truth
  <1>s. "misdispatch" \in Steps /\ "readC" \in Steps
    BY DEF Steps
  <1>o. \A r \in Scorers : r # s /\ job[r].pc \in Counting => job[r].ep # e
    BY DEF CountsOnce, WriteTrust, WriteMode, WriteAction, At, Counting
  <1>1. CASE WriteTrust(s)
    <2> DEFINE j == [job[s] EXCEPT !.pc = "misdispatch", !.row = Nothing]
               new == RecordOutcome(job[s].row, job[s].verdict = "correct")
    <2>1. j \in Job /\ j.pc = "misdispatch" /\ j.ep = e
      BY <1>t, <1>s DEF Job
    <2>2. /\ job[s].pc = "writeA" /\ Truth(s) \in AutoFix
          /\ job[s].row \in TrustRow
          /\ tally[e].A = 0 /\ tally[e].B = 0 /\ tally[e].C = 0
      BY <1>1 DEF WriteTrust, At, JobsFit, CountsOnce, Counting
    <2>3. new \in TrustRow
      BY <2>2 DEF RecordOutcome, Row, TrustRow, CAN_ACT, REPORT_ONLY
    <2>4. /\ job' = [job EXCEPT ![s] = j]
          /\ tally' = [tally EXCEPT ![e].A = 1]
          /\ trustState' = [trustState EXCEPT ![Truth(s)] = new]
          /\ earned' \in [AutoFix -> Nat]
          /\ late' \in [AutoFix -> [Scorers -> Nat]]
          /\ granted' \subseteq granted
          /\ UNCHANGED <<diagnoserMode, actionTrust, failureLog,
                         misdispatchLog, safetyHold, scored, unlogged,
                         bounds>>
      BY <1>1, <2>2 DEF WriteTrust, LateAfter, TypeOK
    <2>5. /\ job'[s] = j /\ job' \in [Scorers -> Job]
          /\ \A r \in Scorers : r # s => job'[r] = job[r]
      BY <1>t, <2>1, <2>4
    <2>6. /\ tally' \in [Episodes -> [A : Nat, B : Nat, C : Nat]]
          /\ tally'[e].A = 1 /\ tally'[e].B = 0 /\ tally'[e].C = 0
          /\ \A x \in Episodes : x # e => tally'[x] = tally[x]
      BY <1>t, <2>2, <2>4
    <2> HIDE DEF j, new
    <2>7. TypeOK'
      BY <2>3, <2>4, <2>5, <2>6 DEF TypeOK, TablesType, bounds
    <2>8. JobsFit'
      BY <1>t, <2>1, <2>5, ScorerAssumption DEF JobsFit, At, Truth
    <2>9. CountsOnce'
      BY <1>t, <1>o, <2>1, <2>2, <2>4, <2>5, <2>6 DEF CountsOnce, Counting,
                                                      TypeOK, Job
    <2>10. NoDoubleCount'
      BY <1>t, <2>6 DEF NoDoubleCount
    <2>11. QED
      BY <2>7, <2>8, <2>9, <2>10
  <1>2. CASE WriteMode(s)
    <2> DEFINE j == [job[s] EXCEPT !.pc = "readC", !.row = Nothing]
               new == RecordDiagnoserOutcome(job[s].row,
                                             job[s].llm = Truth(s))
    <2>1. j \in Job /\ j.pc = "readC" /\ j.ep = e
      BY <1>t, <1>s DEF Job
    <2>2. /\ job[s].pc = "writeB" /\ job[s].row \in ModeRow
          /\ tally[e].B = 0 /\ tally[e].C = 0
      BY <1>2 DEF WriteMode, At, JobsFit, CountsOnce, Counting
    <2>3. new \in ModeRow
      BY <2>2 DEF RecordDiagnoserOutcome, Row, ModeRow, STUB, LLM
    <2>4. /\ job' = [job EXCEPT ![s] = j]
          /\ tally' = [tally EXCEPT ![e].B = 1]
          /\ diagnoserMode' = [diagnoserMode EXCEPT ![Truth(s)] = new]
          /\ UNCHANGED <<trustState, actionTrust, failureLog, misdispatchLog,
                         safetyHold, scored, earned, late, granted, unlogged,
                         bounds>>
      BY <1>2, <2>2 DEF WriteMode
    <2>5. /\ job'[s] = j /\ job' \in [Scorers -> Job]
          /\ \A r \in Scorers : r # s => job'[r] = job[r]
      BY <1>t, <2>1, <2>4
    <2>6. /\ tally' \in [Episodes -> [A : Nat, B : Nat, C : Nat]]
          /\ tally'[e].A = tally[e].A /\ tally'[e].B = 1 /\ tally'[e].C = 0
          /\ \A x \in Episodes : x # e => tally'[x] = tally[x]
      BY <1>t, <2>2, <2>4
    <2> HIDE DEF j, new
    <2>7. TypeOK'
      BY <2>3, <2>4, <2>5, <2>6 DEF TypeOK, TablesType, bounds
    <2>8. JobsFit'
      BY <1>t, <2>1, <2>5, ScorerAssumption DEF JobsFit, At, Truth
    <2>9. CountsOnce'
      BY <1>t, <1>o, <2>1, <2>2, <2>4, <2>5, <2>6 DEF CountsOnce, Counting,
                                                      TypeOK, Job
    <2>10. NoDoubleCount'
      BY <1>t, <2>6 DEF NoDoubleCount
    <2>11. QED
      BY <2>7, <2>8, <2>9, <2>10
  <1>3. CASE WriteAction(s)
    <2> DEFINE new == RecordActionOutcome(job[s].row,
                         job[s].llm = Truth(s) /\ job[s].proposal = "safe")
    <2>1. Idle \in Job /\ Idle.pc = "idle" /\ Idle.ep = Nothing
      BY IdleIsJob DEF Idle
    <2>2. /\ job[s].pc = "writeC" /\ job[s].row \in ActionRow
          /\ Truth(s) \in AutoFix /\ tally[e].C = 0
      BY <1>3 DEF WriteAction, At, JobsFit, CountsOnce, Counting
    <2>3. new \in ActionRow
      BY <2>2 DEF RecordActionOutcome, Row, ActionRow, LLM_CAN_ACT,
                  DETERMINISTIC_FALLBACK
    <2>4. /\ job' = [job EXCEPT ![s] = Idle]
          /\ tally' = [tally EXCEPT ![e].C = 1]
          /\ actionTrust' = [actionTrust EXCEPT ![Truth(s)] = new]
          /\ UNCHANGED <<trustState, diagnoserMode, failureLog,
                         misdispatchLog, safetyHold, scored, earned, late,
                         granted, unlogged, bounds>>
      BY <1>3, <2>2 DEF WriteAction
    <2>5. /\ job'[s] = Idle /\ job' \in [Scorers -> Job]
          /\ \A r \in Scorers : r # s => job'[r] = job[r]
      BY <1>t, <2>1, <2>4
    <2>6. /\ tally' \in [Episodes -> [A : Nat, B : Nat, C : Nat]]
          /\ tally'[e].A = tally[e].A /\ tally'[e].B = tally[e].B
          /\ tally'[e].C = 1
          /\ \A x \in Episodes : x # e => tally'[x] = tally[x]
      BY <1>t, <2>2, <2>4
    <2> HIDE DEF new
    <2>7. TypeOK'
      BY <2>3, <2>4, <2>5, <2>6 DEF TypeOK, TablesType, bounds
    <2>8. JobsFit'
      BY <1>t, <2>1, <2>5, ScorerAssumption DEF JobsFit, At, Truth
    <2>9. CountsOnce'
      BY <1>t, <1>o, <2>1, <2>2, <2>4, <2>5, <2>6 DEF CountsOnce, Counting,
                                                      TypeOK, Job
    <2>10. NoDoubleCount'
      BY <1>t, <2>6 DEF NoDoubleCount
    <2>11. QED
      BY <2>7, <2>8, <2>9, <2>10
  <1>4. QED
    BY <1>1, <1>2, <1>3

\* A killed process drops its job and keeps what it committed.
LEMMA ScorerKill ==
    ASSUME ScorerInv, NEW s \in Scorers, Kill(s)
    PROVE  ScorerInv'
  <1> USE DEF ScorerInv
  <1>1. /\ job' = [job EXCEPT ![s] = Idle]
        /\ kills' = kills + 1 /\ kills < KillBound
        /\ UNCHANGED <<tables, scored, ghosts, overrides>>
    BY DEF Kill
  <1>2. TypeOK'
    BY <1>1, IdleIsJob, ScorerAssumption
       DEF TypeOK, TablesType, tables, ghosts
  <1>3. Idle.pc = "idle" /\ Idle.ep = Nothing /\ Idle.pc \notin Counting
    BY DEF Idle, Counting
  <1>4. QED
    BY <1>1, <1>2, <1>3, IdleIsJob, OutsideCounting DEF ghosts

\* Time and the operator touch no job and no counter.
LEMMA ScorerEnvironment ==
    ASSUME ScorerInv,
           \/ FailureExpires
           \/ \E c \in AutoFix : \/ MisdispatchExpires(c) \/ ClearSafetyHold(c)
                                 \/ Promote(c) \/ Demote(c)
    PROVE  ScorerInv'
  <1> USE DEF ScorerInv
  <1>1. UNCHANGED <<job, scored, tally, diagnoserMode, actionTrust, unlogged,
                    kills>>
    BY DEF FailureExpires, MisdispatchExpires, ClearSafetyHold, Promote,
           Demote, ghosts, bounds
  <1>2. TypeOK'
    <2>1. CASE FailureExpires
      BY <2>1 DEF FailureExpires, TypeOK, TablesType, ghosts, bounds
    <2>2. ASSUME NEW c \in AutoFix,
                 MisdispatchExpires(c) \/ ClearSafetyHold(c)
          PROVE  TypeOK'
      <3>1. CASE MisdispatchExpires(c)
        BY <3>1 DEF MisdispatchExpires, TypeOK, TablesType, ghosts, bounds
      <3>2. CASE ClearSafetyHold(c)
        <4>1. late' \in [AutoFix -> [Scorers -> Nat]]
          BY <3>2 DEF ClearSafetyHold, LateAfter, TypeOK
        <4>2. /\ safetyHold' \subseteq AutoFix
              /\ overrides' \in 0..OverrideBound
              /\ UNCHANGED <<trustState, diagnoserMode, actionTrust,
                             failureLog, misdispatchLog, scored, job, tally,
                             earned, granted, unlogged, kills>>
          BY <3>2, ScorerAssumption DEF ClearSafetyHold, TypeOK, TablesType
        <4>3. QED
          BY <4>1, <4>2 DEF TypeOK, TablesType
      <3>3. QED
        BY <2>2, <3>1, <3>2
    <2>3. ASSUME NEW c \in AutoFix, Promote(c) \/ Demote(c)
          PROVE  TypeOK'
      <3>1. /\ Row(CAN_ACT, PromotionStreak) \in TrustRow
            /\ Row(REPORT_ONLY, 0) \in TrustRow
        BY TablesAssumption DEF Row, TrustRow, CAN_ACT, REPORT_ONLY
      <3>2. late' \in [AutoFix -> [Scorers -> Nat]]
        <4>1. \/ late' = late
              \/ late' = LateAfter(trustState', safetyHold)
          BY <2>3 DEF Promote, Demote
        <4>2. QED
          BY <4>1 DEF LateAfter, TypeOK
      <3>3. /\ trustState' \in [AutoFix -> TrustRow]
            /\ earned' \in [AutoFix -> Nat]
            /\ granted' \subseteq AutoFix
            /\ overrides' \in 0..OverrideBound
            /\ UNCHANGED <<diagnoserMode, actionTrust, failureLog,
                           misdispatchLog, safetyHold, scored, job, tally,
                           unlogged, kills>>
        <4>1. CASE Promote(c)
          BY <3>1, <4>1, ScorerAssumption
             DEF Promote, Overriding, TypeOK, TablesType
        <4>2. CASE Demote(c)
          BY <3>1, <4>2, ScorerAssumption
             DEF Demote, Overriding, TypeOK, TablesType
        <4>3. QED
          BY <2>3, <4>1, <4>2
      <3>4. QED
        BY <3>2, <3>3 DEF TypeOK, TablesType
    <2>4. QED
      BY <2>1, <2>2, <2>3
  <1>3. QED
    BY <1>1, <1>2 DEF JobsFit, CountsOnce, NoDoubleCount, At, Truth

LEMMA ScorerStep == ScorerInv /\ [Next]_vars => ScorerInv'
  <1> SUFFICES ASSUME ScorerInv, [Next]_vars PROVE ScorerInv'
    OBVIOUS
  <1>1. ASSUME NEW s \in Scorers, Step(s)
        PROVE  ScorerInv'
    BY <1>1, ScorerQuiet, ScorerBreaker, ScorerInsert, ScorerReads,
       ScorerWrites DEF Step
  <1>2. ASSUME NEW s \in Scorers, Kill(s) PROVE ScorerInv'
    BY <1>2, ScorerKill
  <1>3. ASSUME NEW s \in Scorers, NEW e \in Episodes, Start(s, e)
        PROVE  ScorerInv'
    BY <1>3, ScorerQuiet
  <1>4. CASE \/ FailureExpires
             \/ \E c \in AutoFix : \/ MisdispatchExpires(c)
                                   \/ ClearSafetyHold(c)
                                   \/ Promote(c) \/ Demote(c)
    BY <1>4, ScorerEnvironment
  <1>5. CASE UNCHANGED vars
    BY <1>5 DEF ScorerInv, TypeOK, TablesType, JobsFit, CountsOnce,
                NoDoubleCount, At, Truth, vars, tables, ghosts, bounds
  <1>6. QED
    BY <1>1, <1>2, <1>3, <1>4, <1>5 DEF Next

\* However many scorers run at once and are killed, and whenever an operator
\* steps in, no episode moves a streak of any dimension twice: the scores
\* table's primary key lets one process past (p3_scorer.main).
THEOREM ScorerInvariant == Spec => []ScorerInv
  BY ScorerInit, ScorerStep, PTL DEF Spec

-----------------------------------------------------------------------------
(* A rescue is never evidence.                                             *)

\* Until the judge has spoken there is no verdict; while the gate's or the
\* safety net's fix is on record, the agent's own diagnosis was another and
\* nobody has judged it correct.
RescueIsMiss ==
    \A s \in Scorers :
        /\ job[s].pc \in {"diagnose", "propose", "dispatch", "hold"}
              => job[s].source = "none"
        /\ job[s].pc \in {"diagnose", "propose", "dispatch", "fix", "judge"}
              => job[s].verdict = "none"
        /\ job[s].source \in {"gate", "safety_net"} =>
              /\ job[s].predicted # Truth(s)
              /\ job[s].fix # Nothing
              /\ job[s].verdict # "correct"

\* The steps that write the fields RescueIsMiss reads are /diagnose, /act's
\* dispatch, the judge, and the misdispatch guard, which clears them.
LEMMA RescueStep ==
    ASSUME ScorerInv, RescueIsMiss, [Next]_vars
    PROVE  RescueIsMiss'
  <1>t. job \in [Scorers -> Job]
    BY DEF ScorerInv, TypeOK
  <1> DEFINE Early == {"diagnose", "propose", "dispatch"}
             Late == {"fix", "judge"}
             Kept(j) ==
                /\ j.pc \in Early \cup {"hold"} => j.source = "none"
                /\ j.pc \in Early \cup Late => j.verdict = "none"
                /\ j.source \in {"gate", "safety_net"} =>
                      /\ j.predicted # Actual[j.ep]
                      /\ j.fix # Nothing
                      /\ j.verdict # "correct"
             Same(j, k) ==
                /\ j.source = k.source /\ j.verdict = k.verdict
                /\ j.predicted = k.predicted /\ j.fix = k.fix
                /\ j.ep = k.ep
  <1>k. \A s \in Scorers : Kept(job[s])
    BY DEF RescueIsMiss, Truth
  <1>e. ASSUME NEW s \in Scorers, NEW j, Kept(j),
               job' = [job EXCEPT ![s] = j]
        PROVE  RescueIsMiss'
    BY <1>t, <1>k, <1>e DEF RescueIsMiss, Truth
  <1>p. ASSUME NEW s \in Scorers, NEW j, Same(j, job[s]),
               \/ j.pc \notin Early \cup Late \cup {"hold"}
               \/ j.pc \in Early /\ job[s].pc \in Early
               \/ j.pc = "judge" /\ job[s].pc \in Early \cup Late,
               job' = [job EXCEPT ![s] = j]
        PROVE  RescueIsMiss'
    BY <1>k, <1>e, <1>p
  <1>i. Kept(Idle)
    BY DEF Idle
  <1>1. ASSUME NEW s \in Scorers, NEW e \in Episodes, Start(s, e)
        PROVE  RescueIsMiss'
    <2>1. Kept([Idle EXCEPT !.pc = "diagnose", !.ep = e])
      BY DEF Idle
    <2>2. QED
      BY <1>1, <2>1, <1>e DEF Start
  <1>2. ASSUME NEW s \in Scorers, NEW stub \in Classes \cup {Unclassified},
               NEW llm \in Classes \cup {Nothing}, NEW primary \in BOOLEAN,
               Diagnose(s, stub, llm, primary)
        PROVE  RescueIsMiss'
    <2>0. PICK pc \in {"propose", "judge"} : \E predicted :
            job' = [job EXCEPT ![s] = [job[s] EXCEPT !.pc = pc,
                       !.predicted = predicted,
                       !.llm = IF primary THEN llm ELSE Nothing,
                       !.primary = primary]]
      BY <1>2 DEF Diagnose
    <2>1. PICK predicted :
            job' = [job EXCEPT ![s] = [job[s] EXCEPT !.pc = pc,
                       !.predicted = predicted,
                       !.llm = IF primary THEN llm ELSE Nothing,
                       !.primary = primary]]
      BY <2>0
    <2> DEFINE j == [job[s] EXCEPT !.pc = pc, !.predicted = predicted,
                        !.llm = IF primary THEN llm ELSE Nothing,
                        !.primary = primary]
    <2>2. /\ j.pc = pc /\ j.source = job[s].source
          /\ j.verdict = job[s].verdict
      BY <1>t DEF Job
    <2>3. job[s].source = "none" /\ job[s].verdict = "none"
      BY <1>2, <1>k DEF Diagnose, At
    <2>4. Kept(j)
      BY <2>2, <2>3
    <2>5. QED
      BY <2>1, <2>4, <1>e
  <1>3. ASSUME NEW s \in Scorers, NEW proposal \in Proposals,
               Propose(s, proposal)
        PROVE  RescueIsMiss'
    <2> DEFINE j == [job[s] EXCEPT !.pc = "dispatch", !.proposal = proposal]
    <2>1. Same(j, job[s]) /\ j.pc = "dispatch"
      BY <1>t DEF Job
    <2>2. job' = [job EXCEPT ![s] = j] /\ job[s].pc = "propose"
      BY <1>3 DEF Propose, At
    <2>3. QED
      BY <2>1, <2>2, <1>p
  <1>4. ASSUME NEW s \in Scorers, Dispatch(s)
        PROVE  RescueIsMiss'
    <2> DEFINE d == DispatchDecision(job[s].predicted, Truth(s))
               pc == IF d[1] = Nothing THEN "judge" ELSE "fix"
               j == [job[s] EXCEPT !.pc = pc, !.fix = d[1], !.source = d[2]]
    <2>1. d[2] \in {"gate", "safety_net"}
             => job[s].predicted # Truth(s) /\ d[1] \in AutoFix
      BY DEF DispatchDecision
    <2>2. Nothing \notin AutoFix
      BY ScorerAssumption DEF Classes
    <2> HIDE DEF d
    <2>3. /\ j.pc \in Late /\ j.source = d[2] /\ j.fix = d[1]
          /\ j.verdict = job[s].verdict /\ j.predicted = job[s].predicted
          /\ j.ep = job[s].ep
      BY <1>t DEF Job
    <2>4. job[s].verdict = "none"
      BY <1>4, <1>k DEF Dispatch, At
    <2>5. Kept(j)
      BY <2>1, <2>2, <2>3, <2>4 DEF Truth
    <2>6. job' = [job EXCEPT ![s] = j]
      BY <1>4 DEF Dispatch, d
    <2>7. QED
      BY <2>5, <2>6, <1>e
  <1>5. ASSUME NEW s \in Scorers, NEW confirmed \in BOOLEAN,
               Judge(s, confirmed)
        PROVE  RescueIsMiss'
    <2> DEFINE good == /\ job[s].predicted = Truth(s)
                       /\ job[s].applied /\ confirmed
    <2>1. CASE job[s].fix # Nothing
      <3> DEFINE j == [job[s] EXCEPT
                          !.pc = IF good THEN "score" ELSE "failure",
                          !.applied = FALSE,
                          !.verdict = IF good THEN "correct" ELSE "wrong"]
      <3>1. /\ j.pc \in {"score", "failure"} /\ j.source = job[s].source
            /\ j.predicted = job[s].predicted /\ j.ep = job[s].ep
            /\ j.fix = job[s].fix
            /\ job[s].predicted # Truth(s) => j.verdict = "wrong"
        BY <1>t DEF Job
      <3>2. job' = [job EXCEPT ![s] = j]
        BY <1>5, <2>1 DEF Judge
      <3>3. Kept(j)
        BY <3>1, <1>k, <2>1 DEF Truth
      <3>4. QED
        BY <3>2, <3>3, <1>e
    <2>2. CASE job[s].fix = Nothing
      <3>1. PICK verdict : job' = [job EXCEPT ![s] =
                              [job[s] EXCEPT !.pc = "score",
                                             !.verdict = verdict]]
        BY <1>5, <2>2 DEF Judge
      <3> DEFINE j == [job[s] EXCEPT !.pc = "score", !.verdict = verdict]
      <3>2. j.pc = "score" /\ j.source = job[s].source
        BY <1>t DEF Job
      <3>3. job[s].source \notin {"gate", "safety_net"}
        BY <1>k, <2>2
      <3>4. Kept(j)
        BY <3>2, <3>3
      <3>5. QED
        BY <3>1, <3>4, <1>e
    <2>3. QED
      BY <2>1, <2>2
  <1>6. ASSUME NEW s \in Scorers,
               \/ RecordFailure(s) \/ BreakerHolds(s) \/ BreakerTrips(s)
               \/ ResetAction(s) \/ ClearAllSafetyHolds(s)
               \/ \E c \in Classes : ResetDiagnoser(s, c) \/ ReleaseHold(s, c)
               \/ InsertScore(s) \/ ReadTrust(s) \/ WriteTrust(s)
               \/ ReadMode(s) \/ WriteMode(s) \/ ReadAction(s)
               \/ WriteAction(s) \/ Kill(s)
        PROVE  RescueIsMiss'
    <2>1. ASSUME NEW pc \in Steps \ (Early \cup Late \cup {"hold"}),
                 NEW todo, NEW row, NEW under,
                 \/ job' = [job EXCEPT ![s].pc = pc]
                 \/ job' = [job EXCEPT ![s] =
                               [job[s] EXCEPT !.pc = pc]]
                 \/ job' = [job EXCEPT ![s] =
                               [job[s] EXCEPT !.pc = pc, !.row = row]]
                 \/ job' = [job EXCEPT ![s] =
                               [job[s] EXCEPT !.pc = pc, !.under = under]]
                 \/ job' = [job EXCEPT ![s] =
                               [job[s] EXCEPT !.pc = pc, !.todo = todo]]
                 \/ job' = [job EXCEPT ![s] =
                               [job[s] EXCEPT !.pc = pc, !.todo = todo,
                                              !.under = under]]
          PROVE  RescueIsMiss'
      <3> DEFINE j1 == [job[s] EXCEPT !.pc = pc]
                 j2 == [job[s] EXCEPT !.pc = pc, !.row = row]
                 j3 == [job[s] EXCEPT !.pc = pc, !.under = under]
                 j4 == [job[s] EXCEPT !.pc = pc, !.todo = todo]
                 j5 == [job[s] EXCEPT !.pc = pc, !.todo = todo,
                                      !.under = under]
      <3>1. /\ Same(j1, job[s]) /\ j1.pc = pc
            /\ Same(j2, job[s]) /\ j2.pc = pc
            /\ Same(j3, job[s]) /\ j3.pc = pc
            /\ Same(j4, job[s]) /\ j4.pc = pc
            /\ Same(j5, job[s]) /\ j5.pc = pc
        BY <1>t DEF Job
      <3>2. \/ job' = [job EXCEPT ![s] = j1] \/ job' = [job EXCEPT ![s] = j2]
            \/ job' = [job EXCEPT ![s] = j3] \/ job' = [job EXCEPT ![s] = j4]
            \/ job' = [job EXCEPT ![s] = j5]
        BY <2>1
      <3> HIDE DEF j1, j2, j3, j4, j5
      <3>3. QED
        BY <3>1, <3>2, <1>p
    <2>2. CASE job' = [job EXCEPT ![s] = Idle]
      BY <2>2, <1>i, <1>e
    <2>s. {"breaker", "score", "reset", "resetAction", "clearHolds", "release",
           "misdispatch", "readA", "writeA", "writeB", "readC", "writeC"}
              \subseteq Steps \ (Early \cup Late \cup {"hold"})
      BY DEF Steps
    <2>3. CASE RecordFailure(s) \/ BreakerHolds(s) \/ ClearAllSafetyHolds(s)
      BY <2>1, <2>3, <2>s DEF RecordFailure, BreakerHolds, ClearAllSafetyHolds
    <2>4. CASE \/ BreakerTrips(s) \/ ResetAction(s)
               \/ \E c \in Classes : ResetDiagnoser(s, c) \/ ReleaseHold(s, c)
      BY <2>1, <2>4, <2>s DEF BreakerTrips, ResetAction, ResetDiagnoser,
                              ReleaseHold
    <2>5. CASE InsertScore(s)
      BY <2>1, <2>2, <2>5, <2>s DEF InsertScore
    <2>6. CASE ReadTrust(s) \/ WriteTrust(s)
      BY <2>1, <2>2, <2>6, <2>s DEF ReadTrust, WriteTrust
    <2>7. CASE ReadMode(s) \/ WriteMode(s)
      BY <2>1, <2>2, <2>7, <2>s DEF ReadMode, WriteMode
    <2>8. CASE ReadAction(s) \/ WriteAction(s) \/ Kill(s)
      BY <2>1, <2>2, <2>8, <2>s DEF ReadAction, WriteAction, Kill
    <2>9. QED
      BY <1>6, <2>3, <2>4, <2>5, <2>6, <2>7, <2>8
  <1>7. ASSUME NEW s \in Scorers, RecordMisdispatch(s) \/ SetSafetyHold(s)
        PROVE  RescueIsMiss'
    <2> DEFINE j1 == [job[s] EXCEPT !.pc = "readB", !.predicted = Nothing,
                         !.fix = Nothing, !.source = "none",
                         !.verdict = "none"]
               j2 == [job[s] EXCEPT !.pc = "hold", !.fix = Nothing,
                         !.source = "none", !.verdict = "none"]
               j3 == [job[s] EXCEPT !.pc = "readB", !.predicted = Nothing]
    <2>1. /\ j1.pc = "readB" /\ j1.source = "none"
          /\ j2.pc = "hold" /\ j2.source = "none"
          /\ j3.pc = "readB" /\ j3.source = job[s].source
      BY <1>t DEF Job
    <2>2. At(s, "hold") => job[s].source = "none"
      BY DEF RescueIsMiss, At
    <2>3. CASE RecordMisdispatch(s)
      <3>1. job' = [job EXCEPT ![s] = j1] \/ job' = [job EXCEPT ![s] = j2]
        BY <2>3 DEF RecordMisdispatch
      <3>2. QED
        BY <2>1, <3>1, <1>e
    <2>4. CASE SetSafetyHold(s)
      <3>1. job' = [job EXCEPT ![s] = j3] /\ At(s, "hold")
        BY <2>4 DEF SetSafetyHold
      <3>2. QED
        BY <2>1, <2>2, <3>1, <1>e
    <2>5. QED
      BY <1>7, <2>3, <2>4
  <1>10. ASSUME NEW s \in Scorers, NEW applied \in BOOLEAN,
                ApplyFix(s, applied)
         PROVE  RescueIsMiss'
    <2> DEFINE j == [job[s] EXCEPT !.pc = "judge", !.applied = applied]
    <2>1. Same(j, job[s]) /\ j.pc = "judge"
      BY <1>t DEF Job
    <2>2. job' = [job EXCEPT ![s] = j] /\ job[s].pc = "fix"
      BY <1>10 DEF ApplyFix, At
    <2>3. QED
      BY <2>1, <2>2, <1>p
  <1>8. CASE UNCHANGED job
    BY <1>8 DEF RescueIsMiss, Truth
  <1>9. QED
    BY <1>1, <1>2, <1>3, <1>4, <1>5, <1>6, <1>7, <1>8, <1>10
       DEF Next, Step, vars, FailureExpires, MisdispatchExpires,
           ClearSafetyHold, Promote, Demote

\* A rescue by the gate or the safety net is never scored as the agent's
\* success, whatever trips, kills and overrides happen on the way
\* (dispatch_gate.py, p3_agent.act, p3_scorer's trust_correct).
THEOREM RescuesNeverCount == Spec => []RescueNeverCounts
  <1>1. Init => RescueIsMiss
    BY DEF Init, RescueIsMiss, Idle
  <1>2. ScorerInv /\ RescueIsMiss /\ [Next]_vars => RescueIsMiss'
    BY RescueStep
  <1>3. ScorerInv /\ RescueIsMiss => RescueNeverCounts
    BY DEF RescueIsMiss, RescueNeverCounts, ScorerInv, TypeOK, Job, Verdicts
  <1>4. QED
    BY <1>1, <1>2, <1>3, ScorerInvariant, PTL DEF Spec

-----------------------------------------------------------------------------
(* The window between /act's look at trust and the fix lets one fix out.   *)

\* A step of one process leaves every other process's job alone.
LEMMA OneJob ==
    ASSUME ScorerInv, NEW s \in Scorers,
           Step(s) \/ Kill(s) \/ \E e \in Episodes : Start(s, e)
    PROVE  \A r \in Scorers : r # s => job'[r] = job[r]
  <1>t. job \in [Scorers -> Job]
    BY DEF ScorerInv, TypeOK
  <1>1. \E j : job' = [job EXCEPT ![s] = j]
    <2>1. CASE \/ \E stub \in Classes \cup {Unclassified},
                     llm \in Classes \cup {Nothing}, primary \in BOOLEAN :
                        Diagnose(s, stub, llm, primary)
               \/ \E e \in Episodes : Start(s, e)
      <3>1. ASSUME NEW stub \in Classes \cup {Unclassified},
                   NEW llm \in Classes \cup {Nothing},
                   NEW primary \in BOOLEAN, Diagnose(s, stub, llm, primary)
            PROVE  \E j : job' = [job EXCEPT ![s] = j]
        BY <3>1 DEF Diagnose
      <3>2. CASE \E e \in Episodes : Start(s, e)
        BY <3>2 DEF Start
      <3>3. QED
        BY <2>1, <3>1, <3>2
    <2>2. CASE \/ \E proposal \in Proposals : Propose(s, proposal)
               \/ \E applied \in BOOLEAN : ApplyFix(s, applied)
               \/ \E confirmed \in BOOLEAN : Judge(s, confirmed)
               \/ Dispatch(s)
      BY <2>2 DEF Propose, Dispatch, ApplyFix, Judge
    <2>3. CASE \/ RecordFailure(s) \/ BreakerHolds(s) \/ BreakerTrips(s)
               \/ \E c \in Classes : ResetDiagnoser(s, c) \/ ReleaseHold(s, c)
               \/ ResetAction(s) \/ ClearAllSafetyHolds(s)
      <3>1. CASE RecordFailure(s) \/ BreakerHolds(s) \/ BreakerTrips(s)
        BY <3>1 DEF RecordFailure, BreakerHolds, BreakerTrips
      <3>2. CASE ResetAction(s) \/ ClearAllSafetyHolds(s)
        BY <3>2 DEF ResetAction, ClearAllSafetyHolds
      <3>3. CASE \E c \in Classes : ResetDiagnoser(s, c) \/ ReleaseHold(s, c)
        BY <3>3 DEF ResetDiagnoser, ReleaseHold
      <3>4. QED
        BY <2>3, <3>1, <3>2, <3>3
    <2>4. CASE InsertScore(s)
      BY <2>4 DEF InsertScore
    <2>5. CASE \/ ReadTrust(s) \/ WriteTrust(s)
               \/ RecordMisdispatch(s) \/ SetSafetyHold(s)
      BY <2>5 DEF ReadTrust, WriteTrust, RecordMisdispatch, SetSafetyHold
    <2>6. CASE \/ ReadMode(s) \/ WriteMode(s) \/ ReadAction(s)
               \/ WriteAction(s) \/ Kill(s)
      BY <2>6 DEF ReadMode, WriteMode, ReadAction, WriteAction, Kill
    <2>7. QED
      BY <2>1, <2>2, <2>3, <2>4, <2>5, <2>6 DEF Step
  <1>2. QED
    BY <1>t, <1>1

\* Nothing is late while a class may act, and a process whose fix is about to
\* go out has not sent a late one yet: it found the class trusted.
LateBounded ==
    /\ OneLateFix
    /\ \A c \in AutoFix : MayAct(c) => \A s \in Scorers : late[c][s] = 0
    /\ \A s \in Scorers : At(s, "fix") =>
          /\ Account(s) \in AutoFix
          /\ late[Account(s)][s] = 0

\* A process that is not about to send a fix owes nothing, whatever becomes
\* of the class: its trust and its count change together.
LEMMA LateKept ==
    ASSUME ScorerInv, LateBounded,
           \A s \in Scorers :
               At(s, "fix")' => job'[s] = job[s],
           \/ /\ late' = late
              /\ \A c \in AutoFix : MayAct(c)' => MayAct(c)
           \/ late' = LateAfter(trustState', safetyHold')
    PROVE  LateBounded'
  <1>1. ASSUME NEW c \in AutoFix, NEW s \in Scorers
        PROVE  /\ late'[c][s] \in {0, late[c][s]}
               /\ MayAct(c)' => late'[c][s] = 0
    BY <1>1 DEF LateBounded, LateAfter, MayAct
  <1>2. \A c \in AutoFix, s \in Scorers : late[c][s] \in Nat
    BY DEF ScorerInv, TypeOK
  <1>3. OneLateFix'
    BY <1>1, <1>2 DEF LateBounded, OneLateFix
  <1>4. \A s \in Scorers : At(s, "fix")' =>
            /\ At(s, "fix") /\ Account(s)' = Account(s)
    BY DEF At, Account, Truth
  <1>5. QED
    BY <1>1, <1>3, <1>4 DEF LateBounded

\* The steps that write the tables MayAct reads, or reach "fix", one by one.
LEMMA LateStep ==
    ASSUME ScorerInv, LateBounded, [Next]_vars
    PROVE  LateBounded'
  <1>t. job \in [Scorers -> Job] /\ late \in [AutoFix -> [Scorers -> Nat]]
    BY DEF ScorerInv, TypeOK
  <1>i. Idle.pc = "idle"
    BY DEF Idle
  <1> DEFINE Elsewhere == \A s \in Scorers : At(s, "fix")' => job'[s] = job[s]
             NoGain == \A c \in AutoFix : MayAct(c)' => MayAct(c)
  <1>s. ASSUME NEW s \in Scorers, NEW j, j.pc # "fix",
               job' = [job EXCEPT ![s] = j]
        PROVE  Elsewhere
    BY <1>t, <1>s DEF At
  <1>1. ASSUME NEW s \in Scorers, Dispatch(s)
        PROVE  LateBounded'
    <2> DEFINE d == DispatchDecision(job[s].predicted, Truth(s))
               pc == IF d[1] = Nothing THEN "judge" ELSE "fix"
               j == [job[s] EXCEPT !.pc = pc, !.fix = d[1], !.source = d[2]]
    <2>1. /\ UNCHANGED <<tables, late>>
          /\ job' = [job EXCEPT ![s] = j]
      BY <1>1 DEF Dispatch, ghosts
    <2>2. /\ j.pc = pc /\ j.predicted = job[s].predicted /\ j.ep = job[s].ep
          /\ job'[s] = j /\ \A r \in Scorers : r # s => job'[r] = job[r]
      BY <1>t, <2>1 DEF Job
    <2>3. pc = "fix" => Account(s) \in AutoFix /\ MayAct(Account(s))
      BY DEF DispatchDecision, Account
    <2> HIDE DEF pc, j
    <2>4. Account(s)' = Account(s)
      BY <2>2 DEF Account, Truth
    <2>5. \A r \in Scorers : r # s =>
              Account(r)' = Account(r) /\ (At(r, "fix")' <=> At(r, "fix"))
      BY <2>2 DEF Account, Truth, At
    <2>6. OneLateFix' /\ \A c \in AutoFix :
              MayAct(c)' => \A r \in Scorers : late'[c][r] = 0
      BY <2>1 DEF LateBounded, OneLateFix, MayAct, tables
    <2>7. At(s, "fix")' => /\ Account(s)' \in AutoFix
                           /\ late'[Account(s)'][s] = 0
      BY <2>1, <2>2, <2>3, <2>4 DEF At, LateBounded
    <2>8. QED
      BY <2>1, <2>5, <2>6, <2>7 DEF LateBounded
  <1>2. ASSUME NEW s \in Scorers, NEW applied \in BOOLEAN,
               ApplyFix(s, applied)
        PROVE  LateBounded'
    <2> DEFINE c == Account(s)
               j == [job[s] EXCEPT !.pc = "judge", !.applied = applied]
    <2>1. /\ UNCHANGED tables
          /\ c \in AutoFix /\ late[c][s] = 0
          /\ late' = IF MayAct(c) THEN late
                     ELSE [late EXCEPT ![c][s] = late[c][s] + 1]
      BY <1>2 DEF ApplyFix, LateBounded
    <2>2. Elsewhere
      BY ZenonT(60), <1>2, <1>t, <1>s DEF ApplyFix, Job
    <2>3. \A r \in Scorers : At(r, "fix")' =>
              /\ r # s /\ At(r, "fix") /\ Account(r)' = Account(r)
      <3>1. job'[s].pc = "judge"
        BY <1>2, <1>t DEF ApplyFix, Job
      <3>2. QED
        BY <2>2, <3>1 DEF At, Account, Truth
    <2>4. ASSUME NEW k \in AutoFix, NEW r \in Scorers
          PROVE  /\ r # s => late'[k][r] = late[k][r]
                 /\ late'[k][r] <= 1
                 /\ MayAct(k)' => late'[k][r] = 0
      <3>1. MayAct(k)' <=> MayAct(k)
        BY <2>1 DEF MayAct, tables
      <3>2. late[k][r] \in Nat /\ late[k][r] <= 1
        BY <1>t DEF LateBounded, OneLateFix
      <3>3. CASE MayAct(c)
        BY <2>1, <3>1, <3>2, <3>3 DEF LateBounded
      <3>4. CASE ~MayAct(c)
        <4>1. late'[k][r] = IF k = c /\ r = s THEN 1 ELSE late[k][r]
          BY <1>t, <2>1, <3>4
        <4>2. QED
          BY <3>1, <3>2, <3>4, <4>1 DEF LateBounded
      <3>5. QED
        BY <3>3, <3>4
    <2>5. QED
      BY <2>3, <2>4 DEF LateBounded, OneLateFix
  <1>3. ASSUME NEW s \in Scorers,
               \/ \E e \in Episodes : Start(s, e)
               \/ \E stub \in Classes \cup {Unclassified},
                     llm \in Classes \cup {Nothing}, primary \in BOOLEAN :
                        Diagnose(s, stub, llm, primary)
               \/ \E proposal \in Proposals : Propose(s, proposal)
               \/ \E confirmed \in BOOLEAN : Judge(s, confirmed)
               \/ RecordFailure(s) \/ BreakerHolds(s)
               \/ \E c \in Classes : ResetDiagnoser(s, c)
               \/ ResetAction(s) \/ ClearAllSafetyHolds(s)
               \/ InsertScore(s) \/ ReadTrust(s) \/ RecordMisdispatch(s)
               \/ ReadMode(s) \/ WriteMode(s) \/ ReadAction(s)
               \/ WriteAction(s) \/ Kill(s)
        PROVE  LateBounded'
    <2>1. UNCHANGED <<trustState, safetyHold, late>>
      BY ZenonT(60), <1>3 DEF Start, Diagnose, Propose, Judge, RecordFailure,
         BreakerHolds, ResetDiagnoser, ResetAction, ClearAllSafetyHolds,
         InsertScore, ReadTrust, RecordMisdispatch, ReadMode, WriteMode,
         ReadAction, WriteAction, Kill, tables, ghosts
    <2>2. Elsewhere
      <3>1. CASE \/ \E e \in Episodes : Start(s, e)
                 \/ \E stub \in Classes \cup {Unclassified},
                       llm \in Classes \cup {Nothing}, primary \in BOOLEAN :
                          Diagnose(s, stub, llm, primary)
        <4>1. ASSUME NEW e \in Episodes, Start(s, e) PROVE Elsewhere
          <5>1. [Idle EXCEPT !.pc = "diagnose", !.ep = e].pc # "fix"
            BY DEF Idle
          <5>2. QED
            BY <4>1, <5>1, <1>s DEF Start
        <4>2. ASSUME NEW stub \in Classes \cup {Unclassified},
                     NEW llm \in Classes \cup {Nothing},
                     NEW primary \in BOOLEAN,
                     Diagnose(s, stub, llm, primary)
              PROVE  Elsewhere
          <5>1. job'[s].pc # "fix" /\ \A r \in Scorers : r # s =>
                    job'[r] = job[r]
            BY <4>2, <1>t DEF Diagnose, Job
          <5>2. QED
            BY <5>1 DEF At
        <4>3. QED
          BY <3>1, <4>1, <4>2
      <3>2. ASSUME NEW proposal \in Proposals, Propose(s, proposal)
            PROVE  Elsewhere
        <4>1. job'[s].pc # "fix" /\ \A r \in Scorers : r # s =>
                  job'[r] = job[r]
          BY <3>2, <1>t DEF Propose, Job
        <4>2. QED
          BY <4>1 DEF At
      <3>3. ASSUME NEW confirmed \in BOOLEAN, Judge(s, confirmed)
            PROVE  Elsewhere
        <4>1. job'[s].pc # "fix" /\ \A r \in Scorers : r # s =>
                  job'[r] = job[r]
          <5>1. CASE job[s].fix # Nothing
            BY <3>3, <5>1, <1>t DEF Judge, Job
          <5>2. CASE job[s].fix = Nothing
            BY <3>3, <5>2, <1>t DEF Judge, Job
          <5>3. QED
            BY <5>1, <5>2
        <4>2. QED
          BY <4>1 DEF At
      <3>4. CASE RecordFailure(s) \/ BreakerHolds(s) \/ ClearAllSafetyHolds(s)
        <4>1. job'[s].pc # "fix" /\ \A r \in Scorers : r # s =>
                  job'[r] = job[r]
          BY <3>4, <1>t DEF RecordFailure, BreakerHolds, ClearAllSafetyHolds,
                            Job
        <4>2. QED
          BY <4>1 DEF At
      <3>5. CASE ResetAction(s) \/ \E c \in Classes : ResetDiagnoser(s, c)
        <4>1. job'[s].pc # "fix" /\ \A r \in Scorers : r # s =>
                  job'[r] = job[r]
          <5>1. CASE ResetAction(s)
            BY ZenonT(60), <5>1, <1>t DEF ResetAction, Job
          <5>2. CASE \E c \in Classes : ResetDiagnoser(s, c)
            BY ZenonT(90), <5>2, <1>t DEF ResetDiagnoser, Job
          <5>3. QED
            BY <3>5, <5>1, <5>2
        <4>2. QED
          BY <4>1 DEF At
      <3>6. CASE InsertScore(s) \/ RecordMisdispatch(s)
        <4>1. job'[s].pc # "fix" /\ \A r \in Scorers : r # s =>
                  job'[r] = job[r]
          BY ZenonT(60), <3>6, <1>t, <1>i DEF InsertScore, RecordMisdispatch, Job
        <4>2. QED
          BY <4>1 DEF At
      <3>7. CASE ReadTrust(s) \/ ReadMode(s) \/ WriteMode(s)
        <4>1. job'[s].pc # "fix" /\ \A r \in Scorers : r # s =>
                  job'[r] = job[r]
          <5>1. CASE ReadTrust(s)
            BY ZenonT(60), <5>1, <1>t, <1>i DEF ReadTrust, Job
          <5>2. CASE ReadMode(s)
            BY ZenonT(60), <5>2, <1>t DEF ReadMode, Job
          <5>3. CASE WriteMode(s)
            BY ZenonT(60), <5>3, <1>t DEF WriteMode, Job
          <5>4. QED
            BY <3>7, <5>1, <5>2, <5>3
        <4>2. QED
          BY <4>1 DEF At
      <3>8. CASE ReadAction(s) \/ WriteAction(s) \/ Kill(s)
        <4>1. job'[s].pc # "fix" /\ \A r \in Scorers : r # s =>
                  job'[r] = job[r]
          BY ZenonT(60), <3>8, <1>t, <1>i DEF ReadAction, WriteAction, Kill, Job
        <4>2. QED
          BY <4>1 DEF At
      <3>9. QED
        BY <1>3, <3>1, <3>2, <3>3, <3>4, <3>5, <3>6, <3>7, <3>8
    <2>3. NoGain
      BY <2>1 DEF MayAct
    <2>4. QED
      BY <2>1, <2>2, <2>3, LateKept
  \* Trust or a hold changes hands.
  <1>4. ASSUME NEW s \in Scorers, BreakerTrips(s) \/ SetSafetyHold(s)
        PROVE  LateBounded'
    <2>1. Elsewhere
      <3>1. job'[s].pc # "fix" /\ \A r \in Scorers : r # s =>
                job'[r] = job[r]
        <4>1. CASE BreakerTrips(s)
          BY ZenonT(60), <4>1, <1>t DEF BreakerTrips, Job
        <4>2. CASE SetSafetyHold(s)
          BY ZenonT(60), <4>2, <1>t DEF SetSafetyHold, Job
        <4>3. QED
          BY <1>4, <4>1, <4>2
      <3>2. QED
        BY <3>1 DEF At
    <2>2. late' = late
      BY <1>4 DEF BreakerTrips, SetSafetyHold, ghosts
    <2>3. NoGain
      <3>1. CASE BreakerTrips(s)
        BY <3>1 DEF BreakerTrips, TripTrust, MayAct, Row, CAN_ACT, REPORT_ONLY
      <3>2. CASE SetSafetyHold(s)
        BY <3>2 DEF SetSafetyHold, HoldAfter, MayAct
      <3>3. QED
        BY <1>4, <3>1, <3>2
    <2>4. QED
      BY <2>1, <2>2, <2>3, LateKept
  <1>5. ASSUME NEW s \in Scorers,
               WriteTrust(s) \/ \E c \in Classes : ReleaseHold(s, c)
        PROVE  LateBounded'
    <2>1. Elsewhere
      <3>1. job'[s].pc # "fix" /\ \A r \in Scorers : r # s =>
                job'[r] = job[r]
        <4>1. CASE WriteTrust(s)
          BY ZenonT(60), <4>1, <1>t DEF WriteTrust, Job
        <4>2. CASE \E c \in Classes : ReleaseHold(s, c)
          BY ZenonT(150), <4>2, <1>t DEF ReleaseHold, Job
        <4>3. QED
          BY <1>5, <4>1, <4>2
      <3>2. QED
        BY <3>1 DEF At
    <2>2. late' = LateAfter(trustState', safetyHold')
      <3>1. CASE WriteTrust(s)
        BY <3>1 DEF WriteTrust
      <3>2. CASE \E c \in Classes : ReleaseHold(s, c)
        BY <3>2 DEF ReleaseHold
      <3>3. QED
        BY <1>5, <3>1, <3>2
    <2>3. QED
      BY <2>1, <2>2, LateKept
  <1>6. ASSUME NEW c \in AutoFix, Promote(c) \/ Demote(c) \/ ClearSafetyHold(c)
        PROVE  LateBounded'
    <2>1. Elsewhere
      BY <1>6 DEF Promote, Demote, ClearSafetyHold
    <2>2. CASE Promote(c) \/ ClearSafetyHold(c)
      <3>1. late' = LateAfter(trustState', safetyHold')
        <4>1. CASE Promote(c)
          BY <4>1 DEF Promote
        <4>2. CASE ClearSafetyHold(c)
          BY <4>2 DEF ClearSafetyHold
        <4>3. QED
          BY <2>2, <4>1, <4>2
      <3>2. QED
        BY <2>1, <3>1, LateKept
    <2>3. CASE Demote(c)
      <3>1. late' = late
        BY <2>3 DEF Demote
      <3>2. NoGain
        BY <2>3 DEF Demote, MayAct, ScorerInv, TypeOK, TablesType, Row, CAN_ACT,
                    REPORT_ONLY
      <3>3. QED
        BY <2>1, <3>1, <3>2, LateKept
    <2>4. QED
      BY <1>6, <2>2, <2>3
  <1>7. CASE UNCHANGED <<job, trustState, safetyHold, late>>
    BY <1>7, LateKept DEF At, MayAct
  <1>8. CASE \/ FailureExpires \/ UNCHANGED vars
             \/ \E c \in AutoFix : MisdispatchExpires(c)
    BY <1>7, <1>8 DEF FailureExpires, MisdispatchExpires, vars, tables, ghosts
  <1>9. QED
    BY <1>1, <1>2, <1>3, <1>4, <1>5, <1>6, <1>8 DEF Next, Step

\* The tables may change under a fix that is on its way, and it goes out all
\* the same; but until the class may act again no process sends a second one,
\* however many scorers run and are killed (/act's fresh re-check).
THEOREM LateFixesEnd == Spec => []OneLateFix
  <1>1. Init => LateBounded
    <2> SUFFICES ASSUME Init PROVE LateBounded
      OBVIOUS
    <2>1. \A s \in Scorers : ~At(s, "fix")
      BY DEF Init, At, Idle
    <2>2. QED
      BY <2>1 DEF Init, LateBounded, OneLateFix
  <1>2. ScorerInv /\ LateBounded /\ [Next]_vars => LateBounded'
    BY LateStep
  <1>3. LateBounded => OneLateFix
    BY DEF LateBounded
  <1>4. QED
    BY <1>1, <1>2, <1>3, ScorerInvariant, PTL DEF Spec

-----------------------------------------------------------------------------
(* The misdispatch guard is owed a row, and gets it.                       *)

\* Unless a scorer was killed, every episode still owed a misdispatch_log
\* row is in the hands of a process that will write it.
GuardIsOwed ==
    kills = 0 => \A e \in unlogged :
        Actual[e] \in AutoFix =>
            \E s \in Scorers :
                /\ job[s].ep = e
                /\ job[s].pc \in {"readA", "writeA", "misdispatch"}
                /\ job[s].fix # Nothing
                /\ job[s].predicted # Actual[e]
                /\ job[s].predicted \in AutoFix

LEMMA GuardStep ==
    ASSUME ScorerInv, GuardIsOwed, [Next]_vars
    PROVE  GuardIsOwed'
  <1> DEFINE Owes(j, e) ==
                /\ j.ep = e
                /\ j.pc \in {"readA", "writeA", "misdispatch"}
                /\ j.fix # Nothing
                /\ j.predicted # Actual[e]
                /\ j.predicted \in AutoFix
  <1>t. job \in [Scorers -> Job] /\ kills \in Nat
    BY ScorerAssumption DEF ScorerInv, TypeOK
  <1>u. CASE UNCHANGED <<job, unlogged, kills>>
    BY <1>u DEF GuardIsOwed
  <1>1. ASSUME NEW s \in Scorers,
               Step(s) \/ Kill(s) \/ \E e \in Episodes : Start(s, e),
               kills' = 0, NEW e \in unlogged', Actual[e] \in AutoFix
        PROVE  \E r \in Scorers : Owes(job'[r], e)
    <2>a. ~Kill(s)
      BY <1>1, <1>t DEF Kill
    <2>b. kills' = kills
      BY ZenonT(60), <1>1, <2>a DEF Step, Diagnose, Propose, Dispatch, ApplyFix,
         Judge, RecordFailure, BreakerHolds, BreakerTrips, ResetDiagnoser, ResetAction, ReleaseHold,
         ClearAllSafetyHolds, InsertScore, ReadTrust, WriteTrust,
         RecordMisdispatch, SetSafetyHold, ReadMode, WriteMode, ReadAction, WriteAction,
         Start, bounds
    <2>k. kills = 0 /\ ~Kill(s)
      BY <1>1, <2>a, <2>b
    <2>1. CASE e \notin unlogged
      <3>1. InsertScore(s) /\ e = job[s].ep
        BY ZenonT(60), <1>1, <2>1, <2>k DEF Step, Diagnose, Propose, Dispatch,
           ApplyFix, Judge, RecordFailure, BreakerHolds, BreakerTrips, ResetDiagnoser, ResetAction, ReleaseHold,
           ClearAllSafetyHolds, InsertScore, ReadTrust, WriteTrust,
           RecordMisdispatch, SetSafetyHold, ReadMode, WriteMode, ReadAction, WriteAction,
           Start, ghosts
      <3>2. /\ job[s].fix # Nothing /\ job[s].predicted # Actual[e]
            /\ job[s].predicted \in AutoFix
        BY <1>1, <2>1, <3>1 DEF InsertScore, Truth
      <3>3. PICK pc \in {"misdispatch", "readA"} :
              job' = [job EXCEPT ![s].pc = pc]
        BY <1>1, <2>1, <3>1 DEF InsertScore
      <3>4. Owes(job'[s], e)
        BY <1>t, <3>1, <3>2, <3>3 DEF Job
      <3>5. QED
        BY <3>4
    <2>2. CASE e \in unlogged
      <3>1. PICK w \in Scorers : Owes(job[w], e)
        BY <1>1, <2>2, <2>k DEF GuardIsOwed
      <3>2. CASE w # s
        BY <1>1, <3>1, <3>2, OneJob
      <3>3. CASE w = s
        <4>1. ReadTrust(s) \/ WriteTrust(s) \/ RecordMisdispatch(s)
          BY ZenonT(60), <1>1, <2>k, <3>1, <3>3 DEF Step, At, Diagnose, Propose,
             Dispatch, ApplyFix, Judge, SetSafetyHold, RecordFailure, BreakerHolds, BreakerTrips,
             ResetDiagnoser, ResetAction, ReleaseHold, ClearAllSafetyHolds, InsertScore, ReadMode,
             WriteMode, ReadAction, WriteAction, Start
        <4>2. ~RecordMisdispatch(s)
          BY <1>1, <3>1, <3>3 DEF RecordMisdispatch, Truth
        <4>3. CASE ReadTrust(s)
          BY <1>1, <1>t, <3>1, <3>3, <4>3 DEF ReadTrust, Truth, Job
        <4>4. CASE WriteTrust(s)
          BY <1>t, <3>1, <3>3, <4>4 DEF WriteTrust, Job
        <4>5. QED
          BY <4>1, <4>2, <4>3, <4>4
      <3>4. QED
        BY <3>2, <3>3
    <2>3. QED
      BY <2>1, <2>2
  <1>2. ASSUME NEW s \in Scorers,
               Step(s) \/ Kill(s) \/ \E e \in Episodes : Start(s, e)
        PROVE  GuardIsOwed'
    BY <1>1, <1>2 DEF GuardIsOwed
  <1>3. QED
    BY <1>u, <1>2 DEF Next, vars, ghosts, bounds, FailureExpires,
       MisdispatchExpires, ClearSafetyHold, Promote, Demote

\* Whatever the breaker and Dimension A do with the episode on the way, a
\* misdispatch during a fixable fault is logged before its scorer, unless
\* killed, is done with it (record_misdispatch, called by p3_scorer.main).
THEOREM MisdispatchesAreLogged == Spec => []MisdispatchReachesGuard
  <1>1. Init => GuardIsOwed
    BY DEF Init, GuardIsOwed
  <1>2. ScorerInv /\ GuardIsOwed /\ [Next]_vars => GuardIsOwed'
    BY GuardStep
  <1>3. GuardIsOwed => MisdispatchReachesGuard
    BY DEF GuardIsOwed, MisdispatchReachesGuard
  <1>4. QED
    BY <1>1, <1>2, <1>3, ScorerInvariant, PTL DEF Spec

-----------------------------------------------------------------------------
(* With one writer of trust_state at a time (the system lock's promise,    *)
(* and an operator who waits for it), trust is earned and a trip is        *)
(* complete.  Neither holds without: a lost update revives trust a trip or *)
(* a demotion took.                                                        *)

\* One process is at work; the row it will write back is still the table's;
\* an untouched row records no more than was earned; and what a trip has
\* reset so far stays reset.
OneWriter ==
    /\ \A r, s \in Scorers : ~At(r, "idle") /\ ~At(s, "idle") => r = s
    /\ \A s \in Scorers : At(s, "writeA") => job[s].row = trustState[Truth(s)]

Backed ==
    \A c \in AutoFix :
        /\ trustState[c].state = CAN_ACT
              => trustState[c].streak >= PromotionStreak
        /\ c \notin granted => trustState[c].streak <= earned[c]

Tripping == {"reset", "resetAction", "clearHolds", "release"}

\* The classes a trip has still to reset, in B and in C.
Due(j) == IF j.pc \in {"reset", "resetAction"} THEN j.todo ELSE {}
DueAction(j) == IF j.pc = "resetAction" THEN j.todo \cup {j.under} ELSE Due(j)

TripSticks ==
    \A s \in Scorers : job[s].pc \in Tripping =>
        /\ \A c \in AutoFix : trustState[c].state = REPORT_ONLY
        /\ \A c \in Classes \ Due(job[s]) : diagnoserMode[c] = Row(STUB, 0)
        /\ \A c \in AutoFix \ DueAction(job[s]) :
              actionTrust[c] = Row(DETERMINISTIC_FALLBACK, 0)

ExclusiveInv == Exclusive => OneWriter /\ Backed /\ TripSticks

\* The steps of a process that leave the three trust tables alone, and where
\* they can take it.
LEMMA ExclusiveQuiet ==
    ASSUME ScorerInv, ExclusiveInv, Exclusive, NEW s \in Scorers,
           NEW j \in Job, job' = [job EXCEPT ![s] = j],
           ~At(s, "idle") \/ \A r \in Scorers : At(r, "idle"),
           j.pc \notin Tripping,
           j.pc = "writeA" => j.row = trustState[Actual[j.ep]],
           UNCHANGED <<trustState, diagnoserMode, actionTrust, earned, granted>>
    PROVE  ExclusiveInv'
  <1>1. /\ job \in [Scorers -> Job] /\ job'[s] = j
        /\ \A r \in Scorers : r # s => job'[r] = job[r] /\ At(r, "idle")
    BY DEF ScorerInv, TypeOK, ExclusiveInv, OneWriter
  <1>2. OneWriter'
    BY <1>1 DEF OneWriter, At, Truth
  <1>3. Backed'
    BY DEF ExclusiveInv, Backed
  <1>4. TripSticks'
    BY <1>1 DEF TripSticks, Tripping, At
  <1>5. QED
    BY <1>2, <1>3, <1>4 DEF ExclusiveInv

LEMMA ExclusiveStep ==
    ASSUME ScorerInv, ExclusiveInv, [Next]_vars
    PROVE  ExclusiveInv'
  <1> SUFFICES ASSUME Exclusive PROVE ExclusiveInv'
    BY DEF ExclusiveInv
  <1> USE DEF ScorerInv
  <1>t. /\ job \in [Scorers -> Job]
        /\ job' \in [Scorers -> Job]
        /\ trustState \in [AutoFix -> TrustRow]
        /\ diagnoserMode \in [Classes -> ModeRow]
        /\ actionTrust \in [AutoFix -> ActionRow]
        /\ earned \in [AutoFix -> Nat]
    BY ScorerStep DEF TypeOK, TablesType
  <1>x. OneWriter /\ Backed /\ TripSticks
    BY DEF ExclusiveInv
  <1>1. ASSUME NEW s \in Scorers,
               Step(s) \/ Kill(s) \/ \E e \in Episodes : Start(s, e),
               UNCHANGED <<trustState, diagnoserMode, actionTrust, earned,
                           granted>>,
               job'[s].pc \notin Tripping,
               job'[s].pc = "writeA" =>
                   job'[s].row = trustState[Actual[job'[s].ep]]
        PROVE  ExclusiveInv'
    <2>1. ~At(s, "idle") \/ \A r \in Scorers : At(r, "idle")
      BY <1>1 DEF Step, At, Diagnose, Propose, Dispatch, ApplyFix, Judge,
         RecordFailure, BreakerHolds, BreakerTrips, ResetDiagnoser,
         ResetAction, ClearAllSafetyHolds, ReleaseHold, InsertScore,
         ReadTrust, WriteTrust, RecordMisdispatch, SetSafetyHold, ReadMode, WriteMode, ReadAction, WriteAction,
         Start, Kill
    <2>2. job' = [job EXCEPT ![s] = job'[s]]
      BY <1>t, <1>1, OneJob
    <2>3. QED
      BY <1>t, <1>1, <2>1, <2>2, ExclusiveQuiet
  <1>i. Idle.pc = "idle"
    BY DEF Idle
  \* Steps of a process that leave the three tables alone.
  <1>2. ASSUME NEW s \in Scorers,
               \/ Kill(s) \/ \E e \in Episodes : Start(s, e)
               \/ \E stub \in Classes \cup {Unclassified},
                     llm \in Classes \cup {Nothing}, primary \in BOOLEAN :
                        Diagnose(s, stub, llm, primary)
               \/ \E proposal \in Proposals : Propose(s, proposal)
               \/ Dispatch(s)
               \/ \E applied \in BOOLEAN : ApplyFix(s, applied)
               \/ \E confirmed \in BOOLEAN : Judge(s, confirmed)
               \/ RecordFailure(s) \/ BreakerHolds(s) \/ InsertScore(s)
               \/ RecordMisdispatch(s) \/ SetSafetyHold(s) \/ ReadMode(s) \/ ReadAction(s)
        PROVE  ExclusiveInv'
    <2>1. UNCHANGED <<trustState, diagnoserMode, actionTrust, earned, granted>>
      BY <1>2 DEF Kill, Start, Diagnose, Propose, Dispatch, ApplyFix, Judge,
         RecordFailure, BreakerHolds, InsertScore, RecordMisdispatch,
         SetSafetyHold, ReadMode, ReadAction, tables, ghosts
    <2> DEFINE Elsewhere == job'[s].pc \notin {"reset", "resetAction",
                                           "clearHolds", "release", "writeA"}
    <2>2. Elsewhere
      <3>1. CASE Kill(s) \/ ReadAction(s) \/ ReadMode(s)
        <4>1. CASE Kill(s)
          BY <4>1, <1>t, <1>i DEF Kill
        <4>2. CASE ReadAction(s)
          BY <4>2, <1>t, <1>i DEF ReadAction, Job
        <4>3. CASE ReadMode(s)
          BY <4>3, <1>t DEF ReadMode, Job
        <4>4. QED
          BY <3>1, <4>1, <4>2, <4>3
      <3>2. ASSUME NEW e \in Episodes, Start(s, e) PROVE Elsewhere
        <4>1. [Idle EXCEPT !.pc = "diagnose", !.ep = e].pc = "diagnose"
          BY DEF Idle
        <4>2. QED
          BY <3>2, <1>t, <4>1 DEF Start
      <3>3. CASE \E stub \in Classes \cup {Unclassified},
                    llm \in Classes \cup {Nothing}, primary \in BOOLEAN :
                       Diagnose(s, stub, llm, primary)
        BY <3>3, <1>t DEF Diagnose, Job
      <3>4. CASE \/ \E proposal \in Proposals : Propose(s, proposal)
                 \/ \E applied \in BOOLEAN : ApplyFix(s, applied)
                 \/ Dispatch(s)
        <4>1. CASE \E proposal \in Proposals : Propose(s, proposal)
          BY <4>1, <1>t DEF Propose, Job
        <4>2. CASE \E applied \in BOOLEAN : ApplyFix(s, applied)
          BY <4>2, <1>t DEF ApplyFix, Job
        <4>3. CASE Dispatch(s)
          BY <4>3, <1>t DEF Dispatch, Job
        <4>4. QED
          BY <3>4, <4>1, <4>2, <4>3
      <3>5. ASSUME NEW confirmed \in BOOLEAN, Judge(s, confirmed) PROVE Elsewhere
        <4>1. CASE job[s].fix # Nothing
          BY <3>5, <4>1, <1>t DEF Judge, Job
        <4>2. CASE job[s].fix = Nothing
          BY <3>5, <4>2, <1>t DEF Judge, Job
        <4>3. QED
          BY <4>1, <4>2
      <3>6. CASE RecordFailure(s) \/ BreakerHolds(s)
        BY <3>6, <1>t DEF RecordFailure, BreakerHolds, Job
      <3>7. CASE InsertScore(s)
        BY <3>7, <1>t, <1>i DEF InsertScore, Job
      <3>8. CASE RecordMisdispatch(s) \/ SetSafetyHold(s)
        <4>1. CASE RecordMisdispatch(s)
          <5> DEFINE j1 == [job[s] EXCEPT !.pc = "readB", !.predicted = Nothing,
                               !.fix = Nothing, !.source = "none",
                               !.verdict = "none"]
                     j2 == [job[s] EXCEPT !.pc = "hold", !.fix = Nothing,
                               !.source = "none", !.verdict = "none"]
          <5>1. job' = [job EXCEPT ![s] = j1] \/ job' = [job EXCEPT ![s] = j2]
            BY <4>1 DEF RecordMisdispatch
          <5>2. j1.pc = "readB" /\ j2.pc = "hold"
            BY <1>t DEF Job
          <5> HIDE DEF j1, j2
          <5>3. QED
            BY <1>t, <5>1, <5>2
        <4>2. CASE SetSafetyHold(s)
          BY <4>2, <1>t DEF SetSafetyHold, Job
        <4>3. QED
          BY <3>8, <4>1, <4>2
      <3>9. QED
        BY <1>2, <3>1, <3>2, <3>3, <3>4, <3>5, <3>6, <3>7, <3>8
    <2> HIDE DEF Elsewhere
    <2>4. job'[s].pc \notin Tripping /\ job'[s].pc # "writeA"
      BY <2>2 DEF Elsewhere, Tripping
    <2>3. QED
      BY <1>1, <1>2, <2>1, <2>4 DEF Step
  <1>3. ASSUME NEW s \in Scorers, ReadTrust(s)
        PROVE  ExclusiveInv'
    <2>1. UNCHANGED <<trustState, diagnoserMode, actionTrust, earned, granted>>
      BY <1>3 DEF ReadTrust, tables, ghosts
    <2>2. /\ job'[s].pc \in {"writeA", "idle"}
          /\ job'[s].pc = "writeA" => /\ job'[s].row = trustState[Truth(s)]
                                      /\ job'[s].ep = job[s].ep
      BY <1>3, <1>t, <1>i DEF ReadTrust, Job
    <2>3. QED
      BY <1>1, <1>3, <2>1, <2>2 DEF Step, Truth, Tripping
  \* Only one process runs.
  <1>o. ASSUME NEW s \in Scorers, Step(s), job[s].pc # "idle"
        PROVE  \A r \in Scorers : r # s => job'[r].pc = "idle"
    BY <1>o, <1>x, OneJob DEF OneWriter, At
  <1>4. ASSUME NEW s \in Scorers, WriteMode(s) \/ WriteAction(s)
        PROVE  ExclusiveInv'
    <2>1. /\ UNCHANGED <<trustState, earned, granted>>
          /\ job[s].pc # "idle" /\ job'[s].pc \in {"readC", "idle"}
      <3>1. CASE WriteMode(s)
        BY <3>1, <1>t DEF WriteMode, At, Job
      <3>2. CASE WriteAction(s)
        BY <3>2, <1>t, <1>i DEF WriteAction, At
      <3>3. QED
        BY <1>4, <3>1, <3>2
    <2>2. \A r \in Scorers : r # s => job'[r].pc = "idle"
      BY <1>4, <1>o, <2>1 DEF Step
    <2>3. QED
      BY <1>x, <2>1, <2>2
         DEF ExclusiveInv, OneWriter, Backed, TripSticks, Tripping, At
  <1>5. ASSUME NEW s \in Scorers, WriteTrust(s)
        PROVE  ExclusiveInv'
    <2> DEFINE c == Truth(s)
               correct == job[s].verdict = "correct"
               new == RecordOutcome(trustState[c], correct)
    <2>1. /\ job[s].pc = "writeA" /\ c \in AutoFix
          /\ job[s].row = trustState[c]
          /\ job'[s].pc = "misdispatch"
      BY <1>5, <1>t, <1>x DEF WriteTrust, At, JobsFit, OneWriter, Job
    <2>2. /\ trustState' = [trustState EXCEPT ![c] = new]
          /\ earned' = [earned EXCEPT ![c] =
                           IF correct THEN earned[c] + 1 ELSE 0]
          /\ granted' = IF correct THEN granted ELSE granted \ {c}
      BY <1>5, <2>1 DEF WriteTrust
    <2>3. \A r \in Scorers : r # s => job'[r].pc = "idle"
      BY <1>5, <1>o, <2>1 DEF Step
    <2>4. /\ new.streak = IF correct THEN trustState[c].streak + 1 ELSE 0
          /\ new.state = CAN_ACT => new.streak >= PromotionStreak
          /\ trustState[c].streak \in Nat /\ PromotionStreak \in Nat
      BY <1>t, <1>x, <2>1, TablesAssumption
         DEF RecordOutcome, Row, TrustRow, Backed, CAN_ACT, REPORT_ONLY
    <2> HIDE DEF new, correct
    <2>5. Backed'
      <3>1. ASSUME NEW k \in AutoFix, k # c
            PROVE  /\ trustState'[k] = trustState[k] /\ earned'[k] = earned[k]
                   /\ k \in granted <=> k \in granted'
        BY <1>t, <2>2, <3>1
      <3>2. /\ trustState'[c] = new
            /\ earned'[c] = IF correct THEN earned[c] + 1 ELSE 0
            /\ correct => granted' = granted
        BY <1>t, <2>1, <2>2
      <3>3. c \notin granted => trustState[c].streak <= earned[c]
        BY <1>x, <2>1 DEF Backed
      <3>4. earned[c] \in Nat
        BY <1>t, <2>1
      <3>5. /\ trustState'[c].state = CAN_ACT
                 => trustState'[c].streak >= PromotionStreak
            /\ c \notin granted' => trustState'[c].streak <= earned'[c]
        BY <2>4, <3>2, <3>3, <3>4
      <3>6. QED
        BY <1>x, <3>1, <3>5 DEF Backed
    <2>6. OneWriter' /\ TripSticks'
      BY <2>1, <2>3 DEF OneWriter, TripSticks, Tripping, At
    <2>7. QED
      BY <2>5, <2>6 DEF ExclusiveInv
  <1>6. ASSUME NEW s \in Scorers, BreakerTrips(s)
        PROVE  ExclusiveInv'
    <2>1. /\ job[s].pc = "breaker" /\ job'[s].pc = "reset"
          /\ job'[s].todo = Classes
      BY <1>6, <1>t DEF BreakerTrips, At, Job
    <2>2. \A r \in Scorers : r # s => job'[r].pc = "idle"
      BY <1>6, <1>o, <2>1 DEF Step
    <2>3. \A c \in AutoFix :
             /\ trustState'[c] = IF trustState[c].state = CAN_ACT
                                 THEN Row(REPORT_ONLY, 0) ELSE trustState[c]
             /\ earned'[c] = IF trustState[c].state = CAN_ACT
                             THEN 0 ELSE earned[c]
             /\ c \in granted' <=> c \in granted
                                   /\ trustState[c].state # CAN_ACT
      BY <1>6 DEF BreakerTrips, TripTrust
    <2>4. \A c \in AutoFix : trustState'[c].state = REPORT_ONLY
      BY <2>3, <1>t DEF Row, TrustRow
    <2>5. Backed'
      BY <2>3, <2>4, <1>x DEF Backed, Row, CAN_ACT, REPORT_ONLY
    <2>6. OneWriter'
      BY <2>1, <2>2 DEF OneWriter, At
    <2>7. TripSticks'
      BY <2>1, <2>2, <2>4 DEF TripSticks, Tripping, Due, DueAction, Classes
    <2>8. QED
      BY <2>5, <2>6, <2>7 DEF ExclusiveInv
  <1>7. ASSUME NEW s \in Scorers, NEW c \in Classes, ResetDiagnoser(s, c)
        PROVE  ExclusiveInv'
    <2>1. /\ job[s].pc = "reset" /\ job'[s].pc = "resetAction"
          /\ job'[s].todo = job[s].todo \ {c} /\ job'[s].under = c
      BY <1>7, <1>t DEF ResetDiagnoser, At, Job
    <2>2. \A r \in Scorers : r # s => job'[r].pc = "idle"
      BY <1>7, <1>o, <2>1 DEF Step
    <2>3. UNCHANGED <<trustState, actionTrust, earned, granted>>
      BY <1>7 DEF ResetDiagnoser, ghosts
    <2>4. diagnoserMode' = [diagnoserMode EXCEPT ![c] = Row(STUB, 0)]
      BY <1>7 DEF ResetDiagnoser, SafeMode
    <2>5. TripSticks'
      BY <2>1, <2>2, <2>3, <2>4, <1>t, <1>x
         DEF TripSticks, Tripping, Due, DueAction
    <2>6. OneWriter'
      BY <2>1, <2>2 DEF OneWriter, At
    <2>7. Backed'
      BY <2>3, <1>x DEF Backed
    <2>8. QED
      BY <2>5, <2>6, <2>7 DEF ExclusiveInv
  <1>12. ASSUME NEW s \in Scorers, ResetAction(s)
         PROVE  ExclusiveInv'
    <2>1. /\ job[s].pc = "resetAction" /\ job'[s].pc \in {"reset", "clearHolds"}
          /\ job'[s].todo = job[s].todo
          /\ job'[s].pc = "clearHolds" => job[s].todo = {}
      BY <1>12, <1>t DEF ResetAction, At, Job
    <2>2. \A r \in Scorers : r # s => job'[r].pc = "idle"
      BY <1>12, <1>o, <2>1 DEF Step
    <2>3. UNCHANGED <<trustState, diagnoserMode, earned, granted>>
      BY <1>12 DEF ResetAction, ghosts
    <2>4. actionTrust' = [k \in AutoFix |->
              IF k = job[s].under THEN Row(DETERMINISTIC_FALLBACK, 0)
                                  ELSE actionTrust[k]]
      BY <1>12 DEF ResetAction, SafeAction
    <2>5. TripSticks'
      BY <2>1, <2>2, <2>3, <2>4, <1>t, <1>x
         DEF TripSticks, Tripping, Due, DueAction
    <2>6. OneWriter'
      BY <2>1, <2>2 DEF OneWriter, At
    <2>7. Backed'
      BY <2>3, <1>x DEF Backed
    <2>8. QED
      BY <2>5, <2>6, <2>7 DEF ExclusiveInv
  <1>13. ASSUME NEW s \in Scorers,
                \/ ClearAllSafetyHolds(s)
                \/ \E c \in Classes : ReleaseHold(s, c)
         PROVE  ExclusiveInv'
    <2>1. /\ job[s].pc \in {"clearHolds", "release"}
          /\ job'[s].pc \in {"score", "release"}
      <3>1. CASE ClearAllSafetyHolds(s)
        BY <3>1, <1>t DEF ClearAllSafetyHolds, At, Job
      <3>2. CASE \E c \in Classes : ReleaseHold(s, c)
        <4>1. PICK c \in Classes : ReleaseHold(s, c)
          BY <3>2
        <4>2. QED
          BY <4>1, <1>t DEF ReleaseHold, At, Job
      <3>3. QED
        BY <1>13, <3>1, <3>2
    <2>2. \A r \in Scorers : r # s => job'[r].pc = "idle"
      BY <1>13, <1>o, <2>1 DEF Step
    <2>3. UNCHANGED <<trustState, diagnoserMode, actionTrust, earned, granted>>
      BY <1>13 DEF ClearAllSafetyHolds, ReleaseHold, tables, ghosts
    <2>4. TripSticks'
      BY <2>1, <2>2, <2>3, <1>x DEF TripSticks, Tripping, Due, DueAction
    <2>5. OneWriter'
      BY <2>1, <2>2 DEF OneWriter, At
    <2>6. Backed'
      BY <2>3, <1>x DEF Backed
    <2>7. QED
      BY <2>4, <2>5, <2>6 DEF ExclusiveInv
  <1>8. ASSUME NEW c \in AutoFix, Promote(c) \/ Demote(c)
        PROVE  ExclusiveInv'
    <2>1. /\ \/ /\ trustState' = [trustState EXCEPT ![c] =
                                     Row(CAN_ACT, PromotionStreak)]
                /\ granted' = granted \cup {c} /\ earned' = earned
             \/ /\ trustState' = [trustState EXCEPT ![c] = Row(REPORT_ONLY, 0)]
                /\ granted' = granted \ {c}
                /\ earned' = [earned EXCEPT ![c] = 0]
          /\ UNCHANGED <<job, diagnoserMode, actionTrust>>
          /\ \A s \in Scorers :
                job[s].pc \notin Tripping \cup {"writeA"}
      BY <1>8 DEF Promote, Demote, Overriding, Tripping
    <2>2. Backed'
      BY <2>1, <1>t, <1>x, TablesAssumption
         DEF Backed, Row, CAN_ACT, REPORT_ONLY
    <2>3. OneWriter' /\ TripSticks'
      BY <2>1, <1>x DEF OneWriter, TripSticks, At
    <2>4. QED
      BY <2>2, <2>3 DEF ExclusiveInv
  <1>9. CASE UNCHANGED <<job, trustState, diagnoserMode, actionTrust, earned,
                         granted>>
    BY <1>9, <1>x DEF ExclusiveInv, OneWriter, Backed, TripSticks, At, Truth
  <1>10. CASE \/ FailureExpires \/ UNCHANGED vars
              \/ \E c \in AutoFix : MisdispatchExpires(c) \/ ClearSafetyHold(c)
    BY <1>9, <1>10 DEF FailureExpires, MisdispatchExpires, ClearSafetyHold,
       vars, tables, ghosts
  <1>11. QED
    BY <1>2, <1>3, <1>4, <1>5, <1>6, <1>7, <1>8, <1>10, <1>12, <1>13
       DEF Next, Step

LEMMA ExclusiveInit == Init => ExclusiveInv
  <1> SUFFICES ASSUME Init PROVE OneWriter /\ Backed /\ TripSticks
    BY DEF ExclusiveInv
  <1>1. OneWriter /\ TripSticks
    BY DEF Init, OneWriter, TripSticks, Tripping, At, Idle
  <1>2. Backed
    BY TablesAssumption DEF Init, Backed, Row, CAN_ACT, REPORT_ONLY
  <1>3. QED
    BY <1>1, <1>2

\* Where no two writers of trust_state overlap, autonomy is earned: a class
\* that may act has a full streak of correct outcomes behind it since it last
\* lost its trust, or an operator's promotion, through every kill, trip,
\* demotion and promotion (record_outcome, check_circuit_breaker, /promote,
\* /demote).
THEOREM AutonomyIsEarned == Spec => [](Exclusive => EarnedAutonomy)
  <1>1. ScorerInv /\ ExclusiveInv => (Exclusive => EarnedAutonomy)
    BY TablesAssumption DEF ScorerInv, TypeOK, TablesType, TrustRow,
       ExclusiveInv, Backed, EarnedAutonomy
  <1>2. ScorerInv /\ ExclusiveInv /\ [Next]_vars => ExclusiveInv'
    BY ExclusiveStep
  <1>3. QED
    BY <1>1, <1>2, ExclusiveInit, ScorerInvariant, PTL DEF Spec

\* Where no two writers overlap, a trip is complete: when it drops the holds,
\* its last act, every class of every dimension is back at the safe default
\* (check_circuit_breaker, reset_to_safe_defaults, clear_all_safety_holds).
THEOREM TripIsComplete ==
    ASSUME Exclusive PROVE Spec => TripReachesEveryDimension
  <1> DEFINE A == \A s \in Scorers :
                    /\ job[s].pc \in {"clearHolds", "release"}
                    /\ job'[s].pc = "score"
                    =>
                      /\ \A c \in Classes : diagnoserMode[c] = Row(STUB, 0)
                      /\ \A c \in AutoFix :
                            actionTrust[c] = Row(DETERMINISTIC_FALLBACK, 0)
                      /\ \A c \in AutoFix : trustState[c].state = REPORT_ONLY
  <1>1. ExclusiveInv => A
    BY DEF ExclusiveInv, TripSticks, Tripping, Due, DueAction
  <1>2. ScorerInv /\ ExclusiveInv /\ [Next]_vars => ExclusiveInv'
    BY ExclusiveStep
  <1>3. ExclusiveInv /\ [Next]_vars => [A]_vars
    BY <1>1
  <1>4. QED
    BY <1>2, <1>3, ExclusiveInit, ScorerInvariant, PTL
       DEF Spec, TripReachesEveryDimension
=============================================================================
