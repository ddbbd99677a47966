-------------------------- MODULE RemediationProofs --------------------------
(***************************************************************************)
(* Proofs about applying and judging a fix, for every set of fault classes *)
(* and every number of episodes, scorer runs, pods and polls.              *)
(***************************************************************************)
EXTENDS Remediation, FiniteSetTheorems, SequenceTheorems,
        WellFoundedInduction, TLAPS

\* The parts of RemediationInv that the next two theorems add.
Sound == RemediationInv /\ FixHolds /\ VerdictHonest

-----------------------------------------------------------------------------
(* Sequences of pods and of revisions.                                     *)

LEMMA PodsTyped ==
    ASSUME TypeOK
    PROVE  /\ Len(pods) \in Nat /\ DOMAIN pods = 1..Len(pods)
           /\ DOMAIN pods \subseteq 1..MaxPods /\ MaxPods \in Nat
           /\ \A p \in DOMAIN pods : pods[p] \in Pod
  <1>1. pods \in Seq(Pod) /\ Len(pods) <= MaxPods /\ MaxPods \in Nat
    BY RemediationAssumption DEF TypeOK
  <1>2. /\ Len(pods) \in Nat /\ DOMAIN pods = 1..Len(pods)
        /\ pods \in [1..Len(pods) -> Pod]
    BY <1>1, LenProperties
  <1>3. DOMAIN pods \subseteq 1..MaxPods
    BY <1>1, <1>2
  <1>4. QED
    BY <1>1, <1>2, <1>3

\* A pod moves to a phase with a count of restarts; the others stay.
PodBecomes(p, phase, restarts) ==
    /\ pods' \in Seq(Pod) /\ Len(pods') = Len(pods)
    /\ DOMAIN pods' = DOMAIN pods
    /\ pods'[p].phase = phase /\ pods'[p].restarts = restarts
    /\ \A q \in DOMAIN pods : pods'[q].gen = pods[q].gen
    /\ \A q \in DOMAIN pods : q # p => pods'[q] = pods[q]

LEMMA PodWritten ==
    ASSUME TypeOK, NEW p \in DOMAIN pods, NEW phase \in Phases,
           NEW restarts \in 0..1,
           pods' = [pods EXCEPT ![p].phase = phase, ![p].restarts = restarts]
    PROVE  PodBecomes(p, phase, restarts)
  <1> DEFINE new == [pods[p] EXCEPT !.phase = phase, !.restarts = restarts]
  <1>1. /\ pods \in Seq(Pod) /\ p \in 1..Len(pods)
        /\ pods \in [1..Len(pods) -> Pod]
    BY PodsTyped, LenProperties DEF TypeOK
  <1>2. /\ pods[p] \in Pod /\ new \in Pod
        /\ new.phase = phase /\ new.restarts = restarts
        /\ new.gen = pods[p].gen
    BY <1>1 DEF Pod
  <1>3. pods' = [pods EXCEPT ![p] = new]
    BY <1>1
  <1>4. /\ pods' \in Seq(Pod) /\ Len(pods') = Len(pods)
        /\ \A q \in 1..Len(pods) : pods'[q] = IF q = p THEN new ELSE pods[q]
    <2>1. new \in Pod
      BY <1>2
    <2> HIDE DEF new
    <2>2. /\ [pods EXCEPT ![p] = new] \in Seq(Pod)
          /\ Len([pods EXCEPT ![p] = new]) = Len(pods)
          /\ \A q \in 1..Len(pods) :
                [pods EXCEPT ![p] = new][q] = IF q = p THEN new ELSE pods[q]
      BY ONLY <1>1, <2>1, ExceptSeq
    <2>3. QED
      BY <1>3, <2>2
  <1>5. DOMAIN pods' = DOMAIN pods /\ DOMAIN pods = 1..Len(pods)
    BY <1>1, <1>4, LenProperties
  <1> HIDE DEF new
  <1>6. QED
    BY <1>1, <1>2, <1>4, <1>5 DEF PodBecomes

LEMMA PhaseWritten ==
    ASSUME TypeOK, NEW p \in DOMAIN pods, NEW phase \in Phases,
           pods' = [pods EXCEPT ![p].phase = phase]
    PROVE  PodBecomes(p, phase, pods[p].restarts)
  <1>1. pods[p] \in Pod /\ pods \in [1..Len(pods) -> Pod] /\ p \in 1..Len(pods)
    BY PodsTyped, LenProperties DEF TypeOK
  <1>2. pods[p].restarts \in 0..1
    BY <1>1 DEF Pod
  <1>3. pods' = [pods EXCEPT ![p].phase = phase, ![p].restarts = pods[p].restarts]
    BY <1>1 DEF Pod
  <1>4. QED
    BY <1>2, <1>3, PodWritten

\* What a new pod looks like to the pods before it.
LEMMA PodCreated ==
    ASSUME TypeOK, NEW new \in Pod, Len(pods) < MaxPods,
           pods' = Append(pods, new)
    PROVE  /\ pods' \in Seq(Pod) /\ Len(pods') <= MaxPods
           /\ DOMAIN pods' = DOMAIN pods \cup {Len(pods) + 1}
           /\ Len(pods) + 1 \notin DOMAIN pods
           /\ pods'[Len(pods) + 1] = new
           /\ \A q \in DOMAIN pods : pods'[q] = pods[q]
  <1>1. pods \in Seq(Pod) /\ Len(pods) \in Nat /\ DOMAIN pods = 1..Len(pods)
    BY PodsTyped DEF TypeOK
  <1>2. /\ pods' \in Seq(Pod) /\ Len(pods') = Len(pods) + 1
        /\ pods'[Len(pods) + 1] = new
        /\ \A q \in 1..Len(pods) : pods'[q] = pods[q]
    BY <1>1, AppendProperties
  <1>3. DOMAIN pods' = 1..(Len(pods) + 1)
    BY <1>2, LenProperties
  <1>4. QED
    BY <1>1, <1>2, <1>3, PodsTyped

\* The newest of a set of pods is one of them.
LEMMA NewestExists ==
    ASSUME TypeOK
    PROVE  /\ current_pod_name_live \in {0} \cup (Running \cap Alive)
           /\ Running \cap Alive # {} => current_pod_name_live # 0
  <1> DEFINE alive == Running \cap Alive
  <1>1. alive \subseteq Nat /\ alive \subseteq 1..MaxPods /\ MaxPods \in Nat
    BY PodsTyped DEF Running
  <1>2. CASE alive = {}
    BY <1>2 DEF current_pod_name_live
  <1>3. CASE alive # {}
    <2> DEFINE depths == {MaxPods - p : p \in alive}
    <2>1. depths \subseteq Nat /\ depths # {}
      BY <1>1, <1>3
    <2>2. PICK d \in depths : \A e \in depths : ~(<<e, d>> \in OpToRel(<, Nat))
      BY <2>1, NatLessThanWellFounded, WFMin
    <2>3. \A e \in depths : ~(e < d)
      BY <2>1, <2>2 DEF OpToRel
    <2>4. PICK p \in alive : d = MaxPods - p
      OBVIOUS
    <2>5. \A q \in alive : q <= p
      <3> SUFFICES ASSUME NEW q \in alive PROVE q <= p
        OBVIOUS
      <3>1. ~(MaxPods - q < MaxPods - p)
        BY <2>3, <2>4
      <3>2. p \in Nat /\ q \in Nat
        BY <1>1
      <3>3. QED
        BY ONLY <1>1, <3>1, <3>2
    <2>6. current_pod_name_live = CHOOSE q \in alive : \A r \in alive : r <= q
      BY <1>3 DEF current_pod_name_live
    <2>7. current_pod_name_live \in alive
      BY <2>5, <2>6
    <2>8. QED
      BY <1>1, <2>7
  <1>4. QED
    BY <1>2, <1>3

\* Records that start over.
LEMMA HandlerOver ==
    ASSUME NEW pc \in {"done", "died"}
    PROVE  LET over == [NoAct EXCEPT !.pc = pc]
           IN over \in Handler /\ over.pc = pc /\ over.old = {}
  <1>1. NoAct \in Handler /\ NoAct.old = {}
    BY DEF NoAct, Handler
  <1>2. QED
    BY <1>1 DEF Handler

LEMMA RunEnded ==
    ASSUME scorer \in ScorerRun, NEW pc \in {"dead", "reset", "done"}
    PROVE  /\ Ended(pc) \in ScorerRun /\ Ended(pc).pc = pc
           /\ Ended(pc).n = scorer.n /\ Ended(pc).verdict = "none"
           /\ Ended(pc).pod = 0 /\ Ended(pc).polls = 0
  <1>1. /\ NoRun \in ScorerRun /\ NoRun.verdict = "none"
        /\ NoRun.pod = 0 /\ NoRun.polls = 0
    BY RemediationAssumption DEF NoRun, ScorerRun
  <1>2. QED
    BY <1>1 DEF Ended, ScorerRun

LEMMA Revisions ==
    /\ Last(<<"good">>) = "good"
    /\ Last(<<"good", "bad">>) = "bad"
    /\ Last(<<"bad", "good">>) = "good"
  BY DEF Last

-----------------------------------------------------------------------------
(* The initial states.                                                     *)

LEMMA SoundInit == Init => Sound
  <1> SUFFICES ASSUME Init PROVE Sound
    OBVIOUS
  <1>1. /\ DOMAIN pods = {1} /\ pods[1] = [phase |-> "ready", gen |-> 1, restarts |-> 0]
        /\ Len(pods) = 1 /\ pods \in Seq(Pod)
    <2>1. [phase |-> "ready", gen |-> 1, restarts |-> 0] \in Pod
      BY DEF Pod, Phases
    <2>2. QED
      BY <2>1 DEF Init
  <1>2. Alive = {1} /\ Running = {1} /\ Current = {1}
    BY <1>1 DEF Alive, Running, Current, Init
  <1>3. TypeOK
    <2>1. /\ 1 <= MaxPods /\ MaxRuns \in Nat /\ MaxEpisodes \in Nat
          /\ WINDOW \in Nat /\ MaxPods \in Nat
      BY RemediationAssumption
    <2>2. scorer = NoRun
      BY DEF Init
    <2>3. scorer \in ScorerRun
      BY <2>1, <2>2 DEF NoRun, ScorerRun
    <2>4. act \in [Runs -> Handler]
      <3>1. NoAct \in Handler
        BY DEF NoAct, Handler
      <3>2. QED
        BY <3>1 DEF Init
    <2>5. QED
      BY <1>1, <2>1, <2>3, <2>4 DEF Init, TypeOK, NoWindow, Deployment, Histories, Record
  <1>4. /\ DiskCleared /\ NotLeftAtZero /\ HandlersFit /\ OldPodsGo
        /\ ZeroIsOwned /\ FixHolds /\ VerdictHonest
    BY DEF Init, NoAct, NoRun, DiskCleared, NotLeftAtZero, HandlersFit,
       OldPodsGo, ZeroIsOwned, FixHolds, VerdictHonest
  <1>5. ScorerFits
    BY RemediationAssumption DEF Init, NoRun, ScorerFits, Quiet
  <1>6. OneCurrentPod
    BY <1>1, <1>2 DEF Init, OneCurrentPod
  <1>7. FixStands
    BY DEF Init, NoRun, FixStands, Waited
  <1>8. WindowFits
    BY DEF Init, NoRun, NoWindow, WindowFits
  <1>9. QED
    BY <1>3, <1>4, <1>5, <1>6, <1>7, <1>8 DEF Sound, RemediationInv

-----------------------------------------------------------------------------
(* The cluster's own steps.                                                *)

\* What every step of the Deployment controller and the kubelet keeps to.
PodsMove ==
    /\ UNCHANGED <<class, dep, episode, scorer, act, broken>>
    /\ window' = [window EXCEPT !.hurt = window'.hurt]
    /\ window'.late = window.late
    /\ scorer.pc = "score" => window'.hurt = window.hurt
    /\ pods' \in Seq(Pod) /\ Len(pods') <= MaxPods
    /\ DOMAIN pods \subseteq DOMAIN pods'
    /\ \A p \in DOMAIN pods :
        /\ pods'[p].gen = pods[p].gen
        /\ pods'[p].phase = "failing" => pods[p].phase = "failing"
        /\ pods[p].phase = "gone" => pods'[p].phase = "gone"

\* So the handlers, the scorer and the Deployment are none the wiser.
LEMMA PodsMoveKeeps ==
    ASSUME Sound, PodsMove, window'.hurt \subseteq 1..MaxPods
    PROVE  /\ TypeOK' /\ DiskCleared' /\ NotLeftAtZero' /\ HandlersFit'
           /\ OldPodsGo' /\ ZeroIsOwned' /\ ScorerFits' /\ FixStands' /\ FixHolds'
  <1> USE DEF Sound, RemediationInv
  <1>u. UNCHANGED <<class, dep, episode, scorer, act, broken>>
    BY DEF PodsMove
  <1>1. window' \in Record
    BY DEF PodsMove, TypeOK, Record
  <1>2. TypeOK'
    BY <1>u, <1>1 DEF PodsMove, TypeOK
  <1>3. OldPodsGo'
    BY <1>u DEF PodsMove, OldPodsGo
  <1>4. DiskCleared'
    BY <1>u DEF PodsMove, DiskCleared, OldPodsGo
  <1>5. NotLeftAtZero' /\ HandlersFit' /\ ZeroIsOwned'
    BY <1>u DEF NotLeftAtZero, HandlersFit, ZeroIsOwned, Handling
  <1>6. ScorerFits'
    BY <1>u DEF PodsMove, ScorerFits, Quiet
  <1>7. FixStands' /\ FixHolds'
    BY <1>u DEF PodsMove, FixStands, FixHolds, Fixed, Waited
  <1>8. QED
    BY <1>2, <1>3, <1>4, <1>5, <1>6, <1>7

\* A verdict stands while the restarts of a current watched pod do.
LEMMA PodsMoveKeepsVerdict ==
    ASSUME Sound, PodsMove, window.hurt \subseteq window'.hurt,
           (class \in Restarting /\ scorer.pod # 0 /\ ~WatchesOldPod) =>
               pods'[scorer.pod].restarts = pods[scorer.pod].restarts
    PROVE  VerdictHonest'
  <1> USE DEF Sound, RemediationInv
  <1>1. SUFFICES ASSUME scorer.pc = "score", ~window.late PROVE VerdictHonest'
    BY DEF PodsMove, VerdictHonest
  <1>2. /\ UNCHANGED <<class, dep, scorer>>
        /\ window'.before = window.before /\ window'.stale = window.stale
        /\ window'.hurt = window.hurt /\ Noticeable' = Noticeable
    BY <1>1 DEF PodsMove, TypeOK, Record, Noticeable
  <1>3. /\ scorer.pod # 0 => scorer.pod \in DOMAIN pods
        /\ Noticeable \subseteq DOMAIN pods
    BY DEF ScorerFits, WindowFits, Noticeable
  <1>4. WatchesOldPod' <=> WatchesOldPod
    BY <1>2, <1>3 DEF PodsMove, WatchesOldPod
  <1>5. \A p \in Noticeable : pods'[p].gen = pods[p].gen
    BY <1>3 DEF PodsMove
  <1>6. ASSUME scorer.verdict = "confirmed"
        PROVE  WatchesOldPod' \/ \A p \in Noticeable' : pods'[p].gen < dep'.gen
    BY <1>1, <1>2, <1>4, <1>5, <1>6 DEF VerdictHonest
  <1>7. ASSUME scorer.verdict = "flapped"
        PROVE  \/ scorer'.pod = 0 \/ window'.hurt # {}
               \/ WatchesOldPod' \/ window'.stale
               \/ class' = "crash-loop" /\ pods'[scorer'.pod].restarts > 0
    BY <1>1, <1>2, <1>4, <1>7 DEF VerdictHonest, Restarting
  <1>8. QED
    BY <1>2, <1>6, <1>7 DEF VerdictHonest

LEMMA FewCurrent ==
    ASSUME TypeOK, OneCurrentPod, class \in Watched
    PROVE  LET S == {p \in Alive : pods[p].gen = dep.gen}
           IN /\ Cardinality(S) < dep.replicas => S = {} /\ dep.replicas = 1
              /\ ~(Cardinality(S) > dep.replicas /\ dep.replicas = 1)
  <1> DEFINE S == {p \in Alive : pods[p].gen = dep.gen}
  <1>1. S \subseteq 1..MaxPods /\ MaxPods \in Nat
    BY PodsTyped DEF Alive
  <1>2. IsFiniteSet(S) /\ Cardinality(S) \in Nat /\ (Cardinality(S) = 0 => S = {})
    <2>1. IsFiniteSet(1..MaxPods)
      BY <1>1, FS_Interval
    <2>2. IsFiniteSet(S)
      BY <1>1, <2>1, FS_Subset
    <2>3. QED
      BY <2>2, FS_CardinalityType, FS_EmptySet
  <1>3. S \subseteq Current \cap Alive /\ dep.replicas <= 1 /\ dep.replicas \in Nat
    BY DEF Deployment, OneCurrentPod, Current, Alive, TypeOK
  <1>4. Cardinality(S) <= 1
    <2>1. CASE S = {}
      <3>1. Cardinality(S) = 0
        BY <2>1, FS_EmptySet
      <3>2. QED
        BY <3>1
    <2>2. CASE S # {}
      <3>1. PICK p : p \in S
        BY <2>2
      <3>2. S = {p}
        BY <1>3, <3>1 DEF OneCurrentPod
      <3> HIDE DEF S
      <3>3. Cardinality(S) = 1
        BY <3>2, FS_Singleton
      <3>4. QED
        BY <3>3
    <2>3. QED
      BY <2>1, <2>2
  <1>5. QED
    BY <1>2, <1>3, <1>4

LEMMA SoundCreatePod ==
    ASSUME Sound, CreatePod
    PROVE  Sound'
  <1> USE DEF Sound, RemediationInv
  <1> DEFINE n == Len(pods) + 1
             new == [phase |-> IF Last(dep.history) = "bad" THEN "failing" ELSE "running",
                     gen |-> dep.gen, restarts |-> 0]
  <1>1. new \in Pod
    BY DEF Deployment, TypeOK, Pod, Phases
  <1>2. /\ pods' \in Seq(Pod) /\ Len(pods') <= MaxPods
        /\ DOMAIN pods' = DOMAIN pods \cup {n} /\ n \notin DOMAIN pods
        /\ pods'[n] = new
        /\ \A q \in DOMAIN pods : pods'[q] = pods[q]
    BY <1>1, PodCreated DEF CreatePod
  <1>u. UNCHANGED <<class, dep, episode, scorer, act, broken, window>>
    BY DEF CreatePod, K8sUnchanged
  <1>3. PodsMove
    BY <1>2, <1>u DEF PodsMove, TypeOK, Record
  <1>4. /\ TypeOK' /\ DiskCleared' /\ NotLeftAtZero' /\ HandlersFit'
        /\ OldPodsGo' /\ ZeroIsOwned' /\ ScorerFits' /\ FixStands' /\ FixHolds'
    BY <1>3, <1>u, PodsMoveKeeps DEF TypeOK, Record
  <1>5. OneCurrentPod'
    <2>1. \A p \in DOMAIN pods' : pods'[p].gen <= dep'.gen
      BY <1>2, <1>u DEF Deployment, OneCurrentPod, TypeOK
    <2>2. /\ Alive' \subseteq Alive \cup {n} /\ Current' = Current \cup {n}
          /\ Alive \subseteq Alive'
      BY <1>2, <1>u DEF Alive, Current
    <2>3. ASSUME class \in Watched
          PROVE  Current \cap Alive = {} /\ dep.replicas = 1
      BY <2>3, FewCurrent DEF CreatePod, Current, Alive
    <2>4. new.phase \notin {"dying", "gone"}
      OBVIOUS
    <2>5. n \in Alive'
      BY <1>2, <2>4 DEF Alive
    <2> HIDE DEF n, new
    <2>6. class \in Watched =>
             /\ dep.replicas <= 1
             /\ \A p, q \in Current' \cap Alive' : p = q
      BY <2>2, <2>3
    <2>7. class \in Restarting => dep.replicas = 1 /\ Current' \subseteq Alive'
      BY <2>2, <2>5 DEF OneCurrentPod
    <2>8. class = "disk-full" => Current' = DOMAIN pods'
      BY <1>2, <2>2 DEF OneCurrentPod
    <2>9. QED
      BY <1>u, <2>1, <2>6, <2>7, <2>8 DEF OneCurrentPod
  <1>6. scorer.pod # 0 => scorer.pod \in DOMAIN pods
    BY DEF ScorerFits
  <1>7. WindowFits'
    <2>1. (WatchesOldPod' <=> WatchesOldPod)
      BY <1>2, <1>u, <1>6 DEF WatchesOldPod
    <2>2. scorer.pod # 0 => (scorer.pod \in Alive' <=> scorer.pod \in Alive)
      BY <1>2, <1>6 DEF Alive
    <2>3. scorer.pc = "poll" /\ class \in Watched => scorer.pod # 0
      BY DEF ScorerFits
    <2>4. QED
      BY <1>2, <1>u, <1>6, <2>1, <2>2, <2>3 DEF WindowFits, Watched
  <1>8. VerdictHonest'
    BY <1>2, <1>3, <1>6, <1>u, PodsMoveKeepsVerdict
  <1>9. QED
    BY <1>4, <1>5, <1>7, <1>8

\* One pod changes, and is Alive, Running or Current as its phase and
\* template say.
LEMMA SoundPodProgress ==
    ASSUME Sound, NEW p \in DOMAIN pods, PodProgress(p)
    PROVE  Sound'
  <1> USE DEF Sound, RemediationInv
  <1>u. UNCHANGED <<class, dep, episode, scorer, act, broken, window>>
    BY DEF PodProgress, K8sUnchanged
  <1>1. PICK phase \in {"ready", "gone"}, restarts \in 0..1 :
            /\ PodBecomes(p, phase, restarts)
            /\ \/ pods[p].phase = "running" /\ phase = "ready" /\ restarts = pods[p].restarts
               \/ pods[p].phase = "dying" /\ phase = "gone"
    <2>1. pods[p].restarts \in 0..1
      BY PodsTyped DEF Pod
    <2>2. CASE pods[p].phase = "running" /\ pods' = [pods EXCEPT ![p].phase = "ready"]
      BY <2>1, <2>2, PhaseWritten DEF Phases
    <2>3. CASE pods[p].phase = "dying" /\ pods' = Without(p)
      <3>1. 0 \in 0..1 /\ "gone" \in Phases
        BY DEF Phases
      <3>2. PodBecomes(p, "gone", 0)
        BY <2>3, <3>1, PodWritten DEF Without
      <3>3. QED
        BY <2>3, <3>1, <3>2
    <2>4. QED
      BY <2>2, <2>3 DEF PodProgress
  <1>2. PodsMove
    BY <1>u, <1>1 DEF PodsMove, PodBecomes, TypeOK, Record
  <1>3. /\ TypeOK' /\ DiskCleared' /\ NotLeftAtZero' /\ HandlersFit'
        /\ OldPodsGo' /\ ZeroIsOwned' /\ ScorerFits' /\ FixStands' /\ FixHolds'
    BY <1>2, <1>u, PodsMoveKeeps DEF TypeOK, Record
  <1>4. Alive' = Alive /\ Current' = Current /\ DOMAIN pods' = DOMAIN pods
    BY <1>1, <1>u DEF Alive, Current, PodBecomes
  <1>5. OneCurrentPod'
    BY <1>1, <1>4, <1>u DEF OneCurrentPod, PodBecomes
  <1>6. scorer.pod # 0 => scorer.pod \in DOMAIN pods /\ class \in Watched
    BY DEF ScorerFits
  <1>7. WatchesOldPod' <=> WatchesOldPod
    BY <1>1, <1>6, <1>u DEF WatchesOldPod, PodBecomes
  <1>8. (class \in Restarting /\ scorer.pod # 0 /\ ~WatchesOldPod) =>
            pods'[scorer.pod].restarts = pods[scorer.pod].restarts
    <2>1. SUFFICES ASSUME class \in Restarting, scorer.pod = p, ~WatchesOldPod,
                          pods[p].phase = "dying", scorer.pod # 0
                   PROVE  FALSE
      BY <1>1, <1>6 DEF PodBecomes
    <2>2. p \in Current
      BY <2>1, PodsTyped DEF Deployment, WatchesOldPod, OneCurrentPod, Current, TypeOK, Pod
    <2>3. QED
      BY <2>1, <2>2 DEF OneCurrentPod, Alive
  <1>9. WindowFits'
    <2>1. scorer.pc = "poll" /\ class \in Watched => scorer.pod # 0
      BY DEF ScorerFits
    <2>2. QED
      BY <1>4, <1>6, <1>7, <1>8, <1>u, <2>1 DEF WindowFits, Watched
  <1>10. VerdictHonest'
    BY <1>2, <1>8, <1>u, PodsMoveKeepsVerdict
  <1>11. QED
    BY <1>3, <1>5, <1>9, <1>10

\* A current pod of a restarting class is never retired.
LEMMA SoundRetirePod ==
    ASSUME Sound, NEW p \in DOMAIN pods, RetirePod(p)
    PROVE  Sound'
  <1> USE DEF Sound, RemediationInv
  <1>u. UNCHANGED <<class, dep, episode, scorer, act, broken, window>>
    BY DEF RetirePod, K8sUnchanged
  <1>1. PICK phase \in {"dying", "gone"}, restarts \in 0..1 :
            PodBecomes(p, phase, restarts)
    <2>1. pods[p].restarts \in 0..1
      BY PodsTyped DEF Pod
    <2>2. CASE pods' = [pods EXCEPT ![p].phase = "dying"]
      BY <2>1, <2>2, PhaseWritten DEF Phases
    <2>3. CASE pods' = Without(p)
      <3>1. 0 \in 0..1 /\ "gone" \in Phases
        BY DEF Phases
      <3>2. PodBecomes(p, "gone", 0)
        BY <2>3, <3>1, PodWritten DEF Without
      <3>3. QED
        BY <3>1, <3>2
    <2>4. QED
      BY <2>2, <2>3 DEF RetirePod
  <1>a. p \in Alive
    BY DEF RetirePod
  <1>2. PodsMove
    BY <1>u, <1>1, <1>a DEF PodsMove, PodBecomes, TypeOK, Alive, Record
  <1>3. /\ TypeOK' /\ DiskCleared' /\ NotLeftAtZero' /\ HandlersFit'
        /\ OldPodsGo' /\ ZeroIsOwned' /\ ScorerFits' /\ FixStands' /\ FixHolds'
    BY <1>2, <1>u, PodsMoveKeeps DEF TypeOK, Record
  <1>4. Alive' = Alive \ {p} /\ Current' = Current /\ DOMAIN pods' = DOMAIN pods
    BY <1>1, <1>u DEF Alive, Current, PodBecomes
  <1>5. (class \in Watched /\ dep.replicas = 1) => p \notin Current
    <2>1. CASE pods[p].gen < dep.gen
      BY <2>1, PodsTyped DEF Current, TypeOK, Pod
    <2>2. CASE Cardinality({q \in Alive : pods[q].gen = dep.gen}) > dep.replicas
      BY <2>2, FewCurrent
    <2>3. QED
      BY <2>1, <2>2 DEF RetirePod
  <1>6. OneCurrentPod'
    BY <1>1, <1>4, <1>5, <1>u DEF OneCurrentPod, PodBecomes, Watched
  <1>7. scorer.pod # 0 => scorer.pod \in DOMAIN pods /\ class \in Watched
    BY DEF ScorerFits
  <1>8. WatchesOldPod' <=> WatchesOldPod
    BY <1>1, <1>7, <1>u DEF WatchesOldPod, PodBecomes
  <1>9. (class \in Restarting /\ scorer.pod # 0 /\ ~WatchesOldPod) =>
            pods'[scorer.pod].restarts = pods[scorer.pod].restarts
    <2>1. SUFFICES ASSUME class \in Restarting, scorer.pod = p, ~WatchesOldPod,
                          scorer.pod # 0
                   PROVE  FALSE
      BY <1>1, <1>7 DEF PodBecomes
    <2>2. p \in Current
      BY <2>1, PodsTyped DEF Deployment, WatchesOldPod, OneCurrentPod, Current, TypeOK, Pod
    <2>3. QED
      BY <1>5, <2>1, <2>2 DEF OneCurrentPod, Watched
  <1>10. WindowFits'
    <2>1. scorer.pc = "poll" /\ class \in Watched => scorer.pod # 0
      BY DEF ScorerFits
    <2>2. (class = "disk-full" /\ scorer.pc = "poll" /\ ~window.late) =>
              dep.replicas = 1 /\ p \in Current
      BY DEF FixHolds, Fixed, OneCurrentPod
    <2>3. QED
      BY <1>4, <1>5, <1>7, <1>8, <1>9, <1>u, <2>1, <2>2 DEF WindowFits, Watched
  <1>11. VerdictHonest'
    BY <1>2, <1>9, <1>u, PodsMoveKeepsVerdict
  <1>12. QED
    BY <1>3, <1>6, <1>10, <1>11

\* A failure of a pod in an open window is on the window's record.
LEMMA SoundPodFails ==
    ASSUME Sound, NEW p \in DOMAIN pods, PodFails(p)
    PROVE  Sound'
  <1> USE DEF Sound, RemediationInv
  <1>u. UNCHANGED <<class, dep, episode, scorer, act, broken>>
    BY DEF PodFails, K8sUnchanged
  <1>1. PICK phase \in {"running", "gone"}, restarts \in 0..1 :
            /\ PodBecomes(p, phase, restarts)
            /\ \/ class = "disk-full" /\ phase = "gone"
               \/ /\ class \in Restarting /\ phase = "running"
                  /\ pods[p].restarts = 0 /\ restarts = 1
    <2>1. CASE class = "disk-full" /\ pods' = Without(p)
      <3>1. 0 \in 0..1 /\ "gone" \in Phases
        BY DEF Phases
      <3>2. PodBecomes(p, "gone", 0)
        BY <2>1, <3>1, PodWritten DEF Without
      <3>3. QED
        BY <2>1, <3>1, <3>2
    <2>2. CASE class \in Restarting /\ pods[p].restarts = 0 /\
               pods' = [pods EXCEPT ![p].phase = "running", ![p].restarts = 1]
      <3>1. 1 \in 0..1 /\ "running" \in Phases
        BY DEF Phases
      <3>2. PodBecomes(p, "running", 1)
        BY <2>2, <3>1, PodWritten
      <3>3. QED
        BY <2>2, <3>1, <3>2
    <2>3. QED
      BY <2>1, <2>2 DEF PodFails
  <1>2. /\ scorer.pc \in {"capture", "poll"}
        /\ pods[p].phase \in {"running", "ready"} /\ p \in Alive
    BY DEF PodFails, Alive
  <1>3. /\ window' = [window EXCEPT !.hurt = window'.hurt]
        /\ window'.hurt = IF scorer.pc = "poll" THEN window.hurt \cup {p} ELSE window.hurt
        /\ window'.late = window.late /\ window'.before = window.before
        /\ window'.recent = window.recent /\ window'.stale = window.stale
    BY DEF PodFails, TypeOK, Record
  <1>4. PodsMove
    BY <1>u, <1>1, <1>2, <1>3 DEF PodsMove, PodBecomes, TypeOK
  <1>5. /\ TypeOK' /\ DiskCleared' /\ NotLeftAtZero' /\ HandlersFit'
        /\ OldPodsGo' /\ ZeroIsOwned' /\ ScorerFits' /\ FixStands' /\ FixHolds'
    <2>1. window.hurt \subseteq 1..MaxPods /\ p \in 1..MaxPods
      BY PodsTyped DEF TypeOK, Record
    <2>2. window'.hurt \subseteq 1..MaxPods
      BY <1>3, <2>1
    <2>3. QED
      BY <1>4, <2>2, PodsMoveKeeps
  <1>6. /\ Alive' = IF class = "disk-full" THEN Alive \ {p} ELSE Alive
        /\ Current' = Current /\ DOMAIN pods' = DOMAIN pods
    BY <1>1, <1>2, <1>u DEF Alive, Current, PodBecomes, Restarting
  <1>7. OneCurrentPod'
    BY <1>1, <1>6, <1>u DEF OneCurrentPod, PodBecomes, Restarting
  <1>8. scorer.pod # 0 => scorer.pod \in DOMAIN pods /\ class \in Watched
    BY DEF ScorerFits
  <1>9. WatchesOldPod' <=> WatchesOldPod
    BY <1>1, <1>8, <1>u DEF WatchesOldPod, PodBecomes
  <1>10. WindowFits'
    <2>1. /\ window'.before \subseteq window'.recent
          /\ window'.recent \subseteq window'.hurt
          /\ window'.hurt \subseteq DOMAIN pods'
      BY <1>3, <1>6 DEF WindowFits
    <2>2. class' \notin Watched => window'.hurt = {}
      BY <1>1, <1>u DEF Watched
    <2>3. ASSUME scorer.pc = "poll", class \in Restarting, ~WatchesOldPod
          PROVE  LET now == pods'[scorer.pod].restarts
                 IN /\ scorer.base = 1 => now = 1
                    /\ scorer.pod \in window'.hurt => now = 1 /\ scorer.base = 0
                    /\ scorer.pod \in window'.before => scorer.was = 1
                    /\ scorer.pod \in window'.recent => scorer.seen = 1
                    /\ (/\ ~window'.stale /\ scorer.base = 0
                        /\ 1 \in {scorer.was, scorer.seen, now}) =>
                           scorer.pod \in window'.hurt
      <3>1. scorer.base \in 0..1 /\ scorer.pod \in DOMAIN pods
        BY <2>3, <1>8 DEF TypeOK, ScorerRun, ScorerFits, Watched
      <3>2. LET now == pods[scorer.pod].restarts
            IN /\ scorer.base = 1 => now = 1
               /\ scorer.pod \in window.hurt => now = 1 /\ scorer.base = 0
               /\ scorer.pod \in window.before => scorer.was = 1
               /\ scorer.pod \in window.recent => scorer.seen = 1
               /\ (/\ ~window.stale /\ scorer.base = 0
                   /\ 1 \in {scorer.was, scorer.seen, now}) =>
                      scorer.pod \in window.hurt
        BY <2>3 DEF WindowFits
      <3>3. CASE scorer.pod = p
        BY <1>1, <1>3, <2>3, <3>1, <3>2, <3>3 DEF PodBecomes, Restarting
      <3>4. CASE scorer.pod # p
        BY <1>1, <1>3, <2>3, <3>1, <3>2, <3>4 DEF PodBecomes
      <3>5. QED
        BY <3>3, <3>4
    <2>4. ASSUME scorer.pc = "poll", class = "disk-full"
          PROVE  /\ window'.recent = {}
                 /\ scorer.pod \in Alive' => window'.hurt = {}
                 /\ (scorer.pod \notin Alive' /\ ~window'.late) => window'.hurt # {}
      <3>1. scorer.pod \in Alive => scorer.pod = p
        BY <2>4, <1>2 DEF OneCurrentPod, Watched, Alive
      <3>2. QED
        BY <1>3, <1>6, <2>4, <3>1 DEF WindowFits
    <2>5. QED
      BY <1>9, <1>u, <2>1, <2>2, <2>3, <2>4 DEF WindowFits
  <1>11. VerdictHonest'
    BY <1>2, <1>u DEF VerdictHonest
  <1>12. QED
    BY <1>5, <1>7, <1>10, <1>11

-----------------------------------------------------------------------------
(* Steps that leave the pods alone.                                        *)

LEMMA Tools ==
    ASSUME class \in Classes
    PROVE  /\ class \in Watched \cup {"under-provisioned-replicas", "bad-rollout"}
           /\ class = "crash-loop" <=> tool = "restart_deployment"
           /\ class = "oom" <=> tool = "patch_memory_limit"
           /\ class = "disk-full" <=> tool = "restore_from_disk_full"
           /\ class = "cpu-throttling" <=> tool = "patch_cpu_limit"
           /\ class = "under-provisioned-replicas" <=> tool = "scale_deployment"
           /\ class = "bad-rollout" <=> tool = "rollback_deployment"
  <1>1. class \in {"crash-loop", "oom", "disk-full", "cpu-throttling",
                   "under-provisioned-replicas", "bad-rollout"}
    BY RemediationAssumption DEF ACTION_MAP
  <1>2. CASE class = "crash-loop"
    BY <1>2 DEF tool, ACTION_MAP, Watched, Restarting
  <1>3. CASE class = "oom"
    BY <1>3 DEF tool, ACTION_MAP, Watched, Restarting
  <1>4. CASE class = "disk-full"
    BY <1>4 DEF tool, ACTION_MAP, Watched, Restarting
  <1>5. CASE class = "cpu-throttling"
    BY <1>5 DEF tool, ACTION_MAP, Watched, Restarting
  <1>6. CASE class = "under-provisioned-replicas"
    BY <1>6 DEF tool, ACTION_MAP, Watched, Restarting
  <1>7. CASE class = "bad-rollout"
    BY <1>7 DEF tool, ACTION_MAP, Watched, Restarting
  <1>8. QED
    BY <1>1, <1>2, <1>3, <1>4, <1>5, <1>6, <1>7

LEMMA TemplateTyped ==
    ASSUME NEW d \in Deployment
    PROVE  /\ NewTemplate(d) \in Deployment
           /\ NewTemplate(d).gen = d.gen + 1 /\ NewTemplate(d).limit = d.limit
           /\ NewTemplate(d).replicas = d.replicas
           /\ NewTemplate(d).history = d.history
  <1> DEFINE new == NewTemplate(d)
  <1>1. /\ new.gen = d.gen + 1 /\ new.limit = d.limit
        /\ new.replicas = d.replicas /\ new.history = d.history
    BY DEF NewTemplate, Deployment
  <1>2. new \in Deployment
    BY DEF NewTemplate, Deployment
  <1>3. QED
    BY <1>1, <1>2

\* The Deployment keeps its template or gets the next one.
DepMoves ==
    /\ UNCHANGED <<class, pods, broken>>
    /\ dep' \in Deployment
    /\ dep'.gen = dep.gen \/ (class # "disk-full" /\ dep'.gen = dep.gen + 1)
    /\ class \in Restarting => dep'.replicas = 1
    /\ class = "disk-full" => dep'.replicas \in {0, 1}

\* The record of the window is kept, but for late, or closed.
WindowKept == window' = [window EXCEPT !.late = window'.late]
WindowClosed == window' = [NoWindow EXCEPT !.late = window'.late]

LEMMA DepMovesKeeps ==
    ASSUME Sound, DepMoves, window.late => window'.late,
           \/ scorer' = scorer /\ WindowKept
           \/ /\ scorer'.pc # "poll" /\ (WindowKept \/ WindowClosed)
              /\ scorer'.pc = "score" => scorer'.verdict \in {"none", "failed"}
    PROVE  OneCurrentPod' /\ WindowFits' /\ VerdictHonest'
  <1> USE DEF Sound, RemediationInv
  <1>u. class' = class /\ pods' = pods /\ dep'.gen \in Nat /\ dep.gen \in Nat
    BY DEF DepMoves, Deployment, TypeOK
  <1>t. \A p \in DOMAIN pods : pods[p].gen \in Nat /\ pods[p].gen <= dep.gen
    BY PodsTyped DEF Pod, OneCurrentPod
  <1>1. Alive' = Alive
    BY <1>u DEF Alive
  <1>2. /\ dep'.gen >= dep.gen
        /\ dep'.gen = dep.gen => Current' = Current
        /\ dep'.gen # dep.gen => Current' = {} /\ class # "disk-full"
    BY <1>u, <1>t DEF DepMoves, Current
  <1>3. OneCurrentPod'
    <2>1. \A p \in DOMAIN pods' : pods'[p].gen <= dep'.gen
      BY <1>u, <1>t, <1>2
    <2>2. class \in Watched =>
              dep'.replicas <= 1 /\ \A p, q \in Current' \cap Alive' : p = q
      BY <1>1, <1>2 DEF OneCurrentPod, DepMoves, Watched
    <2>3. class \in Restarting => dep'.replicas = 1 /\ Current' \subseteq Alive'
      BY <1>1, <1>2 DEF OneCurrentPod, DepMoves
    <2>4. class = "disk-full" => Current' = DOMAIN pods'
      BY <1>u, <1>2 DEF OneCurrentPod
    <2>5. QED
      BY <1>u, <2>1, <2>2, <2>3, <2>4 DEF OneCurrentPod
  <1>4. \/ /\ window'.before = window.before /\ window'.hurt = window.hurt
           /\ window'.recent = window.recent
        \/ window'.before = {} /\ window'.recent = {} /\ window'.hurt = {}
    BY DEF WindowKept, WindowClosed, NoWindow, TypeOK, Record
  <1>5. CASE scorer' = scorer /\ WindowKept
    <2>1. /\ window'.before = window.before /\ window'.hurt = window.hurt
          /\ window'.recent = window.recent
          /\ window'.stale = window.stale /\ Noticeable' = Noticeable
      BY <1>5, <1>u DEF WindowKept, TypeOK, Record, Noticeable
    <2>2. (scorer.pod # 0 => scorer.pod \in DOMAIN pods)
          /\ Noticeable \subseteq DOMAIN pods
      BY DEF ScorerFits, WindowFits, Noticeable
    <2>3. WatchesOldPod => WatchesOldPod'
      BY <1>u, <1>2, <1>t, <1>5, <2>2 DEF WatchesOldPod
    <2>4. WindowFits'
      BY <1>u, <1>1, <1>5, <2>1, <2>3 DEF WindowFits
    <2>5. VerdictHonest'
      <3>1. SUFFICES ASSUME scorer.pc = "score", ~window.late PROVE VerdictHonest'
        BY <1>5 DEF VerdictHonest
      <3>2. \A p \in Noticeable : pods[p].gen < dep.gen => pods'[p].gen < dep'.gen
        BY <1>u, <1>2, <1>t, <2>2
      <3>3. QED
        BY <1>u, <1>5, <2>1, <2>3, <3>1, <3>2 DEF VerdictHonest
    <2>6. QED
      BY <1>3, <2>4, <2>5
  <1>6. CASE /\ scorer'.pc # "poll"
             /\ scorer'.pc = "score" => scorer'.verdict \in {"none", "failed"}
    <2>1. WindowFits'
      BY <1>u, <1>4, <1>6 DEF WindowFits
    <2>2. VerdictHonest'
      BY <1>6 DEF VerdictHonest
    <2>3. QED
      BY <1>3, <2>1, <2>2
  <1>7. QED
    BY <1>5, <1>6

\* Three parts of the invariant are consequences of others.
LEMMA Derived ==
    ASSUME TypeOK', OldPodsGo', ZeroIsOwned', FixStands'
    PROVE  DiskCleared' /\ NotLeftAtZero' /\ FixHolds'
  <1>1. DiskCleared'
    BY DEF DiskCleared, OldPodsGo
  <1>2. NotLeftAtZero'
    BY DEF Deployment, NotLeftAtZero, ZeroIsOwned, Handling, TypeOK
  <1>3. FixHolds'
    BY DEF FixHolds, FixStands
  <1>4. QED
    BY <1>1, <1>2, <1>3

-----------------------------------------------------------------------------
(* The handlers of /act.                                                   *)

\* A handler writes its own record.
LEMMA HandlerWritten ==
    ASSUME act \in [Runs -> Handler], NEW h \in Runs, NEW new \in Handler,
           act' = [act EXCEPT ![h] = new]
    PROVE  /\ act' \in [Runs -> Handler] /\ act'[h] = new
           /\ \A k \in Runs : k # h => act'[k] = act[k]
  OBVIOUS

\* Moving on, with or without a failure: only pc and ok change.
HandlerMoves(h, pc, ok) ==
    /\ act' \in [Runs -> Handler]
    /\ act'[h].pc = pc /\ act'[h].ok = ok /\ act'[h].gone = act[h].gone
    /\ act'[h].replicas = act[h].replicas /\ act'[h].old = act[h].old
    /\ \A k \in Runs : k # h => act'[k] = act[k]

LEMMA HandlerMoved ==
    ASSUME act \in [Runs -> Handler], NEW h \in Runs,
           NEW pc \in {"apply", "back", "reply"}
    PROVE  /\ ActTo(h, pc) => HandlerMoves(h, pc, act[h].ok)
           /\ ActFails(h, pc) => HandlerMoves(h, pc, FALSE)
  <1>1. act[h] \in Handler
    OBVIOUS
  <1>2. ASSUME ActTo(h, pc) PROVE HandlerMoves(h, pc, act[h].ok)
    <2>1. [act[h] EXCEPT !.pc = pc] \in Handler
      BY <1>1 DEF Handler
    <2>2. act' = [act EXCEPT ![h] = [act[h] EXCEPT !.pc = pc]]
      BY <1>2 DEF ActTo
    <2>3. QED
      BY <1>1, <2>1, <2>2 DEF HandlerMoves, Handler
  <1>3. ASSUME ActFails(h, pc) PROVE HandlerMoves(h, pc, FALSE)
    <2>1. [act[h] EXCEPT !.pc = pc, !.ok = FALSE] \in Handler
      BY <1>1 DEF Handler
    <2>2. act' = [act EXCEPT ![h] = [act[h] EXCEPT !.pc = pc, !.ok = FALSE]]
      BY <1>1, <1>3 DEF ActFails, Handler
    <2>3. QED
      BY <1>1, <2>1, <2>2 DEF HandlerMoves, Handler
  <1>4. QED
    BY <1>2, <1>3

\* Nobody but the waiting scorer's handler acts in time.
LEMMA LateMarked ==
    ASSUME TypeOK, NEW h \in Runs, MarkLate(h)
    PROVE  /\ WindowKept /\ window' \in Record
           /\ window.late => window'.late
           /\ ~window'.late => Waited(h)
  <1>1. window'.late = (window.late \/ ~Waited(h))
    BY DEF MarkLate, TypeOK
  <1>2. QED
    BY <1>1 DEF MarkLate, WindowKept, TypeOK, Record

LEMMA WindowStays ==
    ASSUME TypeOK, UNCHANGED window
    PROVE  /\ WindowKept /\ window' \in Record
           /\ window.late => window'.late
  BY DEF WindowKept, TypeOK, Record

\* What every step of a handler leaves alone, and the parts of the invariant
\* that follow from it.
HandlerFrame ==
    /\ UNCHANGED <<class, pods, episode, scorer, broken>>
    /\ DepMoves /\ WindowKept
    /\ window' \in Record
    /\ window.late => window'.late

LEMMA HandlerFrameKeeps ==
    ASSUME Sound, HandlerFrame, act' \in [Runs -> Handler]
    PROVE  /\ TypeOK' /\ ScorerFits' /\ OneCurrentPod' /\ WindowFits' /\ VerdictHonest'
  <1>1. TypeOK'
    BY DEF Sound, RemediationInv, TypeOK, HandlerFrame, DepMoves, Deployment
  <1>2. ScorerFits'
    BY DEF Sound, RemediationInv, ScorerFits, Quiet, HandlerFrame
  <1>3. OneCurrentPod' /\ WindowFits' /\ VerdictHonest'
    BY DepMovesKeeps DEF HandlerFrame
  <1>4. QED
    BY <1>1, <1>2, <1>3

LEMMA DepStays ==
    ASSUME Sound, UNCHANGED <<class, dep, pods, broken>>
    PROVE  DepMoves
  <1>1. dep \in Deployment /\ (class = "disk-full" => dep.replicas \in 0..1)
    BY DEF Sound, RemediationInv, TypeOK, Deployment, OneCurrentPod, Watched
  <1>2. QED
    BY <1>1 DEF Sound, RemediationInv, DepMoves, OneCurrentPod

LEMMA SoundResize ==
    ASSUME Sound, NEW h \in Runs, patch_cpu_limit(h)
    PROVE  Sound'
  <1> USE DEF Sound, RemediationInv
  <1>u. UNCHANGED <<class, dep, pods, episode, scorer, broken>>
    BY DEF patch_cpu_limit
  <1>1. PICK pc \in {"apply", "reply"} : HandlerMoves(h, pc, act[h].ok)
    BY HandlerMoved DEF patch_cpu_limit, TypeOK
  <1>2. HandlerFrame
    BY <1>u, DepStays, LateMarked, WindowStays DEF HandlerFrame, patch_cpu_limit
  <1>3. act[h].pc = "resize" /\ class = "cpu-throttling"
    BY DEF patch_cpu_limit, HandlersFit
  <1>4. /\ TypeOK' /\ ScorerFits' /\ OneCurrentPod' /\ WindowFits' /\ VerdictHonest'
    BY <1>1, <1>2, HandlerFrameKeeps DEF HandlerMoves
  <1>5. HandlersFit'
    BY <1>u, <1>1, <1>3 DEF HandlerMoves, HandlersFit
  <1>6. OldPodsGo'
    BY <1>u, <1>1, <1>3 DEF HandlerMoves, OldPodsGo
  <1>7. ZeroIsOwned'
    BY <1>u, <1>1, <1>3 DEF HandlerMoves, ZeroIsOwned
  <1>8. FixStands'
    BY <1>u, <1>1, <1>2, <1>3
       DEF HandlerMoves, HandlerFrame, FixStands, Waited, Fixed
  <1>9. QED
    BY <1>4, <1>5, <1>6, <1>7, <1>8, Derived

\* An accepted patch sets what FixHolds asks for.
LEMMA Patched ==
    ASSUME Sound, NEW h \in Runs, act[h].pc = "apply", class # "disk-full",
           class = "bad-rollout" => Len(dep.history) > 1,
           UNCHANGED <<class, pods, episode, broken>>, dep' = Patch(h),
           act'[h].replicas = act[h].replicas
    PROVE  /\ DepMoves /\ (dep'.replicas = 0 => dep.replicas = 0)
           /\ (class = "bad-rollout" /\ dep.history = <<"good", "bad">>) =>
                  Last(dep'.history) = "good"
           /\ class # "bad-rollout" => Fixed(act[h].replicas)'
  <1> USE DEF Sound, RemediationInv
  <1>1. /\ dep \in Deployment /\ class \in Classes
        /\ (class = "under-provisioned-replicas" => act[h].replicas \in 1..3)
    BY DEF TypeOK, Deployment, Handler, HandlersFit
  <1>2. class \in Restarting => dep.replicas = 1
    BY DEF OneCurrentPod
  <1>3. CASE class = "crash-loop"
    <2>1. dep' = NewTemplate(dep)
      BY <1>1, <1>3, Tools DEF Patch, scale_deployment
    <2>2. QED
      BY <1>1, <1>2, <1>3, <2>1 DEF NewTemplate, DepMoves, Deployment, Restarting, Fixed
  <1>4. CASE class \in {"oom", "cpu-throttling"}
    <2>1. dep' = IF dep.limit = "raised" THEN dep
                 ELSE NewTemplate([dep EXCEPT !.limit = "raised"])
      BY <1>1, <1>4, Tools DEF Patch, scale_deployment
    <2>2. /\ dep' \in Deployment /\ dep'.limit = "raised"
          /\ dep'.replicas = dep.replicas
          /\ dep'.gen = dep.gen \/ dep'.gen = dep.gen + 1
      <3>1. CASE dep.limit = "raised"
        BY <1>1, <2>1, <3>1
      <3>2. CASE dep.limit # "raised"
        <4>1. dep' = NewTemplate([dep EXCEPT !.limit = "raised"])
          BY <2>1, <3>2
        <4>2. /\ [dep EXCEPT !.limit = "raised"] \in Deployment
              /\ [dep EXCEPT !.limit = "raised"].limit = "raised"
              /\ [dep EXCEPT !.limit = "raised"].gen = dep.gen
              /\ [dep EXCEPT !.limit = "raised"].replicas = dep.replicas
          BY <1>1 DEF Deployment
        <4>3. QED
          BY <4>1, <4>2, TemplateTyped
      <3>3. QED
        BY <3>1, <3>2
    <2>3. Fixed(act[h].replicas)'
      BY <1>4, <2>2 DEF Fixed
    <2>4. DepMoves
      BY <1>2, <1>4, <2>2 DEF DepMoves
    <2>5. QED
      BY <1>4, <2>2, <2>3, <2>4
  <1>5. CASE class = "under-provisioned-replicas"
    <2>1. dep' = [dep EXCEPT !.replicas = act[h].replicas]
      BY <1>1, <1>5, Tools DEF Patch, scale_deployment
    <2>2. /\ dep' \in Deployment /\ dep'.replicas = act[h].replicas
          /\ dep'.gen = dep.gen /\ act[h].replicas # 0
      BY <1>1, <1>5, <2>1 DEF Deployment
    <2>3. Fixed(act[h].replicas)'
      <3>1. class' = "under-provisioned-replicas" /\ class' # "oom"
        BY <1>5
      <3>2. act'[h].replicas = act[h].replicas
        OBVIOUS
      <3>3. QED
        BY <2>2, <3>1, <3>2 DEF Fixed
    <2>4. DepMoves
      BY <1>5, <2>2 DEF DepMoves, Restarting
    <2>5. QED
      BY <1>5, <2>2, <2>3, <2>4
  <1>6. CASE class = "bad-rollout"
    <2>1. dep' = NewTemplate(rollback_deployment)
      BY <1>1, <1>6, Tools DEF Patch, scale_deployment
    <2>2. dep.history \in {<<"good", "bad">>, <<"bad", "good">>}
      <3>1. dep.history \in {<<"good">>, <<"good", "bad">>, <<"bad", "good">>}
        BY <1>1 DEF Histories, Deployment
      <3>2. Len(<<"good">>) = 1
        OBVIOUS
      <3>3. Len(dep.history) > 1
        BY <1>6
      <3>4. ASSUME dep.history = <<"good">> PROVE FALSE
        <4>1. Len(dep.history) = 1
          BY ONLY <3>2, <3>4, Zenon
        <4>2. QED
          BY ONLY <3>3, <4>1
      <3>5. QED
        BY ONLY <3>1, <3>4, Zenon
    <2>3. /\ dep'.replicas = dep.replicas /\ dep'.gen = dep.gen + 1
          /\ dep'.limit = dep.limit
          /\ dep'.history = <<dep.history[2], dep.history[1]>>
      BY <1>1, <2>1 DEF NewTemplate, rollback_deployment, Deployment
    <2>4. /\ dep'.history \in {<<"good", "bad">>, <<"bad", "good">>}
          /\ dep.history = <<"good", "bad">> => dep'.history = <<"bad", "good">>
      BY <2>2, <2>3
    <2>5. dep' \in Deployment
      <3>1. PICK history \in {<<"good", "bad">>, <<"bad", "good">>} :
                dep' = NewTemplate([dep EXCEPT !.history = history])
        BY <2>1, <2>2 DEF rollback_deployment
      <3>2. [dep EXCEPT !.history = history] \in Deployment
        BY <1>1, <3>1 DEF Deployment, Histories
      <3>3. QED
        BY <3>1, <3>2, TemplateTyped
    <2>6. DepMoves
      BY <1>6, <2>3, <2>5 DEF DepMoves, Restarting
    <2>7. QED
      BY <1>6, <2>3, <2>4, <2>6, Revisions
  <1>7. QED
    BY <1>1, <1>3, <1>4, <1>5, <1>6, Tools DEF Watched, Restarting

LEMMA SoundPatch ==
    ASSUME Sound, NEW h \in Runs, patch_deployment(h)
    PROVE  Sound'
  <1> USE DEF Sound, RemediationInv
  <1>u. UNCHANGED <<class, pods, episode, scorer, broken>>
    BY DEF patch_deployment
  <1>1. act[h].pc = "apply" /\ class # "disk-full" /\ class \in Classes
    BY Tools DEF patch_deployment, TypeOK
  <1>2. ASSUME NEW ok \in BOOLEAN, HandlerMoves(h, "reply", ok)
        PROVE  HandlersFit' /\ OldPodsGo'
    BY <1>u, <1>1, <1>2 DEF HandlerMoves, HandlersFit, OldPodsGo
  <1>3. CASE /\ tool = "rollback_deployment" => Len(dep.history) > 1
             /\ dep' = Patch(h) /\ ActTo(h, "reply") /\ MarkLate(h)
    <2>1. HandlerMoves(h, "reply", act[h].ok) /\ act[h].ok \in BOOLEAN
      BY <1>3, HandlerMoved DEF TypeOK, Handler
    <2>2. /\ DepMoves /\ (dep'.replicas = 0 => dep.replicas = 0)
          /\ (class = "bad-rollout" /\ dep.history = <<"good", "bad">>) =>
                 Last(dep'.history) = "good"
          /\ class # "bad-rollout" => Fixed(act[h].replicas)'
      BY <1>u, <1>1, <1>3, <2>1, Patched, Tools DEF HandlerMoves
    <2>3. HandlerFrame /\ (~window'.late => Waited(h))
      BY <1>u, <1>3, <2>2, LateMarked DEF HandlerFrame
    <2>4. /\ TypeOK' /\ ScorerFits' /\ OneCurrentPod' /\ WindowFits' /\ VerdictHonest'
      BY <2>1, <2>3, HandlerFrameKeeps DEF HandlerMoves
    <2>5. HandlersFit' /\ OldPodsGo'
      BY <1>2, <2>1
    <2>6. ZeroIsOwned'
      BY <1>u, <1>1, <2>1, <2>2 DEF HandlerMoves, ZeroIsOwned
    <2>7. FixStands'
      <3>1. SUFFICES ASSUME ~window'.late PROVE FixStands'
        BY DEF FixStands
      <3>2. /\ scorer.n = h /\ scorer.pc = "wait" /\ ~window.late
            /\ episode.runs > 0 /\ episode.runs \in Nat
        BY <2>3, <3>1, RemediationAssumption
           DEF Waited, HandlerFrame, ScorerFits, Quiet, TypeOK
      <3>3. ~(\E k \in Runs : Waited(k)' /\ act'[k].pc = "apply")
        BY <1>u, <2>1, <3>2 DEF HandlerMoves, Waited
      <3>4. Fixed(act[h].replicas)'
        <4>1. CASE class # "bad-rollout"
          BY <2>2, <4>1
        <4>2. CASE class = "bad-rollout"
          <5>1. episode.runs = 1 => dep.history = <<"good", "bad">>
            <6>1. ~episode.scored /\ ~episode.next
              BY <3>2 DEF ScorerFits, Quiet
            <6>2. QED
              BY <1>1, <3>2, <4>2, <6>1 DEF FixStands, Waited
          <5>2. QED
            BY <1>u, <2>2, <3>2, <4>2, <5>1 DEF Fixed
        <4>3. QED
          BY <4>1, <4>2
      <3>5. \A k \in Runs : Waited(k)' => k = h
        BY <1>u, <3>2 DEF Waited
      <3>6. act'[h].replicas = act[h].replicas /\ act'[h].pc = "reply"
        BY <2>1 DEF HandlerMoves
      <3>7. QED
        BY <1>u, <3>2, <3>3, <3>4, <3>5, <3>6 DEF FixStands
    <2>8. QED
      BY <2>4, <2>5, <2>6, <2>7, Derived
  <1>4. CASE ActFails(h, "reply") /\ UNCHANGED <<dep, window>>
    <2>1. HandlerMoves(h, "reply", FALSE)
      BY <1>4, HandlerMoved DEF TypeOK
    <2>2. HandlerFrame
      BY <1>u, <1>4, DepStays, WindowStays DEF HandlerFrame
    <2>3. /\ TypeOK' /\ ScorerFits' /\ OneCurrentPod' /\ WindowFits' /\ VerdictHonest'
      BY <2>1, <2>2, HandlerFrameKeeps DEF HandlerMoves
    <2>4. HandlersFit' /\ OldPodsGo'
      BY <1>2, <2>1
    <2>5. ZeroIsOwned'
      BY <1>u, <1>1, <1>4, <2>1 DEF HandlerMoves, ZeroIsOwned
    <2>6. FixStands'
      BY <1>u, <1>1, <1>4, <2>1 DEF HandlerMoves, FixStands, Waited, Fixed
    <2>7. QED
      BY <2>3, <2>4, <2>5, <2>6, Derived
  <1>5. QED
    BY <1>3, <1>4 DEF patch_deployment

\* restore_from_disk_full: to zero; the wait; up again; the wait.
LEMMA SoundScaleDown ==
    ASSUME Sound, NEW h \in Runs, ScaleDown(h)
    PROVE  Sound'
  <1> USE DEF Sound, RemediationInv
  <1>u. UNCHANGED <<class, pods, episode, scorer, broken>>
    BY DEF ScaleDown
  <1>1. act[h].pc = "apply" /\ class = "disk-full" /\ act[h] \in Handler
    BY Tools DEF ScaleDown, TypeOK
  <1>2. CASE /\ dep' = [dep EXCEPT !.replicas = 0] /\ MarkLate(h)
             /\ act' = [act EXCEPT ![h].pc = "gone", ![h].old = Running]
    <2>1. /\ act' \in [Runs -> Handler] /\ act'[h].pc = "gone"
          /\ act'[h].old = Running
          /\ \A k \in Runs : k # h => act'[k] = act[k]
      <3>1. Running \subseteq 1..MaxPods
        BY PodsTyped DEF Running
      <3>2. [act[h] EXCEPT !.pc = "gone", !.old = Running] \in Handler
        BY <1>1, <3>1 DEF Handler
      <3>3. act' = [act EXCEPT ![h] = [act[h] EXCEPT !.pc = "gone", !.old = Running]]
        BY <1>1, <1>2 DEF Handler, TypeOK
      <3>4. QED
        BY <1>1, <3>2, <3>3 DEF TypeOK, Handler
    <2>2. DepMoves
      BY <1>u, <1>1, <1>2 DEF DepMoves, Deployment, TypeOK, Restarting
    <2>3. HandlerFrame /\ (~window'.late => Waited(h))
      BY <1>u, <1>2, <2>2, LateMarked DEF HandlerFrame
    <2>4. TypeOK' /\ ScorerFits' /\ OneCurrentPod' /\ WindowFits' /\ VerdictHonest'
      BY <2>1, <2>3, HandlerFrameKeeps
    <2>5. HandlersFit'
      BY <1>u, <1>1, <2>1 DEF HandlersFit
    <2>6. OldPodsGo'
      <3>1. \A p \in Running : p \in DOMAIN pods /\ pods[p].phase # "failing"
        BY DEF Running
      <3>2. QED
        BY <1>u, <1>1, <2>1, <3>1 DEF OldPodsGo
    <2>7. ZeroIsOwned'
      BY <2>1 DEF ZeroIsOwned
    <2>8. FixStands'
      <3>1. SUFFICES ASSUME ~window'.late PROVE FixStands'
        BY DEF FixStands
      <3>2. scorer.n = h /\ scorer.pc = "wait"
        BY <2>3, <3>1 DEF Waited
      <3>3. QED
        BY <1>u, <1>1, <2>1, <3>2 DEF FixStands, Waited
    <2>9. QED
      BY <2>4, <2>5, <2>6, <2>7, <2>8, Derived
  <1>3. CASE broken /\ ActFails(h, "reply") /\ UNCHANGED <<dep, window>>
    <2>1. HandlerMoves(h, "reply", FALSE)
      BY <1>3, HandlerMoved DEF TypeOK
    <2>2. HandlerFrame
      BY <1>u, <1>3, DepStays, WindowStays DEF HandlerFrame
    <2>3. TypeOK' /\ ScorerFits' /\ OneCurrentPod' /\ WindowFits' /\ VerdictHonest'
      BY <2>1, <2>2, HandlerFrameKeeps DEF HandlerMoves
    <2>4. HandlersFit'
      BY <1>u, <1>1, <2>1 DEF HandlerMoves, HandlersFit
    <2>5. OldPodsGo'
      BY <1>u, <1>1, <2>1 DEF HandlerMoves, OldPodsGo
    <2>6. ZeroIsOwned'
      BY <1>u, <1>3 DEF ZeroIsOwned
    <2>7. FixStands'
      BY <1>u, <1>1, <1>3, <2>1 DEF HandlerMoves, FixStands, Waited, Fixed
    <2>8. QED
      BY <2>3, <2>4, <2>5, <2>6, <2>7, Derived
  <1>4. QED
    BY <1>2, <1>3 DEF ScaleDown

LEMMA SoundWaitGone ==
    ASSUME Sound, NEW h \in Runs, WaitGone(h)
    PROVE  Sound'
  <1> USE DEF Sound, RemediationInv
  <1>u. UNCHANGED <<class, dep, pods, episode, scorer, broken, window>>
    BY DEF WaitGone
  <1>1. act[h].pc = "gone" /\ class = "disk-full" /\ act[h] \in Handler
    BY DEF WaitGone, HandlersFit, TypeOK
  <1>2. /\ act' \in [Runs -> Handler] /\ act'[h].pc = "up"
        /\ act'[h].gone = (Running = {}) /\ act'[h].old = act[h].old
        /\ act'[h].ok = act[h].ok
        /\ \A k \in Runs : k # h => act'[k] = act[k]
    <2> DEFINE new == [act[h] EXCEPT !.pc = "up", !.gone = (Running = {})]
    <2>1. (Running = {}) \in BOOLEAN
      OBVIOUS
    <2>2. /\ new \in Handler /\ new.pc = "up" /\ new.gone = (Running = {})
          /\ new.old = act[h].old /\ new.ok = act[h].ok
      BY <1>1, <2>1 DEF Handler
    <2>3. act' = [act EXCEPT ![h] = new]
      BY <1>1 DEF WaitGone, Handler, TypeOK
    <2> HIDE DEF new
    <2>4. QED
      BY <2>2, <2>3 DEF TypeOK
  <1>3. HandlerFrame
    BY <1>u, DepStays, WindowStays DEF HandlerFrame
  <1>4. TypeOK' /\ ScorerFits' /\ OneCurrentPod' /\ WindowFits' /\ VerdictHonest'
    BY <1>2, <1>3, HandlerFrameKeeps
  <1>5. HandlersFit'
    BY <1>u, <1>1, <1>2 DEF HandlersFit
  <1>6. OldPodsGo'
    <2>1. ASSUME Running = {}, NEW p \in act[h].old
          PROVE  pods[p].phase = "gone"
      <3>1. p \in DOMAIN pods /\ pods[p].phase # "failing"
        BY DEF OldPodsGo
      <3>2. pods[p].phase \in Phases
        BY <3>1, PodsTyped DEF Pod
      <3>3. pods[p].phase \notin {"running", "ready", "dying"}
        BY <2>1, <3>1 DEF Running
      <3>4. QED
        BY <3>1, <3>2, <3>3 DEF Phases
    <2>2. QED
      BY ZenonT(60), <1>u, <1>1, <1>2, <2>1 DEF OldPodsGo
  <1>7. ZeroIsOwned'
    BY <1>2 DEF ZeroIsOwned
  <1>8. FixStands'
    BY <1>u, <1>1, <1>2 DEF FixStands, Waited, Fixed
  <1>9. QED
    BY <1>4, <1>5, <1>6, <1>7, <1>8, Derived

LEMMA SoundScaleUp ==
    ASSUME Sound, NEW h \in Runs, ScaleUp(h)
    PROVE  Sound'
  <1> USE DEF Sound, RemediationInv
  <1>u. UNCHANGED <<class, pods, episode, scorer, broken>>
    BY DEF ScaleUp
  <1>1. act[h].pc = "up" /\ class = "disk-full"
    BY DEF ScaleUp, HandlersFit
  <1>2. CASE dep' = [dep EXCEPT !.replicas = 1] /\ ActTo(h, "back") /\ MarkLate(h)
    <2>1. HandlerMoves(h, "back", act[h].ok)
      BY <1>2, HandlerMoved DEF TypeOK
    <2>2. DepMoves /\ dep'.replicas = 1
      BY <1>u, <1>1, <1>2 DEF DepMoves, Deployment, TypeOK, Restarting
    <2>3. HandlerFrame /\ (~window'.late => Waited(h))
      BY <1>u, <1>2, <2>2, LateMarked DEF HandlerFrame
    <2>4. TypeOK' /\ ScorerFits' /\ OneCurrentPod' /\ WindowFits' /\ VerdictHonest'
      BY <2>1, <2>3, HandlerFrameKeeps DEF HandlerMoves
    <2>5. HandlersFit'
      BY <1>u, <1>1, <2>1 DEF HandlerMoves, HandlersFit
    <2>6. OldPodsGo'
      BY <1>u, <1>1, <2>1 DEF HandlerMoves, OldPodsGo
    <2>7. ZeroIsOwned'
      BY <2>2 DEF ZeroIsOwned
    <2>8. FixStands'
      <3>1. SUFFICES ASSUME ~window'.late PROVE FixStands'
        BY DEF FixStands
      <3>2. scorer.n = h /\ scorer.pc = "wait"
        BY <2>3, <3>1 DEF Waited
      <3>3. QED
        BY <1>u, <1>1, <2>1, <2>2, <3>2 DEF HandlerMoves, FixStands, Waited
    <2>9. QED
      BY <2>4, <2>5, <2>6, <2>7, <2>8, Derived
  <1>3. CASE broken /\ ActFails(h, "reply") /\ UNCHANGED <<dep, window>>
    <2>1. HandlerMoves(h, "reply", FALSE)
      BY <1>3, HandlerMoved DEF TypeOK
    <2>2. HandlerFrame
      BY <1>u, <1>3, DepStays, WindowStays DEF HandlerFrame
    <2>3. TypeOK' /\ ScorerFits' /\ OneCurrentPod' /\ WindowFits' /\ VerdictHonest'
      BY <2>1, <2>2, HandlerFrameKeeps DEF HandlerMoves
    <2>4. HandlersFit'
      BY <1>u, <1>1, <2>1 DEF HandlerMoves, HandlersFit
    <2>5. OldPodsGo'
      BY <1>u, <1>1, <2>1 DEF HandlerMoves, OldPodsGo
    <2>6. ZeroIsOwned'
      BY <1>u, <1>3 DEF ZeroIsOwned
    <2>7. FixStands'
      BY <1>u, <1>1, <1>3, <2>1 DEF HandlerMoves, FixStands, Waited, Fixed
    <2>8. QED
      BY <2>3, <2>4, <2>5, <2>6, <2>7, Derived
  <1>4. QED
    BY <1>2, <1>3 DEF ScaleUp

LEMMA SoundWaitBack ==
    ASSUME Sound, NEW h \in Runs, WaitBack(h)
    PROVE  Sound'
  <1> USE DEF Sound, RemediationInv
  <1>u. UNCHANGED <<class, dep, pods, episode, scorer, broken, window>>
    BY DEF WaitBack
  <1>1. act[h].pc = "back" /\ class = "disk-full" /\ act[h] \in Handler
    BY DEF WaitBack, HandlersFit, TypeOK
  <1>2. PICK ok \in BOOLEAN : HandlerMoves(h, "reply", ok) /\ (ok => act[h].gone)
    <2> DEFINE ok == act[h].gone /\ Cardinality(Running) = 1
               new == [act[h] EXCEPT !.pc = "reply", !.ok = ok]
    <2>1. ok \in BOOLEAN /\ (ok => act[h].gone)
      BY <1>1 DEF Handler
    <2>2. act' = [act EXCEPT ![h] = new]
      BY <1>1 DEF WaitBack, Handler, TypeOK
    <2> HIDE DEF ok
    <2>3. /\ new \in Handler /\ new.pc = "reply" /\ new.ok = ok
          /\ new.gone = act[h].gone /\ new.old = act[h].old
          /\ new.replicas = act[h].replicas
      BY <1>1, <2>1 DEF Handler
    <2> HIDE DEF new
    <2>4. HandlerMoves(h, "reply", ok)
      BY <2>2, <2>3 DEF HandlerMoves, TypeOK
    <2>5. QED
      BY <2>1, <2>4
  <1>3. HandlerFrame
    BY <1>u, DepStays, WindowStays DEF HandlerFrame
  <1>4. TypeOK' /\ ScorerFits' /\ OneCurrentPod' /\ WindowFits' /\ VerdictHonest'
    BY <1>2, <1>3, HandlerFrameKeeps DEF HandlerMoves
  <1>5. HandlersFit'
    BY <1>u, <1>1, <1>2 DEF HandlerMoves, HandlersFit
  <1>6. OldPodsGo'
    BY <1>u, <1>1, <1>2 DEF HandlerMoves, OldPodsGo
  <1>7. ZeroIsOwned'
    BY <1>u, <1>1, <1>2 DEF HandlerMoves, ZeroIsOwned
  <1>8. FixStands'
    BY <1>u, <1>1, <1>2 DEF HandlerMoves, FixStands, Waited, Fixed
  <1>9. QED
    BY <1>4, <1>5, <1>6, <1>7, <1>8, Derived

\* The scorer hears the outcome if it still waits.
LEMMA SoundReply ==
    ASSUME Sound, NEW h \in Runs, Reply(h)
    PROVE  Sound'
  <1> USE DEF Sound, RemediationInv
  <1>u. UNCHANGED <<class, dep, pods, episode, broken, window>>
    BY DEF Reply
  <1>1. act[h].pc = "reply" /\ act[h] \in Handler /\ scorer \in ScorerRun
    BY DEF Reply, TypeOK
  <1>2. /\ act' \in [Runs -> Handler] /\ act'[h].pc = "done" /\ act'[h].old = {}
        /\ \A k \in Runs : k # h => act'[k] = act[k]
    BY HandlerOver DEF Reply, TypeOK
  <1>3. \/ scorer' = scorer
        \/ Waited(h) /\ act[h].ok /\
              scorer' = [scorer EXCEPT !.pc = "capture", !.replicas = act[h].replicas]
        \/ Waited(h) /\ scorer' = [scorer EXCEPT !.pc = "score", !.verdict = "failed"]
    BY DEF Reply
  <1>4. /\ scorer' \in ScorerRun /\ scorer'.n = scorer.n /\ scorer'.pod = scorer.pod
        /\ scorer'.polls = scorer.polls
        /\ \/ scorer' = scorer
           \/ /\ scorer.pc = "wait" /\ scorer.n = h
              /\ \/ /\ scorer'.pc = "capture" /\ act[h].ok
                    /\ scorer'.replicas = act[h].replicas
                    /\ scorer'.verdict = scorer.verdict
                 \/ scorer'.pc = "score" /\ scorer'.verdict = "failed"
    <2>1. CASE scorer' = scorer
      BY <1>1, <2>1
    <2>2. CASE /\ Waited(h) /\ act[h].ok
               /\ scorer' = [scorer EXCEPT !.pc = "capture", !.replicas = act[h].replicas]
      <3>1. act[h].replicas \in 0..3
        BY <1>1 DEF Handler
      <3>2. QED
        BY <1>1, <2>2, <3>1 DEF ScorerRun, Waited
    <2>3. CASE /\ Waited(h)
               /\ scorer' = [scorer EXCEPT !.pc = "score", !.verdict = "failed"]
      BY <1>1, <2>3 DEF ScorerRun, Waited
    <2>4. QED
      BY <1>3, <2>1, <2>2, <2>3
  <1>5. TypeOK'
    BY <1>u, <1>2, <1>4 DEF TypeOK
  <1>6. ScorerFits'
    BY <1>u, <1>4 DEF ScorerFits, Quiet
  <1>7. OneCurrentPod' /\ WindowFits' /\ VerdictHonest'
    BY <1>u, <1>4, DepStays, WindowStays, DepMovesKeeps
  <1>8. HandlersFit'
    BY <1>u, <1>1, <1>2, <1>4 DEF HandlersFit
  <1>9. OldPodsGo'
    BY <1>u, <1>1, <1>2 DEF OldPodsGo
  <1>10. ZeroIsOwned'
    BY <1>u, <1>1, <1>2 DEF ZeroIsOwned
  <1>11. FixStands'
    <2>1. SUFFICES ASSUME ~window.late PROVE FixStands'
      BY <1>u DEF FixStands
    <2>2. \A k \in Runs : (Waited(k) /\ act[k].pc = "reply" /\ act[k].ok) =>
              Fixed(act[k].replicas)
      BY <2>1 DEF FixStands
    <2>3. CASE scorer' = scorer
      BY <1>u, <1>2, <2>1, <2>3 DEF FixStands, Waited, Fixed
    <2>4. CASE /\ scorer.pc = "wait" /\ scorer.n = h /\ scorer'.pc = "capture"
               /\ act[h].ok /\ scorer'.replicas = act[h].replicas
      <3>1. Fixed(scorer'.replicas)
        BY <1>1, <2>2, <2>4 DEF Waited
      <3>2. Fixed(scorer.replicas)'
        BY <1>u, <3>1 DEF Fixed
      <3>3. episode.runs > 0 /\ episode.runs \in Nat
        BY <2>4, RemediationAssumption DEF ScorerFits, Quiet, TypeOK
      <3>4. QED
        BY <1>u, <2>4, <3>2, <3>3 DEF FixStands, Waited
    <2>5. CASE scorer.pc = "wait" /\ scorer'.pc = "score"
      <3>1. episode.runs > 0 /\ episode.runs \in Nat
        BY <2>5, RemediationAssumption DEF ScorerFits, Quiet, TypeOK
      <3>2. QED
        BY <1>u, <2>5, <3>1 DEF FixStands, Waited
    <2>6. QED
      BY <1>4, <2>3, <2>4, <2>5
  <1>12. QED
    BY <1>5, <1>6, <1>7, <1>8, <1>9, <1>10, <1>11, Derived

LEMMA SoundHandlerDies ==
    ASSUME Sound, NEW h \in Runs, HandlerDies(h)
    PROVE  Sound'
  <1> USE DEF Sound, RemediationInv
  <1>u. UNCHANGED <<class, dep, pods, episode, broken, window>> /\ broken
    BY DEF HandlerDies
  <1>1. scorer \in ScorerRun
    BY DEF TypeOK
  <1>2. /\ act' \in [Runs -> Handler] /\ act'[h].pc = "died" /\ act'[h].old = {}
        /\ \A k \in Runs : k # h => act'[k] = act[k]
    BY HandlerOver DEF HandlerDies, TypeOK
  <1>3. act[h].pc # "none"
    BY DEF HandlerDies
  <1>4. \/ scorer' = scorer
        \/ /\ scorer.pc = "wait" /\ scorer' \in ScorerRun /\ scorer'.n = scorer.n
           /\ scorer'.pc = "dead" /\ scorer'.pod = 0 /\ scorer'.polls = 0
           /\ scorer'.verdict = "none"
    BY <1>1, RunEnded DEF HandlerDies, Waited
  <1>5. TypeOK'
    BY <1>u, <1>2, <1>4 DEF TypeOK
  <1>6. ScorerFits'
    BY <1>u, <1>4, RemediationAssumption DEF ScorerFits, Quiet
  <1>7. OneCurrentPod' /\ WindowFits' /\ VerdictHonest'
    BY <1>u, <1>4, DepStays, WindowStays, DepMovesKeeps
  <1>8. HandlersFit'
    BY <1>u, <1>2, <1>3, <1>4 DEF HandlersFit
  <1>9. OldPodsGo'
    BY <1>u, <1>2 DEF OldPodsGo
  <1>10. ZeroIsOwned'
    BY <1>u DEF ZeroIsOwned
  <1>11. FixStands'
    <2>1. CASE scorer' = scorer
      BY <1>u, <1>2, <2>1 DEF FixStands, Waited, Fixed
    <2>2. CASE scorer.pc = "wait" /\ scorer'.pc = "dead"
      <3>1. episode.runs > 0 /\ episode.runs \in Nat
        BY <2>2, RemediationAssumption DEF ScorerFits, Quiet, TypeOK
      <3>2. QED
        BY <1>u, <2>2, <3>1 DEF FixStands, Waited
    <2>3. QED
      BY <1>4, <2>1, <2>2
  <1>12. QED
    BY <1>5, <1>6, <1>7, <1>8, <1>9, <1>10, <1>11, Derived

-----------------------------------------------------------------------------
(* The injector.                                                           *)

LEMMA BaselineMoves ==
    ASSUME Sound, UNCHANGED <<class, pods, broken>>,
           class # "disk-full", dep' = LimitBaseline
    PROVE  DepMoves /\ dep'.replicas = 1 /\ dep'.history = dep.history
  <1> DEFINE d == [dep EXCEPT !.replicas = 1, !.limit = "base"]
  <1>1. dep \in Deployment
    BY DEF Sound, RemediationInv, TypeOK, Deployment
  <1>2. /\ d \in Deployment /\ d.replicas = 1 /\ d.gen = dep.gen
        /\ d.history = dep.history
    <2> DEFINE one == [dep EXCEPT !.replicas = 1]
    <2>1. /\ one \in Deployment /\ one.replicas = 1 /\ one.gen = dep.gen
          /\ one.history = dep.history
      BY <1>1 DEF Deployment
    <2>2. d = [one EXCEPT !.limit = "base"]
      BY ONLY <1>1 DEF Deployment
    <2> HIDE DEF one, d
    <2>3. QED
      BY <2>1, <2>2 DEF Deployment
  <1>3. dep' = d \/ dep' = NewTemplate(d)
    BY DEF LimitBaseline
  <1> HIDE DEF d
  <1>4. /\ dep' \in Deployment /\ dep'.replicas = 1 /\ dep'.history = dep.history
        /\ dep'.gen = dep.gen \/ dep'.gen = dep.gen + 1
    BY <1>2, <1>3, TemplateTyped
  <1>5. QED
    BY <1>4 DEF DepMoves

LEMMA SoundEnsureBaseline ==
    ASSUME Sound, EnsureBaseline
    PROVE  Sound'
  <1> USE DEF Sound, RemediationInv
  <1>u. /\ UNCHANGED <<class, pods, scorer, act, broken, window>>
        /\ episode' = [episode EXCEPT !.next = TRUE]
        /\ Quiet /\ dep \in Deployment /\ class \in Classes
    BY DEF EnsureBaseline, TypeOK, Deployment
  <1>1. DepMoves /\ (dep'.replicas = 0 => dep.replicas = 0)
    <2>1. CASE /\ class \in {"oom", "under-provisioned-replicas", "cpu-throttling"}
               /\ dep' = LimitBaseline
      BY <1>u, <2>1, BaselineMoves
    <2>2. CASE class = "bad-rollout" /\ Last(dep.history) = "bad"
      <3> DEFINE d == [dep EXCEPT !.history = <<"bad", "good">>]
      <3>1. dep' = NewTemplate(d)
        BY <2>2 DEF EnsureBaseline
      <3>2. d \in Deployment /\ d.gen = dep.gen /\ d.replicas = dep.replicas
        <4>1. <<"bad", "good">> \in Histories
          BY DEF Histories
        <4>2. QED
          BY ONLY <1>u, <4>1 DEF Deployment
      <3> HIDE DEF d
      <3>3. QED
        BY <1>u, <2>2, <3>1, <3>2, TemplateTyped DEF DepMoves, Restarting
    <2>3. CASE dep' = dep
      BY <1>u, <2>3, DepStays
    <2>4. QED
      BY <2>1, <2>2, <2>3 DEF EnsureBaseline
  <1>2. TypeOK'
    BY <1>u, <1>1 DEF TypeOK, DepMoves, Deployment
  <1>3. /\ episode'.runs = episode.runs /\ episode'.scored = episode.scored
        /\ episode'.next = TRUE /\ episode'.n = episode.n
        /\ episode.n < MaxEpisodes
    BY <1>u DEF EnsureBaseline, TypeOK
  <1>4. ScorerFits'
    BY <1>u, <1>3 DEF ScorerFits, Quiet
  <1>5. OneCurrentPod' /\ WindowFits' /\ VerdictHonest'
    BY <1>u, <1>1, WindowStays, DepMovesKeeps
  <1>6. HandlersFit' /\ OldPodsGo'
    BY <1>u DEF HandlersFit, OldPodsGo
  <1>7. ZeroIsOwned'
    BY <1>u, <1>1 DEF ZeroIsOwned
  <1>8. FixStands'
    BY <1>u, <1>3 DEF FixStands, Waited, Quiet
  <1>9. QED
    BY <1>2, <1>4, <1>5, <1>6, <1>7, <1>8, Derived

\* Pods and templates are numbered anew: at most one pod is left.
LEMMA SoundInject ==
    ASSUME Sound, Inject
    PROVE  Sound'
  <1> USE DEF Sound, RemediationInv
  <1>u. /\ UNCHANGED <<class, scorer, broken>> /\ window' = NoWindow
        /\ episode' = [n |-> episode.n + 1, scored |-> FALSE, runs |-> 0, next |-> FALSE]
        /\ act' = [h \in Runs |-> [act[h] EXCEPT !.old = {}]]
        /\ dep \in Deployment /\ dep.replicas = 1 /\ Last(dep.history) = "good"
        /\ class \in Classes /\ episode.next
    BY DEF Inject, TypeOK, Deployment
  <1>1. Quiet /\ scorer.pod = 0
    BY <1>u DEF ScorerFits, Quiet
  <1>2. episode.n < MaxEpisodes
    BY DEF ScorerFits, Inject
  <1>3. /\ act' \in [Runs -> Handler]
        /\ \A h \in Runs : /\ act'[h].pc = act[h].pc /\ act'[h].ok = act[h].ok
                           /\ act'[h].old = {} /\ act'[h].gone = act[h].gone
                           /\ act'[h].replicas = act[h].replicas
    <2>1. \A h \in Runs :
            LET new == [act[h] EXCEPT !.old = {}]
            IN /\ new \in Handler /\ new.pc = act[h].pc /\ new.ok = act[h].ok
               /\ new.old = {} /\ new.gone = act[h].gone
               /\ new.replicas = act[h].replicas
      BY ZenonT(60) DEF TypeOK, Handler
    <2>2. QED
      BY <1>u, <2>1
  <1>4. /\ dep' \in Deployment /\ dep'.replicas = 1 /\ dep'.gen >= 1
        /\ class \in {"disk-full"} => dep'.gen = 1
        /\ class = "bad-rollout" => dep'.history = <<"good", "bad">>
    <2>1. CASE class = "bad-rollout"
      <3>1. dep' = [dep EXCEPT !.gen = 2, !.history = <<"good", "bad">>]
        BY <2>1 DEF Inject
      <3>2. <<"good", "bad">> \in Histories
        BY DEF Histories
      <3>3. /\ dep' \in Deployment /\ dep'.replicas = dep.replicas
            /\ dep'.gen = 2 /\ dep'.history = <<"good", "bad">>
        BY ONLY <1>u, <3>1, <3>2 DEF Deployment
      <3>4. QED
        BY <1>u, <2>1, <3>3
    <2>2. CASE class = "cpu-throttling" /\ dep' = [dep EXCEPT !.gen = 2]
      BY <1>u, <2>2 DEF Deployment
    <2>3. CASE class # "bad-rollout" /\ dep' = [dep EXCEPT !.gen = 1]
      BY <1>u, <2>3 DEF Deployment
    <2>4. QED
      BY <2>1, <2>2, <2>3 DEF Inject
  <1>5. /\ pods' \in Seq(Pod) /\ Len(pods') <= MaxPods
        /\ DOMAIN pods' \subseteq {1}
        /\ \A p \in DOMAIN pods' : /\ pods'[p].phase \in {"running", "ready"}
                                   /\ pods'[p].gen = 1
    <2>1. PICK p \in Alive :
            /\ pods[p].phase = "ready"
            /\ pods' = CASE class \in Restarting ->
                              <<[phase |-> "running", gen |-> 1, restarts |-> 0]>>
                         [] class = "disk-full" -> << >>
                         [] OTHER -> <<[pods[p] EXCEPT !.gen = 1]>>
      BY DEF Inject
    <2>2. 1 <= MaxPods /\ MaxPods \in Nat /\ pods[p] \in Pod
      BY <2>1, PodsTyped, RemediationAssumption DEF Alive
    <2>3. ASSUME NEW one \in Pod, one.phase \in {"running", "ready"}, one.gen = 1,
                 pods' = <<one>>
          PROVE  /\ pods' \in Seq(Pod) /\ Len(pods') <= MaxPods
                 /\ DOMAIN pods' \subseteq {1}
                 /\ \A q \in DOMAIN pods' : /\ pods'[q].phase \in {"running", "ready"}
                                            /\ pods'[q].gen = 1
      <3>1. pods' \in Seq(Pod) /\ Len(pods') = 1 /\ DOMAIN pods' = {1} /\ pods'[1] = one
        BY <2>3
      <3>2. QED
        BY <2>2, <2>3, <3>1
    <2>4. CASE class \in Restarting
      <3>1. [phase |-> "running", gen |-> 1, restarts |-> 0] \in Pod
        BY DEF Pod, Phases
      <3>2. pods' = <<[phase |-> "running", gen |-> 1, restarts |-> 0]>>
        <4> DEFINE one == <<[phase |-> "running", gen |-> 1, restarts |-> 0]>>
                   two == <<[pods[p] EXCEPT !.gen = 1]>>
        <4>1. pods' = CASE class \in Restarting -> one
                        [] class = "disk-full" -> << >> [] OTHER -> two
          BY <2>1
        <4>2. class # "disk-full"
          BY <2>4 DEF Restarting
        <4> HIDE DEF one, two
        <4>3. pods' = one
          BY ONLY <2>4, <4>1, <4>2
        <4>4. QED
          BY <4>3 DEF one
      <3>3. QED
        BY <2>3, <3>1, <3>2
    <2>5. CASE class = "disk-full"
      <3>1. pods' = << >>
        BY <2>1, <2>5 DEF Restarting
      <3>2. DOMAIN pods' = {} /\ Len(pods') = 0 /\ pods' \in Seq(Pod)
        BY <3>1, EmptySeq
      <3>3. QED
        BY <2>2, <3>2
    <2>6. CASE class \notin Restarting /\ class # "disk-full"
      <3>1. /\ [pods[p] EXCEPT !.gen = 1] \in Pod
            /\ [pods[p] EXCEPT !.gen = 1].gen = 1
            /\ [pods[p] EXCEPT !.gen = 1].phase = "ready"
        BY <2>1, <2>2 DEF Pod
      <3>2. pods' = <<[pods[p] EXCEPT !.gen = 1]>>
        BY <2>1, <2>6
      <3>3. QED
        BY <2>3, <3>1, <3>2
    <2>7. QED
      BY <2>4, <2>5, <2>6
  <1>6. TypeOK'
    <2>1. window' \in Record
      BY <1>u DEF NoWindow, Record
    <2>2. episode' \in [n : 0..MaxEpisodes, scored : BOOLEAN, runs : 0..MaxRuns,
                        next : BOOLEAN]
      BY <1>u, <1>2, RemediationAssumption DEF TypeOK
    <2>3. QED
      BY <1>u, <1>3, <1>4, <1>5, <2>1, <2>2 DEF TypeOK, Deployment
  <1>7. HandlersFit' /\ OldPodsGo'
    BY <1>u, <1>3, <1>1 DEF HandlersFit, OldPodsGo
  <1>8. ZeroIsOwned'
    BY <1>4 DEF ZeroIsOwned
  <1>9. ScorerFits'
    <2>1. episode'.runs = 0 /\ scorer.n \in Nat /\ episode'.next = FALSE
      BY <1>u DEF TypeOK, ScorerRun
    <2>2. QED
      BY <1>u, <1>1, <2>1 DEF ScorerFits, Quiet
  <1>10. OneCurrentPod'
    <2>1. Alive' = DOMAIN pods' /\ dep'.gen \in Nat
      BY <1>4, <1>5 DEF Alive, Deployment
    <2>2. \A p \in DOMAIN pods' : pods'[p].gen <= dep'.gen
      BY <1>4, <1>5, <2>1
    <2>3. Current' \subseteq DOMAIN pods'
      BY DEF Current
    <2>4. class = "disk-full" => Current' = DOMAIN pods'
      BY <1>4, <1>5 DEF Current
    <2>5. QED
      BY <1>u, <1>4, <1>5, <2>1, <2>2, <2>3, <2>4 DEF OneCurrentPod
  <1>11. FixStands'
    BY <1>u, <1>1, <1>4 DEF FixStands, Waited, Quiet
  <1>12. WindowFits' /\ VerdictHonest'
    BY <1>u, <1>1 DEF WindowFits, VerdictHonest, NoWindow, Quiet
  <1>13. QED
    BY <1>6, <1>7, <1>8, <1>9, <1>10, <1>11, <1>12, Derived

-----------------------------------------------------------------------------
(* The scorer.                                                             *)

LEMMA SoundStartScorer ==
    ASSUME Sound, StartScorer
    PROVE  Sound'
  <1> USE DEF Sound, RemediationInv
  <1>u. /\ UNCHANGED <<class, pods, broken, dep, act, window>>
        /\ Quiet /\ scorer.n < MaxRuns /\ ~episode.scored /\ ~episode.next
        /\ scorer.n \in Nat /\ MaxRuns \in Nat /\ episode.runs \in Nat
    BY RemediationAssumption DEF StartScorer, ScorerUnchanged, TypeOK, ScorerRun
  <1>1. /\ scorer' \in ScorerRun /\ scorer'.n = scorer.n + 1
        /\ scorer'.pc = "diagnose" /\ scorer'.pod = 0 /\ scorer'.polls = 0
        /\ scorer'.verdict = "none"
    <2>1. /\ NoRun \in ScorerRun /\ NoRun.verdict = "none"
          /\ NoRun.pod = 0 /\ NoRun.polls = 0
      BY RemediationAssumption DEF NoRun, ScorerRun
    <2>2. scorer' = [NoRun EXCEPT !.n = scorer.n + 1, !.pc = "diagnose"]
      BY DEF StartScorer
    <2>3. scorer.n + 1 \in 0..MaxRuns
      BY <1>u
    <2> HIDE DEF NoRun
    <2>4. QED
      BY <2>1, <2>2, <2>3 DEF ScorerRun
  <1>2. /\ episode'.runs = episode.runs + 1 /\ episode'.scored = FALSE
        /\ episode'.next = FALSE /\ episode.runs <= scorer.n
        /\ episode' \in [n : 0..MaxEpisodes, scored : BOOLEAN, runs : 0..MaxRuns,
                        next : BOOLEAN]
    <2>1. episode.runs <= scorer.n
      BY DEF ScorerFits
    <2>2. episode.runs + 1 \in 0..MaxRuns
      BY <1>u, <2>1
    <2>3. QED
      BY <1>u, <2>1, <2>2 DEF StartScorer, TypeOK
  <1>3. TypeOK'
    BY <1>u, <1>1, <1>2 DEF TypeOK
  <1>4. HandlersFit'
    <2>1. \A h \in Runs : act[h].pc # "none" => h < scorer.n + 1 /\ h <= scorer.n + 1
                                               /\ h # scorer.n + 1
      BY <1>u DEF HandlersFit, Runs
    <2>2. QED
      BY <1>u, <1>1, <2>1 DEF HandlersFit
  <1>5. OldPodsGo' /\ ZeroIsOwned'
    BY <1>u DEF OldPodsGo, ZeroIsOwned
  <1>6. ScorerFits'
    BY <1>u, <1>1, <1>2, RemediationAssumption DEF ScorerFits, Quiet
  <1>7. OneCurrentPod' /\ WindowFits' /\ VerdictHonest'
    BY <1>u, <1>1, DepStays, WindowStays, DepMovesKeeps
  <1>8. FixStands'
    BY <1>u, <1>1, <1>2 DEF FixStands, Waited
  <1>9. QED
    BY <1>3, <1>4, <1>5, <1>6, <1>7, <1>8, Derived

LEMMA SoundRequestAct ==
    ASSUME Sound, RequestAct
    PROVE  Sound'
  <1> USE DEF Sound, RemediationInv
  <1>u. /\ UNCHANGED <<class, pods, broken, dep, episode, window>>
        /\ scorer.pc = "diagnose" /\ scorer.verdict = "none" /\ scorer.pod = 0
        /\ scorer \in ScorerRun /\ class \in Classes
    BY DEF RequestAct, ScorerUnchanged, TypeOK, ScorerFits
  <1>1. scorer.n \in Runs
    BY <1>u, RemediationAssumption DEF ScorerFits, ScorerRun, Runs
  <1>2. /\ act[scorer.n].pc = "none" /\ act[scorer.n].old = {}
        /\ act[scorer.n] \in Handler
    BY <1>u, <1>1 DEF HandlersFit, OldPodsGo, TypeOK
  <1>3. /\ ~episode.scored /\ ~episode.next /\ episode.runs > 0
        /\ episode.runs \in Nat
    BY <1>u, RemediationAssumption DEF ScorerFits, Quiet, TypeOK
  <1>4. \/ /\ scorer' = [scorer EXCEPT !.pc = "wait"]
           /\ \E replicas \in IF tool = "scale_deployment" THEN {2, 3} ELSE {0} :
                act' = [act EXCEPT
                    ![scorer.n].pc = IF tool = "patch_cpu_limit" THEN "resize" ELSE "apply",
                    ![scorer.n].replicas = replicas]
        \/ scorer' = [scorer EXCEPT !.pc = "score"] /\ act' = act
    BY DEF RequestAct
  <1>5. /\ scorer' \in ScorerRun /\ scorer'.pc \in {"wait", "score"}
        /\ scorer'.n = scorer.n /\ scorer'.pod = scorer.pod
        /\ scorer'.polls = scorer.polls /\ scorer'.verdict = "none"
    BY <1>u, <1>4 DEF ScorerRun
  <1> DEFINE Requested ==
        /\ act' \in [Runs -> Handler] /\ act'[scorer.n].old = {}
        /\ act'[scorer.n].pc \in {"none", "apply", "resize"}
        /\ act'[scorer.n].pc = "resize" => class = "cpu-throttling"
        /\ (class = "under-provisioned-replicas" /\ act'[scorer.n].pc = "apply") =>
               act'[scorer.n].replicas > 0
        /\ \A h \in Runs : h # scorer.n => act'[h] = act[h]
  <1>6. Requested
    <2>1. CASE act' = act
      BY <1>1, <1>2, <2>1 DEF TypeOK
    <2>2. ASSUME NEW replicas \in IF tool = "scale_deployment" THEN {2, 3} ELSE {0},
                 NEW pc \in {"resize", "apply"},
                 pc = IF tool = "patch_cpu_limit" THEN "resize" ELSE "apply",
                 act' = [act EXCEPT ![scorer.n].pc = pc, ![scorer.n].replicas = replicas]
          PROVE  Requested
      <3> DEFINE new == [act[scorer.n] EXCEPT !.pc = pc, !.replicas = replicas]
      <3>1. /\ replicas \in 0..3
            /\ class = "under-provisioned-replicas" => replicas > 0
            /\ pc = "resize" => class = "cpu-throttling"
        BY <1>u, <2>2, Tools
      <3>2. /\ new \in Handler /\ new.pc = pc /\ new.replicas = replicas
            /\ new.old = {}
        BY <1>2, <3>1 DEF Handler
      <3>3. act' = [act EXCEPT ![scorer.n] = new]
        BY <1>1, <1>2, <2>2 DEF Handler, TypeOK
      <3> HIDE DEF new
      <3>4. /\ act' \in [Runs -> Handler] /\ act'[scorer.n] = new
            /\ \A h \in Runs : h # scorer.n => act'[h] = act[h]
        BY <1>1, <3>2, <3>3, HandlerWritten DEF TypeOK
      <3>5. QED
        BY <3>1, <3>2, <3>4
    <2>3. QED
      BY <1>4, <2>1, <2>2
  <1>7. TypeOK'
    BY <1>u, <1>5, <1>6 DEF TypeOK
  <1>8. HandlersFit'
    BY <1>u, <1>1, <1>5, <1>6, RemediationAssumption DEF HandlersFit, ScorerRun
  <1>9. OldPodsGo'
    BY <1>u, <1>1, <1>2, <1>6 DEF OldPodsGo
  <1>10. ZeroIsOwned'
    BY <1>u, <1>1, <1>2, <1>6 DEF ZeroIsOwned
  <1>11. ScorerFits'
    BY <1>u, <1>3, <1>5 DEF ScorerFits, Quiet
  <1>12. OneCurrentPod' /\ WindowFits' /\ VerdictHonest'
    BY <1>u, <1>5, DepStays, WindowStays, DepMovesKeeps
  <1>13. FixStands'
    BY <1>u, <1>1, <1>3, <1>5, <1>6 DEF FixStands, Waited
  <1>14. QED
    BY <1>7, <1>8, <1>9, <1>10, <1>11, <1>12, <1>13, Derived

\* The ends of a run: killed, scored, done.
LEMMA SoundRunEnds ==
    ASSUME Sound, ScorerDies \/ InsertScore \/ ResetCatalogue
    PROVE  Sound'
  <1> USE DEF Sound, RemediationInv
  <1>u. UNCHANGED <<class, pods, broken, act>>
    BY DEF ScorerDies, InsertScore, ResetCatalogue, ScorerUnchanged
  <1>1. scorer \in ScorerRun /\ ~Quiet /\ class \in Classes
    BY DEF ScorerDies, InsertScore, ResetCatalogue, TypeOK, Quiet
  <1>2. /\ scorer' \in ScorerRun /\ scorer'.n = scorer.n /\ scorer'.pod = 0
        /\ scorer'.polls = 0 /\ scorer'.verdict = "none"
        /\ scorer'.pc \in {"dead", "reset", "done"}
        /\ scorer'.pc = "reset" => episode'.scored
    <2>1. PICK pc \in {"dead", "reset", "done"} :
            scorer' = Ended(pc) /\ (pc = "reset" => InsertScore)
      BY DEF ScorerDies, InsertScore, ResetCatalogue
    <2>2. InsertScore => episode'.scored
      BY DEF InsertScore, TypeOK
    <2>3. QED
      BY <1>1, <2>1, <2>2, RunEnded
  <1>3. /\ episode'.runs = episode.runs /\ episode'.next = episode.next
        /\ episode'.scored \in BOOLEAN /\ episode'.n = episode.n
        /\ episode' \in [n : 0..MaxEpisodes, scored : BOOLEAN, runs : 0..MaxRuns,
                        next : BOOLEAN]
        /\ episode.runs > 0 /\ episode.runs \in Nat /\ ~episode.next
    <2>1. /\ episode.runs > 0 /\ ~episode.next
      BY <1>1 DEF ScorerFits
    <2>2. episode.runs \in Nat
      BY RemediationAssumption DEF TypeOK
    <2>3. CASE InsertScore
      BY <2>1, <2>2, <2>3 DEF InsertScore, TypeOK
    <2>4. CASE episode' = episode
      BY <2>1, <2>2, <2>4 DEF TypeOK
    <2>5. QED
      BY <2>3, <2>4 DEF ScorerDies, ResetCatalogue
  <1>4. DepMoves /\ (dep'.replicas = 0 => dep.replicas = 0)
    <2>1. CASE dep' = dep
      BY <1>u, <2>1, DepStays
    <2>2. CASE /\ class \in {"oom", "under-provisioned-replicas"}
               /\ dep' = LimitBaseline
      BY <1>u, <2>2, BaselineMoves
    <2>3. QED
      BY <2>1, <2>2 DEF ScorerDies, InsertScore, ResetCatalogue
  <1>5. /\ WindowKept \/ WindowClosed
        /\ window.late => window'.late
        /\ window' \in Record
    <2>1. CASE CloseWindow
      <3>1. window' = [NoWindow EXCEPT !.late = window.late] /\ window.late \in BOOLEAN
        BY <2>1 DEF CloseWindow, TypeOK, Record
      <3>2. window'.late = window.late
        BY <3>1 DEF NoWindow
      <3>3. window' \in Record
        BY <3>1 DEF NoWindow, Record
      <3>4. QED
        BY <3>1, <3>2, <3>3 DEF WindowClosed
    <2>2. CASE UNCHANGED window
      BY <2>2, WindowStays
    <2>3. QED
      BY <2>1, <2>2 DEF ScorerDies, InsertScore, ResetCatalogue
  <1>6. TypeOK'
    BY <1>u, <1>2, <1>3, <1>4, <1>5 DEF TypeOK, DepMoves
  <1>7. HandlersFit' /\ OldPodsGo'
    BY <1>u, <1>2 DEF HandlersFit, OldPodsGo
  <1>8. ZeroIsOwned'
    BY <1>u, <1>4 DEF ZeroIsOwned
  <1>9. ScorerFits'
    <2>1. scorer.n # 0 /\ episode.runs <= scorer.n
      BY <1>1 DEF ScorerFits, Quiet
    <2>2. QED
      BY <1>2, <1>3, <2>1, RemediationAssumption DEF ScorerFits, Quiet
  <1>10. OneCurrentPod' /\ WindowFits' /\ VerdictHonest'
    BY <1>2, <1>4, <1>5, DepMovesKeeps
  <1>11. FixStands'
    BY <1>u, <1>2, <1>3 DEF FixStands, Waited
  <1>12. QED
    BY <1>6, <1>7, <1>8, <1>9, <1>10, <1>11, Derived

\* A verdict ends the window and forgets its readings.
LEMMA VerdictGiven ==
    ASSUME scorer \in ScorerRun, NEW v \in {"flapped", "confirmed"},
           scorer' = Verdict(v)
    PROVE  /\ scorer' \in ScorerRun /\ scorer'.n = scorer.n
           /\ scorer'.pod = scorer.pod /\ scorer'.replicas = scorer.replicas
           /\ scorer'.pc = "score" /\ scorer'.verdict = v /\ scorer'.polls = 0
  <1>1. 0 \in 0..WINDOW /\ 0 \in 0..1
    BY RemediationAssumption
  <1>2. scorer' \in ScorerRun
    BY <1>1 DEF Verdict, ScorerRun
  <1>3. QED
    BY <1>2 DEF Verdict, ScorerRun

\* A window opens on a Running pod, with a clean record.
LEMMA SoundOpenWindow ==
    ASSUME Sound, OpenWindow
    PROVE  Sound'
  <1> USE DEF Sound, RemediationInv
  <1>u. /\ UNCHANGED <<class, pods, broken, act, dep, episode>>
        /\ scorer.pc = "capture" /\ scorer.pod = 0 /\ scorer.verdict = "none"
        /\ scorer \in ScorerRun /\ class \in Classes
        /\ \A p \in DOMAIN pods : pods[p].restarts \in 0..1
    BY PodsTyped DEF OpenWindow, ScorerUnchanged, TypeOK, ScorerFits, Pod
  <1> DEFINE Watching ==
        /\ class \in Watched /\ scorer'.pc = "poll" /\ scorer'.verdict = "none"
        /\ scorer'.pod \in Running \cap Alive
        /\ scorer'.base \in {0, pods[scorer'.pod].restarts}
        /\ scorer'.was = scorer'.base /\ scorer'.seen = scorer'.base
             Unwatched ==
        /\ class \notin Watched /\ scorer'.pod = 0
        /\ \/ scorer'.pc = "poll" /\ scorer'.verdict = "none"
           \/ scorer'.pc = "score" /\ scorer'.verdict = "flapped"
             Over ==
        scorer'.pc = "dead" /\ scorer'.pod = 0 /\ scorer'.verdict = "none"
  <1>1. /\ scorer' \in ScorerRun /\ scorer'.n = scorer.n
        /\ scorer'.polls \in {0, scorer.polls}
        /\ scorer'.pc = "poll" => scorer'.replicas = scorer.replicas
        /\ Watching \/ Unwatched \/ Over
    <2>1. CASE /\ class \in {"bad-rollout", "under-provisioned-replicas"}
               /\ \/ scorer' = [scorer EXCEPT !.pc = "poll"]
                  \/ scorer' = Verdict("flapped")
      <3>1. class \notin Watched
        BY <2>1 DEF Watched, Restarting
      <3>2. CASE scorer' = [scorer EXCEPT !.pc = "poll"]
        <4>1. scorer' \in ScorerRun
          BY <1>u, <3>2 DEF ScorerRun
        <4>2. /\ scorer'.pc = "poll" /\ scorer'.verdict = "none"
              /\ scorer'.n = scorer.n /\ scorer'.pod = 0
              /\ scorer'.polls = scorer.polls
              /\ scorer'.replicas = scorer.replicas
          BY <1>u, <3>2 DEF ScorerRun
        <4>3. QED
          BY <3>1, <4>1, <4>2
      <3>3. CASE scorer' = Verdict("flapped")
        BY <1>u, <3>1, <3>3, VerdictGiven
      <3>4. QED
        BY <2>1, <3>2, <3>3
    <2>2. CASE scorer' = Ended("dead")
      BY <1>u, <2>2, RunEnded
    <2>3. ASSUME class \notin {"bad-rollout", "under-provisioned-replicas"},
                 NEW p, p = current_pod_name_live, p # 0,
                 NEW base \in Scraped(p),
                 scorer' = [scorer EXCEPT !.pc = "poll", !.pod = p,
                              !.base = base, !.was = base, !.seen = base]
          PROVE  <1>1
      <3>1. p \in Running \cap Alive
        BY <2>3, NewestExists
      <3>2. p \in 0..MaxPods /\ p \in DOMAIN pods
        BY <3>1, PodsTyped DEF Alive
      <3>3. base \in 0..1 /\ base \in {0, pods[p].restarts}
        BY <1>u, <3>2 DEF Scraped
      <3>4. class \in Watched
        BY <1>u, <2>3, Tools
      <3>5. QED
        BY <1>u, <2>3, <3>1, <3>2, <3>3, <3>4 DEF ScorerRun
    <2>4. QED
      <3>1. CASE class = "bad-rollout"
        BY <2>1, <3>1 DEF OpenWindow
      <3>2. CASE class = "under-provisioned-replicas"
        BY SMTT(60), <2>1, <3>2 DEF OpenWindow
      <3>3. CASE class \notin {"bad-rollout", "under-provisioned-replicas"}
        BY <2>2, <2>3, <3>3 DEF OpenWindow
      <3>4. QED
        BY <3>1, <3>2, <3>3
  <1>2. /\ window'.hurt = {} /\ window'.recent = {} /\ window'.before = {}
        /\ window'.late = window.late
        /\ window'.stale = (scorer'.pod # 0 /\ scorer'.base # pods[scorer'.pod].restarts)
        /\ window' \in Record
    <2> DEFINE stale == scorer'.pod # 0 /\ scorer'.base # pods[scorer'.pod].restarts
    <2>1. window' = [NoWindow EXCEPT !.late = window.late, !.stale = stale]
      BY DEF OpenWindow
    <2>2. stale \in BOOLEAN /\ window.late \in BOOLEAN
      BY DEF TypeOK, Record
    <2> HIDE DEF stale
    <2>3. /\ window'.hurt = {} /\ window'.recent = {} /\ window'.before = {}
          /\ window'.late = window.late
          /\ window'.stale = stale
          /\ window' \in Record
      BY <2>1, <2>2 DEF NoWindow, Record
    <2>4. QED
      BY <2>3 DEF stale
  <1>3. TypeOK'
    BY <1>u, <1>1, <1>2 DEF TypeOK
  <1>4. HandlersFit' /\ OldPodsGo' /\ ZeroIsOwned'
    BY <1>u, <1>1 DEF HandlersFit, OldPodsGo, ZeroIsOwned
  <1>5. /\ episode.runs > 0 /\ episode.runs \in Nat /\ ~episode.scored
        /\ ~episode.next /\ scorer.n # 0
    BY <1>u, RemediationAssumption DEF ScorerFits, Quiet, TypeOK
  <1>6. ScorerFits'
    <2>1. scorer'.pod \in Running \cap Alive =>
              scorer'.pod \in DOMAIN pods /\ pods[scorer'.pod].phase # "failing"
      BY DEF Running
    <2>2. Watching => scorer'.pod # 0
      BY PodsTyped DEF Running
    <2>3. QED
      BY <1>u, <1>1, <1>5, <2>1, <2>2, RemediationAssumption DEF ScorerFits, Quiet
  <1>7. OneCurrentPod'
    BY <1>u DEF OneCurrentPod, Current, Alive
  <1>8. FixStands'
    <2>1. SUFFICES ASSUME ~window.late PROVE FixStands'
      BY <1>2 DEF FixStands
    <2>2. Fixed(scorer.replicas)
      BY <1>u, <2>1 DEF FixStands
    <2>3. scorer'.pc = "poll" => Fixed(scorer.replicas)'
      BY <1>u, <1>1, <2>2 DEF Fixed
    <2>4. scorer'.pc \in {"poll", "score", "dead"}
      BY <1>1
    <2>5. QED
      BY <1>u, <1>5, <2>3, <2>4 DEF FixStands, Waited
  <1>9. WindowFits'
    <2>1. ASSUME Watching, class \in Restarting
          PROVE  LET restarts == pods[scorer'.pod].restarts
                 IN /\ scorer'.base = 1 => restarts = 1
                    /\ (~window'.stale /\ scorer'.base = 0
                           /\ 1 \in {scorer'.was, scorer'.seen, restarts}) => FALSE
      <3>1. scorer'.pod \in DOMAIN pods /\ scorer'.pod # 0
        BY <2>1, PodsTyped DEF Running
      <3>2. scorer'.base = 1 => pods[scorer'.pod].restarts = 1
        BY <2>1, <1>u, <3>1
      <3>3. ASSUME ~window'.stale, scorer'.base = 0
            PROVE  /\ pods[scorer'.pod].restarts = 0
                   /\ scorer'.was = 0 /\ scorer'.seen = 0
        BY <1>2, <2>1, <3>1, <3>3
      <3>4. QED
        BY <3>2, <3>3
    <2>2. ASSUME Watching PROVE scorer'.pod \in Alive'
      BY <1>u, <2>2 DEF Alive
    <2>3. CASE Watching
      BY <1>u, <1>2, <2>1, <2>2, <2>3 DEF WindowFits
    <2>4. CASE Unwatched \/ Over
      BY <1>u, <1>2, <2>4 DEF WindowFits, Watched, Restarting
    <2>5. QED
      BY <1>1, <2>3, <2>4
  <1>10. VerdictHonest'
    BY <1>1 DEF VerdictHonest
  <1>11. QED
    BY <1>3, <1>4, <1>6, <1>7, <1>8, <1>9, <1>10, Derived

LEMMA AnswersAreBoolean ==
    ASSUME Sound, scorer.pc = "poll"
    PROVE  check_fn \subseteq BOOLEAN
  <1> USE DEF Sound, RemediationInv
  <1>w. ASSUME class \in Watched
        PROVE  /\ scorer.base \in 0..1 /\ scorer.was \in 0..1
               /\ pods[scorer.pod].restarts \in 0..1
    <2>1. scorer.pod \in DOMAIN pods
      BY <1>w DEF ScorerFits
    <2>2. QED
      BY <2>1, PodsTyped DEF Pod, TypeOK, ScorerRun
  <1>1. class \in Watched => check_crash_loop \subseteq BOOLEAN
    <2>1. SUFFICES ASSUME class \in Watched, NEW faulty \in check_crash_loop
                   PROVE  faulty \in BOOLEAN
      OBVIOUS
    <2>2. PICK backoff \in {FALSE, pods[scorer.pod].restarts > 0}, r \in Lagged :
                   faulty = (backoff \/ r > scorer.base)
      BY <2>1 DEF check_crash_loop
    <2>3. QED
      BY <2>2
  <1>2. class \in Watched => check_oom \subseteq BOOLEAN
    <2>1. SUFFICES ASSUME class \in Watched, NEW faulty \in check_oom
                   PROVE  faulty \in BOOLEAN
      OBVIOUS
    <2>2. PICK r \in Lagged :
                   faulty = (r > scorer.base)
      BY <2>1 DEF check_oom
    <2>3. r \in 0..1 /\ scorer.base \in 0..1
      BY <1>w, <2>1, <2>2 DEF Lagged
    <2>4. (r > scorer.base) \in BOOLEAN
      BY <2>3
    <2>5. QED
      BY <2>2, <2>4
  <1>3. check_disk_full \subseteq BOOLEAN
    BY DEF check_disk_full
  <1>4. check_bad_rollout \subseteq BOOLEAN
    BY DEF check_bad_rollout
  <1>5. class \in Watched \cup {"under-provisioned-replicas", "bad-rollout"}
    BY Tools DEF TypeOK
  <1>6. CASE class = "crash-loop"
    BY <1>1, <1>6 DEF check_fn, Watched, Restarting
  <1>7. CASE class \in {"oom", "cpu-throttling"}
    BY <1>2, <1>7 DEF check_fn, check_cpu_throttle, Watched, Restarting
  <1>8. CASE class = "disk-full"
    BY <1>3, <1>8 DEF check_fn
  <1>9. CASE class = "bad-rollout"
    BY <1>4, <1>9 DEF check_fn
  <1>10. CASE class = "under-provisioned-replicas"
    BY <1>10 DEF check_fn, catalogue_probe_p95_ms
  <1>11. QED
    BY <1>5, <1>6, <1>7, <1>8, <1>9, <1>10 DEF Watched, Restarting

\* What a poll's answer says of the watched pod.
LEMMA Answers ==
    ASSUME Sound, scorer.pc = "poll", NEW faulty \in check_fn
    PROVE  /\ (class \in Restarting /\ ~faulty) =>
                  \E r \in Lagged : ~(r > scorer.base)
           /\ (class \in Restarting /\ faulty) =>
                  \/ \E r \in Lagged : r > scorer.base
                  \/ class = "crash-loop" /\ pods[scorer.pod].restarts > 0
           /\ class = "disk-full" => (faulty <=> scorer.pod \notin Alive)
  <1> USE DEF Sound, RemediationInv
  <1>1. class \in Watched => scorer.pod \in DOMAIN pods /\ scorer.pod # 0
    BY DEF ScorerFits
  <1>2. CASE class = "crash-loop"
    <2>1. faulty \in check_crash_loop
      BY <1>2 DEF check_fn
    <2>2. PICK backoff \in {FALSE, pods[scorer.pod].restarts > 0}, r \in Lagged :
                   faulty = (backoff \/ r > scorer.base)
      BY <2>1 DEF check_crash_loop
    <2>3. backoff => pods[scorer.pod].restarts > 0
      BY <2>2
    <2>4. CASE faulty
      <3>1. backoff \/ r > scorer.base
        BY <2>2, <2>4
      <3>2. QED
        BY <1>2, <2>2, <2>3, <2>4, <3>1
    <2>5. CASE ~faulty
      <3>1. ~(r > scorer.base)
        BY <2>2, <2>5
      <3>2. QED
        BY <1>2, <2>5, <3>1
    <2>6. QED
      BY <2>4, <2>5
  <1>3. CASE class \in {"oom", "cpu-throttling"}
    <2>1. faulty \in check_oom
      BY <1>3 DEF check_fn, check_cpu_throttle
    <2>2. PICK r \in Lagged :
                   faulty = (r > scorer.base)
      BY <2>1 DEF check_oom
    <2>3. QED
      BY <1>3, <2>2
  <1>4. CASE class = "disk-full"
    <2>1. faulty = (current_pod_name_live # scorer.pod)
      BY <1>4 DEF check_fn, check_disk_full
    <2>2. /\ scorer.pod # 0 /\ scorer.pod \in DOMAIN pods
          /\ pods[scorer.pod].phase \in Phases \ {"failing"}
      BY <1>4, PodsTyped DEF ScorerFits, Watched, Pod
    <2>3. scorer.pod \in Alive => scorer.pod \in Running
      BY <2>2 DEF Alive, Running, Phases
    <2>4. \A p, q \in Alive : p = q
      BY <1>4 DEF OneCurrentPod, Watched, Alive
    <2>5. current_pod_name_live = scorer.pod <=> scorer.pod \in Alive
      BY <2>2, <2>3, <2>4, NewestExists
    <2>6. QED
      BY <1>4, <2>1, <2>5 DEF Restarting
  <1>5. CASE class \notin Watched
    BY <1>5 DEF Watched, Restarting
  <1>6. QED
    BY <1>2, <1>3, <1>4, <1>5 DEF Watched, Restarting

\* A quiet window of a restarting class has nothing on a current pod's record
\* up to its last poll; a disk-full one nothing at all.
LEMMA ConfirmedHonestly ==
    ASSUME Sound, scorer.pc = "poll", FALSE \in check_fn
    PROVE  \/ WatchesOldPod
           \/ \A p \in Noticeable : pods[p].gen < dep.gen
  <1> USE DEF Sound, RemediationInv
  <1> DEFINE pod == scorer.pod
  <1>1. CASE class \in Restarting
    <2>1. SUFFICES ASSUME ~WatchesOldPod, NEW p \in window.before,
                          ~(pods[p].gen < dep.gen)
                   PROVE  FALSE
      BY <1>1 DEF Noticeable, Restarting
    <2>2. p \in DOMAIN pods /\ pod \in DOMAIN pods /\ pod # 0
      BY <1>1 DEF WindowFits, ScorerFits, Watched
    <2>3. p \in Current /\ pod \in Current
      BY <2>1, <2>2, PodsTyped
         DEF OneCurrentPod, Current, WatchesOldPod, TypeOK, Deployment, Pod
    <2>4. p = pod
      BY <1>1, <2>3 DEF OneCurrentPod, Watched
    <2>5. scorer.was = 1 /\ pods[pod].restarts = 1 /\ scorer.base = 0
      BY <1>1, <2>1, <2>4 DEF WindowFits
    <2>6. \E r \in Lagged : ~(r > scorer.base)
      BY <1>1, Answers
    <2>7. QED
      BY <2>5, <2>6 DEF Lagged
  <1>2. CASE class = "disk-full"
    BY <1>2, Answers DEF WindowFits, Noticeable
  <1>3. CASE class \notin Watched
    BY <1>3 DEF WindowFits, Noticeable, Watched
  <1>4. QED
    BY <1>1, <1>2, <1>3 DEF Watched

\* A flapped one of a watched pod has a failure on record.
LEMMA FlappedHonestly ==
    ASSUME Sound, scorer.pc = "poll", TRUE \in check_fn, ~window.late
    PROVE  \/ scorer.pod = 0 \/ window.hurt # {}
           \/ WatchesOldPod \/ window.stale
           \/ class = "crash-loop" /\ pods[scorer.pod].restarts > 0
  <1> USE DEF Sound, RemediationInv
  <1>1. CASE class \in Restarting
    <2>1. SUFFICES ASSUME ~WatchesOldPod, ~window.stale,
                          \E r \in Lagged :
                              r > scorer.base
                   PROVE  window.hurt # {}
      BY <1>1, Answers
    <2>2. /\ scorer.was \in 0..1 /\ scorer.base \in 0..1
          /\ pods[scorer.pod].restarts \in 0..1
      <3>1. scorer.pod \in DOMAIN pods
        BY <1>1 DEF ScorerFits, Watched
      <3>2. QED
        BY <3>1, PodsTyped DEF Pod, TypeOK, ScorerRun
    <2>3. scorer.base = 0 /\ 1 \in {scorer.was, pods[scorer.pod].restarts}
      BY <2>1, <2>2 DEF Lagged
    <2>4. QED
      BY <1>1, <2>1, <2>3 DEF WindowFits
  <1>2. CASE class = "disk-full"
    BY <1>2, Answers DEF WindowFits
  <1>3. CASE class \notin Watched
    BY <1>3 DEF ScorerFits
  <1>4. QED
    BY <1>1, <1>2, <1>3 DEF Watched

LEMMA SoundPoll ==
    ASSUME Sound, Poll
    PROVE  Sound'
  <1> USE DEF Sound, RemediationInv
  <1>u. /\ UNCHANGED <<class, pods, broken, act, dep, episode>>
        /\ scorer.pc = "poll" /\ scorer.verdict = "none"
        /\ scorer \in ScorerRun /\ scorer.polls \in Nat /\ WINDOW \in Nat
        /\ scorer.polls < WINDOW
    BY RemediationAssumption DEF Poll, ScorerUnchanged, TypeOK, ScorerFits, ScorerRun
  <1>1. PICK faulty \in check_fn :
            scorer' = IF faulty THEN Verdict("flapped")
                      ELSE IF scorer.polls + 1 = WINDOW THEN Verdict("confirmed")
                      ELSE [scorer EXCEPT !.polls = @ + 1, !.was = scorer.seen,
                               !.seen = IF scorer.pod = 0 THEN 0
                                        ELSE pods[scorer.pod].restarts]
    BY DEF Poll
  <1> DEFINE Flaps == /\ faulty /\ scorer'.pc = "score"
                      /\ scorer'.verdict = "flapped" /\ scorer'.polls = 0
             Holds == /\ ~faulty /\ scorer'.pc = "score"
                      /\ scorer.polls + 1 = WINDOW
                      /\ scorer'.verdict = "confirmed" /\ scorer'.polls = 0
             GoesOn == /\ ~faulty /\ scorer'.pc = "poll"
                       /\ scorer'.verdict = "none" /\ scorer'.polls < WINDOW
                       /\ scorer.polls + 1 # WINDOW
                       /\ scorer'.base = scorer.base /\ scorer'.was = scorer.seen
                       /\ scorer'.seen = IF scorer.pod = 0 THEN 0
                                         ELSE pods[scorer.pod].restarts
  <1>2. /\ scorer' \in ScorerRun /\ scorer'.n = scorer.n
        /\ scorer'.pod = scorer.pod
        /\ scorer'.replicas = scorer.replicas
        /\ Flaps \/ Holds \/ GoesOn
    <2>1. CASE faulty
      BY <1>u, <1>1, <2>1, VerdictGiven
    <2>2. CASE ~faulty /\ scorer.polls + 1 = WINDOW
      BY <1>u, <1>1, <2>2, VerdictGiven
    <2>3. CASE ~faulty /\ scorer.polls + 1 # WINDOW
      <3> DEFINE seen == IF scorer.pod = 0 THEN 0 ELSE pods[scorer.pod].restarts
      <3>1. seen \in 0..1
        BY PodsTyped DEF ScorerFits, Pod
      <3>2. scorer.polls + 1 \in 0..WINDOW /\ scorer.polls + 1 < WINDOW
        BY <1>u, <2>3
      <3>3. scorer' = [scorer EXCEPT !.polls = scorer.polls + 1,
                                     !.was = scorer.seen, !.seen = seen]
        BY <1>u, <1>1, <2>3 DEF ScorerRun
      <3> HIDE DEF seen
      <3>4. /\ scorer' \in ScorerRun /\ scorer'.n = scorer.n
            /\ scorer'.pod = scorer.pod /\ scorer'.base = scorer.base
            /\ scorer'.replicas = scorer.replicas /\ scorer'.pc = "poll"
            /\ scorer'.verdict = "none" /\ scorer'.polls = scorer.polls + 1
            /\ scorer'.was = scorer.seen /\ scorer'.seen = seen
        BY <1>u, <3>1, <3>2, <3>3 DEF ScorerRun
      <3>5. QED
        BY <2>3, <3>2, <3>4 DEF seen
    <2>4. QED
      BY <2>1, <2>2, <2>3
  <1>3. /\ window'.hurt = window.hurt /\ window'.late = window.late
        /\ window'.stale = window.stale
        /\ window'.before = IF scorer.polls + 1 = WINDOW THEN window.before
                            ELSE window.recent
        /\ window'.recent = IF scorer.polls + 1 = WINDOW THEN window.recent
                            ELSE window.hurt
        /\ window' \in Record
    <2>1. CASE scorer.polls + 1 = WINDOW
      BY <2>1 DEF Poll, TypeOK
    <2>2. CASE scorer.polls + 1 # WINDOW
      <3>1. window' = [window EXCEPT !.before = window.recent,
                                     !.recent = window.hurt]
        BY <2>2 DEF Poll
      <3>2. QED
        BY <2>2, <3>1 DEF TypeOK, Record
    <2>3. QED
      BY <2>1, <2>2
  <1>4. TypeOK'
    BY <1>u, <1>2, <1>3 DEF TypeOK
  <1>5. HandlersFit' /\ OldPodsGo' /\ ZeroIsOwned'
    BY <1>u, <1>2 DEF HandlersFit, OldPodsGo, ZeroIsOwned
  <1>6. /\ episode.runs > 0 /\ episode.runs \in Nat /\ ~episode.scored
        /\ ~episode.next /\ scorer.n # 0
    BY <1>u, RemediationAssumption DEF ScorerFits, Quiet, TypeOK
  <1>7. ScorerFits'
    BY <1>u, <1>2, <1>6 DEF ScorerFits, Quiet
  <1>8. OneCurrentPod'
    BY <1>u DEF OneCurrentPod, Current, Alive
  <1>9. FixStands'
    <2>1. SUFFICES ASSUME ~window.late PROVE FixStands'
      BY <1>3 DEF FixStands
    <2>2. Fixed(scorer.replicas)
      BY <1>u, <2>1 DEF FixStands
    <2>3. Fixed(scorer.replicas)'
      BY <1>u, <1>2, <2>2 DEF Fixed
    <2>4. scorer'.pc \in {"poll", "score"}
      BY <1>2
    <2>5. QED
      BY <1>u, <1>6, <2>3, <2>4 DEF FixStands, Waited
  <1>10. scorer.pod # 0 => scorer.pod \in DOMAIN pods
    BY DEF ScorerFits
  <1>11. (WatchesOldPod' <=> WatchesOldPod) /\ Alive' = Alive
    BY <1>u, <1>2 DEF WatchesOldPod, Alive
  <1>12. WindowFits'
    <2>1. /\ window'.before \subseteq window'.recent
          /\ window'.recent \subseteq window'.hurt
          /\ window'.hurt \subseteq DOMAIN pods'
          /\ class \notin Watched => window'.hurt = {}
      BY <1>u, <1>3 DEF WindowFits
    <2>2. CASE scorer'.pc = "score"
      BY <1>u, <2>1, <2>2 DEF WindowFits
    <2>3. CASE GoesOn
      <3>1. /\ window'.before = window.recent /\ window'.recent = window.hurt
            /\ class \in Watched => scorer.pod # 0
        BY <1>3, <1>u, <2>3 DEF ScorerFits
      <3>2. ASSUME class \in Restarting, ~WatchesOldPod
            PROVE  LET restarts == pods[scorer.pod].restarts
                   IN /\ scorer.base = 1 => restarts = 1
                      /\ scorer.pod \in window.hurt => restarts = 1 /\ scorer.base = 0
                      /\ scorer.pod \in window'.before => scorer'.was = 1
                      /\ scorer.pod \in window'.recent => scorer'.seen = 1
                      /\ (~window.stale /\ scorer.base = 0
                             /\ 1 \in {scorer'.was, scorer'.seen, restarts}) =>
                             scorer.pod \in window.hurt
        <4>1. scorer'.seen = pods[scorer.pod].restarts /\ scorer'.was = scorer.seen
          BY <2>3, <3>1, <3>2 DEF Watched
        <4>2. QED
          BY <1>u, <3>1, <3>2, <4>1 DEF WindowFits
      <3>3. ASSUME class = "disk-full"
            PROVE  window'.recent = {}
        <4>1. scorer.pod \in Alive
          BY <1>u, <2>3, <3>3, Answers
        <4>2. QED
          BY <1>u, <3>1, <3>3, <4>1 DEF WindowFits
      <3>4. QED
        BY <1>u, <1>2, <1>3, <1>11, <2>1, <2>3, <3>2, <3>3 DEF WindowFits
    <2>4. QED
      BY <1>2, <2>2, <2>3
  <1>13. VerdictHonest'
    <2>1. SUFFICES ASSUME ~window.late, scorer'.pc = "score" PROVE VerdictHonest'
      BY <1>3 DEF VerdictHonest
    <2>2. CASE Flaps
      <3>1. TRUE \in check_fn
        <4>1. faulty = TRUE
          BY <1>u, <1>1, <2>2, AnswersAreBoolean
        <4>2. QED
          BY <4>1
      <3>2. \/ scorer.pod = 0 \/ window.hurt # {}
            \/ WatchesOldPod \/ window.stale
            \/ class = "crash-loop" /\ pods[scorer.pod].restarts > 0
        BY <1>u, <2>1, <3>1, FlappedHonestly
      <3>3. QED
        BY <1>u, <1>2, <1>3, <1>11, <2>2, <3>2 DEF VerdictHonest
    <2>3. CASE Holds
      <3>1. FALSE \in check_fn
        <4>1. faulty = FALSE
          BY <1>u, <1>1, <2>3, AnswersAreBoolean
        <4>2. QED
          BY <4>1
      <3>2. WatchesOldPod \/ \A p \in Noticeable : pods[p].gen < dep.gen
        BY <1>u, <3>1, ConfirmedHonestly
      <3>3. Noticeable' = Noticeable
        BY <1>u, <1>3, <2>3 DEF Noticeable
      <3>4. QED
        BY <1>u, <1>2, <1>11, <2>3, <3>2, <3>3 DEF VerdictHonest
    <2>4. QED
      BY <1>2, <2>1, <2>2, <2>3
  <1>14. QED
    BY <1>4, <1>5, <1>7, <1>8, <1>9, <1>12, <1>13, Derived

-----------------------------------------------------------------------------
(* The theorems.                                                           *)

LEMMA SoundStutters ==
    ASSUME Sound, UNCHANGED vars
    PROVE  Sound'
  <1> USE DEF Sound, RemediationInv
  <1>u. UNCHANGED <<class, dep, pods, episode, scorer, act, broken, window>>
    BY DEF vars
  <1>1. TypeOK' /\ HandlersFit' /\ OldPodsGo' /\ ZeroIsOwned'
    BY <1>u DEF TypeOK, HandlersFit, OldPodsGo, ZeroIsOwned
  <1>2. ScorerFits'
    BY <1>u DEF ScorerFits, Quiet
  <1>3. OneCurrentPod' /\ WindowFits' /\ VerdictHonest'
    BY <1>u, DepStays, WindowStays, DepMovesKeeps
  <1>4. FixStands'
    BY <1>u DEF FixStands, Waited, Fixed
  <1>5. QED
    BY <1>1, <1>2, <1>3, <1>4, Derived

LEMMA SoundStep == Sound /\ [Next]_vars => Sound'
  <1> SUFFICES ASSUME Sound, [Next]_vars PROVE Sound'
    OBVIOUS
  <1>1. CASE UNCHANGED vars
    BY <1>1, SoundStutters
  <1>2. CASE CreatePod
    BY <1>2, SoundCreatePod
  <1>3. ASSUME NEW p \in DOMAIN pods, PodProgress(p) \/ RetirePod(p) \/ PodFails(p)
        PROVE  Sound'
    BY <1>3, SoundPodProgress, SoundRetirePod, SoundPodFails
  <1>4. CASE EnsureBaseline \/ Inject
    BY <1>4, SoundEnsureBaseline, SoundInject
  <1>5. CASE StartScorer \/ RequestAct \/ OpenWindow \/ Poll
    BY <1>5, SoundStartScorer, SoundRequestAct, SoundOpenWindow, SoundPoll
  <1>6. CASE ScorerDies \/ InsertScore \/ ResetCatalogue
    BY <1>6, SoundRunEnds
  <1>7. ASSUME NEW h \in Runs, HandlerStep(h)
        PROVE  Sound'
    BY <1>7, SoundResize, SoundPatch, SoundScaleDown, SoundWaitGone,
       SoundScaleUp, SoundWaitBack, SoundReply DEF HandlerStep
  <1>8. ASSUME NEW h \in Runs, HandlerDies(h)
        PROVE  Sound'
    BY <1>8, SoundHandlerDies
  <1>9. QED
    BY <1>1, <1>2, <1>3, <1>4, <1>5, <1>6, <1>7, <1>8 DEF Next, ScorerStep

LEMMA SoundAlways == Spec => []Sound
  BY SoundInit, SoundStep, PTL DEF Spec

\* A successful disk-full fix has replaced the pods it found, no handler
\* leaves the target at zero unless the API fails (restore_from_disk_full), and
\* handlers, scorer and cluster stay in step, in every interleaving.
THEOREM HandlersDoTheirWork == Spec => []RemediationInv
  <1>1. Sound => RemediationInv
    BY DEF Sound
  <1>2. QED
    BY <1>1, SoundAlways, PTL

\* What the fix set stands while its durability window is open, unless an
\* /act outlived its scorer (p3_scorer.main, verify_durability).
THEOREM FixesHold == Spec => []FixHolds
  <1>1. Sound => FixHolds
    BY DEF Sound
  <1>2. QED
    BY <1>1, SoundAlways, PTL

\* A verdict of verify_durability is wrong only about a pod older than the
\* fix or a stale baseline.
THEOREM VerdictsAreHonest == Spec => []VerdictHonest
  <1>1. Sound => VerdictHonest
    BY DEF Sound
  <1>2. QED
    BY <1>1, SoundAlways, PTL
=============================================================================
