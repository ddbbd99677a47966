--------------------------- MODULE DiagnosisProofs ---------------------------
(***************************************************************************)
(* Proofs about the agent's handlers, for every number of threads, every   *)
(* provider chain, quota and workload: what they spend at the providers,   *)
(* and which fix runs.                                                     *)
(***************************************************************************)
EXTENDS Diagnosis, FiniteSetTheorems, SequenceTheorems, TLAPS

-----------------------------------------------------------------------------
(* The shape of a handler's record.  What it may name comes from the       *)
(* workload.                                                               *)

Levels == [memory : Nat, cpu : Nat, replicas : Nat]
Output == [peak_memory_mib : SUBSET Nat, current_replicas : SUBSET Nat]
Stages == {"idle", "react", "diagnosed", "propose", "proposed", "acted",
           "judged", "sample"}
Sources == {None, "llm", "deterministic", "gate_substituted",
            "ground_truth_safety_net"}
Tiers == {Chain[e].tier : e \in Entries} \cup {None, "deterministic_fallback"}

Answers(w) == Workloads[w].answers \cup {None}
Stubs(w) == {StubResult(Workloads[w].target, s) : s \in Workloads[w].readings}
            \cup {NoAnomaly}
Hints(w) == {Hint(QueryPrometheus(Workloads[w].target, s)) :
                s \in Workloads[w].readings} \cup {NoAnomaly}

Offers(w) == Workloads[w].offers \cup {NoCall}
             \cup {ACTION_MAP[class] : class \in AutoFixClasses}

Job(w) == [stage : Stages, wire : BOOLEAN, i : Entries, turn : 1..MAX_TURNS,
           failures : 0..1, turns : SUBSET Entries, by : 0..Len(Chain),
           class : Answers(w), seen : Output, stub : Stubs(w), hint : Hints(w),
           levels : Levels, try : Nat, cost : Nat, offer : Offers(w), tier : Tiers,
           byLlm : BOOLEAN, predicted : Answers(w) \cup Stubs(w), ran : Offers(w),
           source : Sources, credit : {None, "right", "wrong"}]

OwnTurns(r) ==
    /\ r.stage = "react" => r.turns \subseteq {r.i}
    /\ r.stage = "diagnosed" /\ r.by # 0 => r.turns \subseteq {r.by}

\* Before /act there is no fix and no verdict.
Unacted(r) ==
    r.stage \notin {"acted", "judged"} =>
        r.ran = NoCall /\ r.source = None /\ r.credit = None

\* A diagnosis goes by one reading of the target, the stub's; when the window
\* is frozen it is the loop's too.
Told(w, r) ==
    /\ r.stage \in {"idle", "sample"} => r.hint = NoAnomaly
    /\ r.stage \notin {"idle", "sample"} =>
          \E s \in Workloads[w].readings :
              /\ r.stub = StubResult(Workloads[w].target, s)
              /\ Workloads[w].frozen =>
                    r.hint \in {NoAnomaly,
                                Hint(QueryPrometheus(Workloads[w].target, s))}

\* Handler c may be in state r.
Good(c, w, r) ==
    /\ r \in Job(w) /\ Fits(c, r) /\ OwnTurns(r) /\ Unacted(r) /\ Told(w, r)
    /\ r.stage = "proposed" => r.cost <= 3

\* n has what r knows, and no fix yet.
SameEpisode(n, r) ==
    /\ n.ran = r.ran /\ n.source = r.source /\ n.credit = r.credit
    /\ n.hint = r.hint /\ n.stub = r.stub

Waiting(r) == r.stage \in {"react", "propose", "sample"} /\ r.wire

\* The proposer's copy of the map of fixes is the same map.
LEMMA SameMap ==
    ASSUME NEW class \in AutoFixClasses
    PROVE  DETERMINISTIC_ACTION_MAP[class] = ACTION_MAP[class]
  BY DEF DETERMINISTIC_ACTION_MAP, ACTION_MAP

LEMMA IdleGood ==
    ASSUME NEW c \in Callers, NEW w
    PROVE  Good(c, w, Idle) /\ ~Waiting(Idle)
  <1>1. 1 \in Entries /\ 1 \in 1..MAX_TURNS /\ 0 \in 0..Len(Chain)
    BY ChainAssumption, ThreadAssumption DEF Entries
  <1>2. NoCall \in Offers(w) /\ Unseen \in Output /\ NoLevels \in Levels
    <2>1. NoCall \in Offers(w)
      BY DEF Offers
    <2>2. Unseen \in Output
      BY DEF Unseen, Output
    <2>3. NoLevels \in Levels
      BY DEF NoLevels, Levels
    <2>4. QED
      BY <2>1, <2>2, <2>3
  <1>3. /\ "idle" \in Stages /\ None \in Answers(w) /\ NoAnomaly \in Stubs(w)
        /\ NoAnomaly \in Hints(w) /\ None \in Tiers /\ None \in Sources
    BY DEF Stages, Answers, Stubs, Hints, Tiers, Sources
  <1>4. Idle \in Job(w)
    BY <1>1, <1>2, <1>3 DEF Idle, Job
  <1>5. /\ Idle.stage = "idle" /\ Idle.try = 1 /\ Idle.cost = 0 /\ ~Idle.wire
        /\ Idle.class = None /\ Idle.hint = NoAnomaly
        /\ Idle.ran = NoCall /\ Idle.source = None /\ Idle.credit = None
    BY DEF Idle
  <1>6. QED
    BY <1>4, <1>5 DEF Good, Fits, OwnTurns, Unacted, Told, Waiting

-----------------------------------------------------------------------------
(* react_agent and action_proposer: what a handler becomes.                *)

LEMMA NextEntryGood ==
    ASSUME NEW c \in Agents, NEW w, NEW r, Good(c, w, r), r.stage = "react"
    PROVE  Good(c, w, NextEntry(r)) /\ ~Waiting(NextEntry(r))
  <1>n. Len(Chain) \in Nat
    BY ChainAssumption
  <1>t. /\ r \in Job(w) /\ Fits(c, r) /\ r.i \in Entries /\ r.by = 0
        /\ 1 \in 1..MAX_TURNS /\ "diagnosed" \in Stages
        /\ c \notin Samplers
    BY ThreadAssumption DEF Good, Fits, Job, Stages
  <1>1. CASE r.i < Len(Chain)
    <2> DEFINE n == [r EXCEPT !.i = r.i + 1, !.turn = 1, !.failures = 0,
                              !.turns = {}, !.wire = FALSE]
    <2>1. r.i + 1 \in Entries
      BY <1>1, <1>n, <1>t DEF Entries
    <2>2. n \in Job(w)
      <3>1. {} \in SUBSET Entries /\ 0 \in 0..1 /\ FALSE \in BOOLEAN
        OBVIOUS
      <3>2. QED
        BY ZenonT(60), <1>t, <2>1, <3>1 DEF Job
    <2>3. /\ n.stage = "react" /\ n.by = r.by /\ n.class = r.class
          /\ n.try = r.try /\ n.cost = r.cost /\ n.turns = {} /\ ~n.wire
          /\ SameEpisode(n, r)
      BY <1>t DEF Job, SameEpisode
    <2>4. NextEntry(r) = n
      BY <1>1 DEF NextEntry
    <2> HIDE DEF n
    <2>5. QED
      BY <1>t, <2>2, <2>3, <2>4
         DEF Good, Fits, OwnTurns, Unacted, Told, SameEpisode, Waiting
  <1>2. CASE ~(r.i < Len(Chain))
    <2> DEFINE n == [r EXCEPT !.stage = "diagnosed", !.turns = {},
                              !.wire = FALSE]
    <2>2. n \in Job(w)
      BY ZenonT(60), <1>t DEF Job
    <2>3. /\ n.stage = "diagnosed" /\ n.by = r.by /\ n.class = r.class
          /\ n.try = r.try /\ n.cost = r.cost /\ n.turns = {} /\ ~n.wire
          /\ SameEpisode(n, r)
      BY <1>t DEF Job, SameEpisode
    <2>4. NextEntry(r) = n
      BY <1>2 DEF NextEntry
    <2> HIDE DEF n
    <2>5. QED
      BY <1>t, <2>2, <2>3, <2>4
         DEF Good, Fits, OwnTurns, Unacted, Told, SameEpisode, Waiting
  <1>3. QED
    BY <1>1, <1>2

LEMMA NextTurnGood ==
    ASSUME NEW c \in Agents, NEW w, NEW r, Good(c, w, r), r.stage = "react"
    PROVE  Good(c, w, NextTurn(r)) /\ ~Waiting(NextTurn(r))
  <1>t. /\ r \in Job(w) /\ Fits(c, r) /\ r.turn \in 1..MAX_TURNS
        /\ r.i \in Entries /\ r.turns \in SUBSET Entries /\ r.by = 0
        /\ r.turns \subseteq {r.i} /\ "diagnosed" \in Stages
        /\ MAX_TURNS \in Nat /\ c \notin Samplers
    BY ThreadAssumption DEF Good, Fits, OwnTurns, Job, Stages
  <1>1. CASE r.turn < MAX_TURNS
    <2> DEFINE n == [r EXCEPT !.turn = r.turn + 1, !.turns = r.turns \cup {r.i},
                              !.wire = FALSE]
    <2>1. r.turn + 1 \in 1..MAX_TURNS /\ r.turns \cup {r.i} \in SUBSET Entries
      BY <1>1, <1>t
    <2>2. n \in Job(w)
      BY ZenonT(60), <1>t, <2>1 DEF Job
    <2>3. /\ n.stage = "react" /\ n.by = r.by /\ n.class = r.class
          /\ n.try = r.try /\ n.cost = r.cost /\ n.i = r.i
          /\ n.turns = r.turns \cup {r.i} /\ ~n.wire
          /\ SameEpisode(n, r)
      BY <1>t DEF Job, SameEpisode
    <2>4. NextTurn(r) = n
      BY <1>1 DEF NextTurn
    <2> HIDE DEF n
    <2>5. QED
      BY <1>t, <2>2, <2>3, <2>4
         DEF Good, Fits, OwnTurns, Unacted, Told, SameEpisode, Waiting
  <1>2. CASE ~(r.turn < MAX_TURNS)
    <2> DEFINE n == [r EXCEPT !.stage = "diagnosed", !.wire = FALSE]
    <2>2. n \in Job(w)
      BY ZenonT(60), <1>t DEF Job
    <2>3. /\ n.stage = "diagnosed" /\ n.by = r.by /\ n.class = r.class
          /\ n.try = r.try /\ n.cost = r.cost /\ ~n.wire
          /\ SameEpisode(n, r)
      BY <1>t DEF Job, SameEpisode
    <2>4. NextTurn(r) = n
      BY <1>2 DEF NextTurn
    <2> HIDE DEF n
    <2>5. QED
      BY <1>t, <2>2, <2>3, <2>4
         DEF Good, Fits, OwnTurns, Unacted, Told, SameEpisode, Waiting
  <1>3. QED
    BY <1>1, <1>2

LEMMA AfterTurnGood ==
    ASSUME NEW c \in Agents, Good(c, load, job[c]), job[c].stage = "react",
           NEW n \in AfterTurn(job[c])
    PROVE  Good(c, load, n) /\ ~Waiting(n)
  <1> DEFINE r == job[c]
  <1>t. /\ r \in Job(load) /\ Fits(c, r) /\ r.i \in Entries /\ r.by = 0
        /\ r.turns \subseteq {r.i} /\ "diagnosed" \in Stages
        /\ Len(Chain) \in Nat /\ c \notin Samplers
    BY ThreadAssumption, ChainAssumption
       DEF Good, Fits, OwnTurns, Job, Stages
  <1>1. ASSUME NEW class \in work.answers,
               n = [r EXCEPT !.stage = "diagnosed", !.by = r.i,
                             !.class = class, !.wire = FALSE]
        PROVE  Good(c, load, n) /\ ~Waiting(n)
    <2>1. class \in Answers(load) /\ r.i \in 0..Len(Chain) /\ r.i # 0
      BY <1>t DEF work, Answers, Entries
    <2>2. n \in Job(load)
      BY ZenonT(60), <1>1, <1>t, <2>1 DEF Job
    <2>3. /\ n.stage = "diagnosed" /\ n.by = r.i /\ n.turns = r.turns
          /\ n.try = r.try /\ n.cost = r.cost /\ ~n.wire
          /\ SameEpisode(n, r)
      BY <1>1, <1>t DEF Job, SameEpisode
    <2>4. QED
      BY <1>t, <2>1, <2>2, <2>3
         DEF Good, Fits, OwnTurns, Unacted, Told, SameEpisode, Waiting
  <1>2. CASE n = NextTurn(r)
    BY <1>2, NextTurnGood
  <1>3. CASE n = [r EXCEPT !.stage = "diagnosed", !.wire = FALSE]
    <2>1. n \in Job(load)
      BY ZenonT(60), <1>3, <1>t DEF Job
    <2>2. /\ n.stage = "diagnosed" /\ n.by = r.by /\ n.class = r.class
          /\ n.try = r.try /\ n.cost = r.cost /\ ~n.wire
          /\ SameEpisode(n, r)
      BY <1>3, <1>t DEF Job, SameEpisode
    <2>3. QED
      BY <1>t, <2>1, <2>2
         DEF Good, Fits, OwnTurns, Unacted, Told, SameEpisode, Waiting
  <1>4. CASE n = NextEntry(r)
    BY <1>4, NextEntryGood
  <1>5. CASE n = NextTurn([r EXCEPT !.failures = 1])
    <2> DEFINE s == [r EXCEPT !.failures = 1]
    <2>1. s \in Job(load)
      BY <1>t DEF Job
    <2>2. /\ s.stage = "react" /\ s.by = r.by /\ s.class = r.class
          /\ s.try = r.try /\ s.cost = r.cost /\ s.i = r.i
          /\ s.turns = r.turns /\ SameEpisode(s, r)
      BY <1>t DEF Job, SameEpisode
    <2> HIDE DEF s
    <2>3. Good(c, load, s)
      BY <1>t, <2>1, <2>2
         DEF Good, Fits, OwnTurns, Unacted, Told, SameEpisode
    <2>4. QED
      BY <1>5, <2>2, <2>3, NextTurnGood DEF s
  <1>6. QED
    BY <1>1, <1>2, <1>3, <1>4, <1>5 DEF AfterTurn

LEMMA FallbackGood ==
    ASSUME NEW c \in Agents, NEW w, NEW r, Good(c, w, r), r.stage = "propose"
    PROVE  Good(c, w, Fallback(r)) /\ ~Waiting(Fallback(r))
  <1> DEFINE n == Fallback(r)
  <1>t. /\ r \in Job(w) /\ Fits(c, r) /\ r.class \in AutoFixClasses
        /\ r.cost \in Nat /\ r.try \in Nat /\ c \notin Samplers
    BY ThreadAssumption DEF Good, Fits, Job
  <1>1. /\ DETERMINISTIC_ACTION_MAP[r.class] \in Offers(w)
        /\ "deterministic_fallback" \in Tiers /\ "proposed" \in Stages
    BY <1>t, SameMap DEF Offers, Tiers, Stages
  <1>2. n \in Job(w)
    BY <1>1, <1>t DEF Fallback, Job
  <1>3. /\ n.stage = "proposed" /\ n.by = r.by /\ n.class = r.class
        /\ n.cost = r.cost /\ ~n.wire
        /\ SameEpisode(n, r)
    BY <1>t DEF Fallback, Job, SameEpisode
  <1> HIDE DEF n
  <1>4. r.cost <= 3
    BY <1>t DEF Fits
  <1>5. QED
    BY <1>t, <1>2, <1>3, <1>4
       DEF Good, Fits, OwnTurns, Unacted, Told, SameEpisode, Waiting, n

LEMMA EscalateGood ==
    ASSUME NEW c \in Agents, NEW w, NEW r, Good(c, w, r), r.stage = "propose"
    PROVE  Good(c, w, Escalate(r)) /\ ~Waiting(Escalate(r))
  <1>t. /\ r \in Job(w) /\ Fits(c, r) /\ r.class \in AutoFixClasses
        /\ r.cost \in Nat /\ r.try \in Nat /\ r.by \in 0..Len(Chain)
        /\ r.i \in Entries /\ c \notin Samplers /\ Len(Chain) \in Nat
    BY ThreadAssumption, ChainAssumption DEF Good, Fits, Job
  <1>1. CASE r.try < 3 /\ r.by < Len(Chain)
    <2> DEFINE n == [r EXCEPT !.try = 3, !.i = r.by + 1, !.wire = FALSE]
    <2>1. r.by + 1 \in Entries
      BY <1>1, <1>t DEF Entries
    <2>2. n \in Job(w)
      BY <1>t, <2>1 DEF Job
    <2>3. /\ n.stage = "propose" /\ n.by = r.by /\ n.class = r.class
          /\ n.try = 3 /\ n.cost = r.cost /\ n.i = r.by + 1 /\ ~n.wire
          /\ SameEpisode(n, r)
      BY <1>t DEF Job, SameEpisode
    <2>4. Escalate(r) = n
      BY <1>1 DEF Escalate
    <2> HIDE DEF n
    <2>5. r.cost < 3
      BY <1>1, <1>t DEF Fits
    <2>6. QED
      BY <1>t, <2>2, <2>3, <2>4, <2>5
         DEF Good, Fits, OwnTurns, Unacted, Told, SameEpisode, Waiting
  <1>2. CASE ~(r.try < 3 /\ r.by < Len(Chain))
    BY <1>2, FallbackGood DEF Escalate
  <1>3. QED
    BY <1>1, <1>2

LEMMA AfterRejectionGood ==
    ASSUME NEW c \in Agents, NEW w, NEW r, Good(c, w, r), r.stage = "propose"
    PROVE  Good(c, w, AfterRejection(r)) /\ ~Waiting(AfterRejection(r))
  <1>t. /\ r \in Job(w) /\ Fits(c, r) /\ r.class \in AutoFixClasses
        /\ r.cost \in Nat /\ c \notin Samplers
    BY ThreadAssumption DEF Good, Fits, Job
  <1>1. CASE r.try = 1
    <2> DEFINE n == [r EXCEPT !.try = 2, !.wire = FALSE]
    <2>1. n \in Job(w)
      BY <1>t DEF Job
    <2>2. /\ n.stage = "propose" /\ n.by = r.by /\ n.class = r.class
          /\ n.try = 2 /\ n.cost = r.cost /\ n.i = r.i /\ ~n.wire
          /\ SameEpisode(n, r)
      BY <1>t DEF Job, SameEpisode
    <2>3. AfterRejection(r) = n
      BY <1>1 DEF AfterRejection
    <2> HIDE DEF n
    <2>4. r.cost < 2 /\ r.i = r.by
      BY <1>1, <1>t DEF Fits
    <2>5. QED
      BY <1>t, <2>1, <2>2, <2>3, <2>4
         DEF Good, Fits, OwnTurns, Unacted, Told, SameEpisode, Waiting
  <1>2. CASE r.try # 1
    BY <1>2, EscalateGood DEF AfterRejection
  <1>3. QED
    BY <1>1, <1>2

LEMMA AfterProposalGood ==
    ASSUME NEW c \in Agents, Good(c, load, job[c]), job[c].stage = "propose",
           NEW n \in AfterProposal(job[c])
    PROVE  Good(c, load, n) /\ ~Waiting(n)
  <1> DEFINE r == job[c]
  <1>t. /\ r \in Job(load) /\ Fits(c, r) /\ r.class \in AutoFixClasses
        /\ r.cost \in Nat /\ r.try \in Nat /\ r.i \in Entries
        /\ c \notin Samplers
    BY ThreadAssumption DEF Good, Fits, Job
  <1>1. CASE n \in {Escalate(r), AfterRejection(r)}
    BY <1>1, EscalateGood, AfterRejectionGood
  <1>2. ASSUME NEW call \in work.offers,
               n = [r EXCEPT !.stage = "proposed", !.offer = call,
                             !.tier = Chain[r.i].tier, !.wire = FALSE]
        PROVE  Good(c, load, n) /\ ~Waiting(n)
    <2>1. /\ call \in Offers(load) /\ Chain[r.i].tier \in Tiers
          /\ "proposed" \in Stages
      BY <1>t DEF work, Offers, Tiers, Stages
    <2>2. n \in Job(load)
      BY <1>2, <1>t, <2>1 DEF Job
    <2>3. /\ n.stage = "proposed" /\ n.by = r.by /\ n.class = r.class
          /\ n.cost = r.cost /\ ~n.wire
          /\ SameEpisode(n, r)
      BY <1>2, <1>t DEF Job, SameEpisode
    <2>4. r.cost <= 3
      BY <1>t DEF Fits
    <2>5. QED
      BY <1>t, <2>2, <2>3, <2>4
         DEF Good, Fits, OwnTurns, Unacted, Told, SameEpisode, Waiting
  <1>3. QED
    BY <1>1, <1>2 DEF AfterProposal

LEMMA AfterFailureGood ==
    ASSUME NEW c \in Callers, NEW w, NEW r, Good(c, w, r),
           r.stage \in {"react", "propose", "sample"}, NEW reply
    PROVE  Good(c, w, AfterFailure(r, reply))
           /\ ~Waiting(AfterFailure(r, reply))
  <1>t. r \in Job(w) /\ Fits(c, r) /\ (c \in Agents \/ c \in Samplers)
    BY DEF Good, Callers
  <1>1. CASE r.stage = "react"
    <2>1. c \in Agents
      BY <1>1, <1>t DEF Fits
    <2>2. AfterFailure(r, reply) = NextEntry(r)
      BY <1>1 DEF AfterFailure
    <2>3. QED
      BY <1>1, <2>1, <2>2, NextEntryGood
  <1>2. CASE r.stage = "propose"
    <2>1. c \in Agents
      BY <1>2, <1>t DEF Fits
    <2>2. AfterFailure(r, reply) = Escalate(r)
      BY <1>2 DEF AfterFailure
    <2>3. QED
      BY <1>2, <2>1, <2>2, EscalateGood
  <1>3. CASE r.stage = "sample"
    <2>0. c \in Samplers /\ c \notin Agents /\ r.try + 1 \in Nat
      <3>1. r.try \in Nat
        BY <1>t DEF Job
      <3>2. QED
        BY <1>3, <1>t, <3>1, ThreadAssumption DEF Fits
    <2> DEFINE n == [r EXCEPT !.try = r.try + 1, !.wire = FALSE]
    <2>1. n \in Job(w)
      BY <1>t, <2>0 DEF Job
    <2>2. /\ n.stage = "sample" /\ n.i = r.i /\ n.by = r.by
          /\ n.class = r.class /\ ~n.wire
          /\ SameEpisode(n, r)
      BY <1>3, <1>t DEF Job, SameEpisode
    <2>3. AfterFailure(r, reply) \in {n, Idle}
      BY <1>3 DEF AfterFailure
    <2> HIDE DEF n
    <2>4. Good(c, w, n) /\ ~Waiting(n)
      BY <1>3, <1>t, <2>0, <2>1, <2>2
         DEF Good, Fits, OwnTurns, Unacted, Told, SameEpisode, Waiting
    <2>5. QED
      BY <2>3, <2>4, IdleGood
  <1>4. QED
    BY <1>1, <1>2, <1>3

\* Nothing is fixed while a provider is being asked.
LEMMA AfterFailureStage ==
    ASSUME NEW r, NEW w, r \in Job(w),
           r.stage \in {"react", "propose", "sample"}, NEW reply
    PROVE  AfterFailure(r, reply).stage \notin {"acted", "judged"}
  <1>1. NextEntry(r).stage \in {"react", "diagnosed"} \/ r.stage # "react"
    BY DEF NextEntry, Job
  <1>2. Escalate(r).stage \in {"propose", "proposed"} \/ r.stage # "propose"
    BY DEF Escalate, Fallback, Job
  <1>3. CASE r.stage = "react"
    BY <1>1, <1>3 DEF AfterFailure
  <1>4. CASE r.stage = "propose"
    BY <1>2, <1>4 DEF AfterFailure
  <1>5. CASE r.stage = "sample"
    <2>1. AfterFailure(r, reply) \in
             {[r EXCEPT !.try = r.try + 1, !.wire = FALSE], Idle}
      BY <1>5 DEF AfterFailure
    <2>2. [r EXCEPT !.try = r.try + 1, !.wire = FALSE].stage = "sample"
      BY <1>5 DEF Job
    <2>3. Idle.stage = "idle"
      BY DEF Idle
    <2>4. QED
      BY <2>1, <2>2, <2>3
  <1>6. QED
    BY <1>3, <1>4, <1>5

\* Nor by what an answer leads to.
LEMMA AfterAnswerStage ==
    ASSUME NEW c, job[c] \in Job(load), NEW n,
           \/ job[c].stage = "react" /\ n \in AfterTurn(job[c])
           \/ job[c].stage = "propose" /\ n \in AfterProposal(job[c])
    PROVE  n.stage \notin {"acted", "judged"}
  <1> DEFINE r == job[c]
  <1>1. CASE r.stage = "react" /\ n \in AfterTurn(r)
    <2>1. ASSUME NEW s \in Job(load), s.stage = "react"
          PROVE  /\ NextTurn(s).stage \in {"react", "diagnosed"}
                 /\ NextEntry(s).stage \in {"react", "diagnosed"}
      BY <2>1 DEF NextTurn, NextEntry, Job
    <2>2. /\ [r EXCEPT !.failures = 1] \in Job(load)
          /\ [r EXCEPT !.failures = 1].stage = "react"
      BY <1>1 DEF Job
    <2>3. [r EXCEPT !.stage = "diagnosed", !.wire = FALSE].stage = "diagnosed"
      BY DEF Job
    <2>4. \A class : [r EXCEPT !.stage = "diagnosed", !.by = r.i,
                               !.class = class, !.wire = FALSE].stage = "diagnosed"
      BY DEF Job
    <2>5. QED
      BY <1>1, <2>1, <2>2, <2>3, <2>4 DEF AfterTurn
  <1>2. CASE r.stage = "propose" /\ n \in AfterProposal(r)
    <2>1. Escalate(r).stage \in {"propose", "proposed"}
      BY <1>2 DEF Escalate, Fallback, Job
    <2>2. AfterRejection(r).stage \in {"propose", "proposed"}
      BY <1>2, <2>1 DEF AfterRejection, Job
    <2>3. \A call : [r EXCEPT !.stage = "proposed", !.offer = call,
                        !.tier = Chain[r.i].tier, !.wire = FALSE].stage = "proposed"
      BY DEF Job
    <2>4. QED
      BY <1>2, <2>1, <2>2, <2>3 DEF AfterProposal
  <1>3. QED
    BY <1>1, <1>2

-----------------------------------------------------------------------------
(* constraint_checks and actions: what a call sets.                        *)

\* A call that sets something sets one value, and no CPU limit below the one
\* the fault left.
Sized(c) ==
    c.tool \in MAGNITUDE_SENSITIVE_ACTIONS =>
        \E v \in Nat : /\ Magnitude(c) = {v}
                       /\ c.tool = "patch_cpu_limit" => v >= Injected.cpu

\* The target as the fixes left it.
Target == live \in Levels /\ live.cpu >= Injected.cpu

LEMMA OfferNumber ==
    ASSUME NEW w \in DOMAIN Workloads, NEW c \in Offers(w)
    PROVE  c.num \in Nat
  <1>1. CASE c \in Workloads[w].offers
    BY <1>1, WorkloadAssumption
  <1>2. CASE c = NoCall
    BY <1>2 DEF NoCall, Call
  <1>3. ASSUME NEW class \in AutoFixClasses, c = ACTION_MAP[class]
        PROVE  c.num \in Nat
    BY <1>3 DEF AutoFixClasses, ACTION_MAP, Call
  <1>4. QED
    BY <1>1, <1>2, <1>3 DEF Offers

LEMMA OneMagnitude ==
    ASSUME NEW c, c.num \in Nat
    PROVE  Magnitude(c) = {} \/ \E v \in Nat : Magnitude(c) = {v}
  <1>1. c.num * 1024 \in Nat /\ c.num * 1000 \in Nat
    OBVIOUS
  <1>2. ToMi(c) = {} \/ \E v \in Nat : ToMi(c) = {v}
    BY <1>1 DEF ToMi
  <1>3. ToMillicores(c) = {} \/ \E v \in Nat : ToMillicores(c) = {v}
    BY <1>1 DEF ToMillicores
  <1>4. ToReplicas(c) = {} \/ \E v \in Nat : ToReplicas(c) = {v}
    BY DEF ToReplicas
  <1>5. QED
    BY <1>2, <1>3, <1>4 DEF Magnitude

LEMMA FixedSized ==
    ASSUME NEW class \in AutoFixClasses
    PROVE  Sized(ACTION_MAP[class])
  <1>1. CASE class = "oom"
    <2>1. ACTION_MAP[class] = Call("patch_memory_limit", 400, "Mi")
      BY <1>1 DEF ACTION_MAP
    <2>2. Magnitude(ACTION_MAP[class]) = {400}
      BY <2>1 DEF Magnitude, ToMi, Call
    <2>3. QED
      BY <2>1, <2>2 DEF Sized, Call
  <1>2. CASE class = "cpu-throttling"
    <2>1. ACTION_MAP[class] = Call("patch_cpu_limit", 600, "m")
      BY <1>2 DEF ACTION_MAP
    <2>2. Magnitude(ACTION_MAP[class]) = {600}
      BY <2>1 DEF Magnitude, ToMillicores, Call
    <2>3. QED
      BY <2>1, <2>2 DEF Sized, Call, Injected
  <1>3. CASE class = "under-provisioned-replicas"
    <2>1. ACTION_MAP[class] = Call("scale_deployment", 3, "int")
      BY <1>3 DEF ACTION_MAP
    <2>2. Magnitude(ACTION_MAP[class]) = {3}
      BY <2>1 DEF Magnitude, ToReplicas, Call
    <2>3. QED
      BY <2>1, <2>2 DEF Sized, Call
  <1>4. CASE class \in {"crash-loop", "disk-full", "bad-rollout"}
    BY <1>4 DEF ACTION_MAP, AutoFixClasses, Call, Sized,
                MAGNITUDE_SENSITIVE_ACTIONS
  <1>5. QED
    BY <1>1, <1>2, <1>3, <1>4 DEF AutoFixClasses

LEMMA MaxOfTwo ==
    ASSUME NEW a \in Int, NEW b \in Int
    PROVE  /\ Max({a, b}) \in {a, b}
           /\ Max({a, b}) >= a /\ Max({a, b}) >= b
  <1>1. \E x \in {a, b} : \A y \in {a, b} : x >= y
    OBVIOUS
  <1>2. QED
    BY <1>1 DEF Max

\* What check_safe lets through exceeds what is known to fail, and the cap
\* holds, whatever the readings of the episode were.
LEMMA SafeIsAdequate ==
    ASSUME NEW c, c.num \in Nat, NEW seen \in Output, Target,
           c.tool \in MAGNITUDE_SENSITIVE_ACTIONS, CheckSafe(c, seen, live)
    PROVE  \E v \in Nat :
              /\ Magnitude(c) = {v}
              /\ v <= Cap[c.tool] /\ v > Injected[Sets[c.tool]]
              /\ c.tool = "scale_deployment" =>
                    v >= UNDER_PROVISIONED_VALIDATED_SAFE_REPLICAS
              /\ c.tool = "patch_cpu_limit" => v >= Injected.cpu
  <1>1. PICK v \in Magnitude(c) : \E f \in Floor(c.tool, seen, live) :
           f < v /\ v <= Cap[c.tool]
    BY DEF CheckSafe
  <1>2. Magnitude(c) = {v} /\ v \in Nat
    BY <1>1, OneMagnitude
  <1>3. PICK f \in Floor(c.tool, seen, live) : f < v /\ v <= Cap[c.tool]
    BY <1>1
  <1>4. CASE c.tool = "patch_memory_limit"
    <2>1. PICK peak \in seen.peak_memory_mib :
             f = Max({peak, OOM_BASELINE_MEMORY_LIMIT})
      BY <1>3, <1>4 DEF Floor, MemoryFloor
    <2>2. peak \in Int /\ OOM_BASELINE_MEMORY_LIMIT = 200
      BY DEF Output, OOM_BASELINE_MEMORY_LIMIT
    <2>3. f \in Int /\ f >= 200
      BY <2>1, <2>2, MaxOfTwo
    <2>4. Injected[Sets[c.tool]] = 200
      BY <1>4, <2>2 DEF Sets, Injected, MAGNITUDE_SENSITIVE_ACTIONS
    <2>5. v > 200
      BY <1>2, <1>3, <2>3
    <2>6. QED
      BY <1>2, <1>3, <1>4, <2>4, <2>5
  <1>5. CASE c.tool = "patch_cpu_limit"
    <2>1. f = live.cpu
      BY <1>3, <1>5 DEF Floor, CpuFloor
    <2>2. Injected[Sets[c.tool]] = 300 /\ Injected.cpu = 300
      BY <1>5 DEF Sets, Injected, MAGNITUDE_SENSITIVE_ACTIONS
    <2>3. live.cpu \in Nat /\ live.cpu >= 300
      BY <2>2 DEF Target, Levels
    <2>4. v > 300 /\ v >= 300
      BY <1>2, <1>3, <2>1, <2>3
    <2>5. QED
      BY <1>2, <1>3, <1>5, <2>2, <2>4
  <1>6. CASE c.tool = "scale_deployment"
    <2>1. PICK n \in seen.current_replicas :
             f = Max({n, UNDER_PROVISIONED_VALIDATED_SAFE_REPLICAS - 1})
      BY <1>3, <1>6 DEF Floor, ReplicaFloor
    <2>2. n \in Int /\ UNDER_PROVISIONED_VALIDATED_SAFE_REPLICAS = 3
      BY DEF Output, UNDER_PROVISIONED_VALIDATED_SAFE_REPLICAS
    <2>3. f \in Int /\ f >= 2
      BY <2>1, <2>2, MaxOfTwo
    <2>4. Injected[Sets[c.tool]] = 1
      BY <1>6 DEF Sets, Injected, MAGNITUDE_SENSITIVE_ACTIONS
    <2>5. v > 1 /\ v >= 3
      BY <1>2, <1>3, <2>3
    <2>6. QED
      BY <1>2, <1>3, <1>6, <2>2, <2>4, <2>5
  <1>7. QED
    BY <1>4, <1>5, <1>6 DEF MAGNITUDE_SENSITIVE_ACTIONS

LEMMA AppliedTarget ==
    ASSUME Target, NEW c, Sized(c), NEW resized \in BOOLEAN,
           live' = Applied(live, c, resized)
    PROVE  Target'
  <1>1. CASE live' = live
    BY <1>1 DEF Target
  <1>2. CASE /\ c.tool \in MAGNITUDE_SENSITIVE_ACTIONS
             /\ live' = [live EXCEPT ![Sets[c.tool]] =
                            CHOOSE v \in Magnitude(c) : TRUE]
    <2>1. PICK v \in Nat : /\ Magnitude(c) = {v}
                           /\ c.tool = "patch_cpu_limit" => v >= Injected.cpu
      BY <1>2 DEF Sized
    <2>2. live' = [live EXCEPT ![Sets[c.tool]] = v]
      BY <1>2, <2>1
    <2>3. CASE c.tool = "patch_memory_limit"
      <3>1. Sets[c.tool] = "memory"
        BY <2>3 DEF Sets, MAGNITUDE_SENSITIVE_ACTIONS
      <3>2. QED
        BY <2>2, <3>1 DEF Target, Levels
    <2>4. CASE c.tool = "patch_cpu_limit"
      <3>1. Sets[c.tool] = "cpu"
        BY <2>4 DEF Sets, MAGNITUDE_SENSITIVE_ACTIONS
      <3>2. QED
        BY <2>1, <2>2, <2>4, <3>1 DEF Target, Levels
    <2>5. CASE c.tool = "scale_deployment"
      <3>1. Sets[c.tool] = "replicas"
        BY <2>5 DEF Sets, MAGNITUDE_SENSITIVE_ACTIONS
      <3>2. QED
        BY <2>2, <3>1 DEF Target, Levels
    <2>6. QED
      BY <1>2, <2>3, <2>4, <2>5 DEF MAGNITUDE_SENSITIVE_ACTIONS
  <1>3. QED
    BY <1>1, <1>2 DEF Applied

-----------------------------------------------------------------------------
(* The steps of a handler.                                                 *)

\* A fix sized by the model is more than what failed, and within the cap.
Adequate(r) ==
    LET c == r.ran IN
    r.source = "llm" /\ c.tool \in MAGNITUDE_SENSITIVE_ACTIONS =>
        \A v \in Magnitude(c) :
            /\ v <= Cap[c.tool]
            /\ v > Injected[Sets[c.tool]]
            /\ c.tool = "scale_deployment" =>
                    v >= UNDER_PROVISIONED_VALIDATED_SAFE_REPLICAS

\* The fix of a handler is the right one, and was judged by the diagnosis.
Fixed(w, r) ==
    LET actual == Workloads[w].actual IN
    /\ r.ran # NoCall /\ actual \in AutoFixClasses =>
          r.ran.tool = ACTION_MAP[actual].tool
    /\ Adequate(r)
    /\ r.credit # None /\ r.offer.tool # "patch_cpu_limit" =>
          (r.credit = "right" <=> /\ r.offer.tool = ACTION_MAP[actual].tool
                                  /\ CheckSafe(r.offer, r.seen, r.levels))

Handlers ==
    /\ load \in DOMAIN Workloads
    /\ job \in [Callers -> Job(load)]
    /\ \A c \in Callers : Good(c, load, job[c]) /\ Fixed(load, job[c])

Becomes(c, n) ==
    /\ load' = load /\ job' = [job EXCEPT ![c] = n]
    /\ Good(c, load, n) /\ Fixed(load, n)

LEMMA HandlerBecomes ==
    ASSUME Handlers, NEW c \in Callers, NEW n, Becomes(c, n)
    PROVE  /\ Handlers' /\ job'[c] = n
           /\ \A d \in Callers : d # c => job'[d] = job[d]
  BY DEF Handlers, Becomes, Good

LEMMA UnactedFixed ==
    ASSUME NEW c, NEW w, NEW r, Good(c, w, r),
           r.stage \notin {"acted", "judged"}
    PROVE  Fixed(w, r)
  <1>1. r.ran = NoCall /\ r.source = None /\ r.credit = None
    BY DEF Good, Unacted
  <1>2. None # "llm"
    BY DEF None
  <1>3. QED
    BY <1>1, <1>2 DEF Fixed, Adequate

LEMMA IdleStage == Idle.stage = "idle"
  BY DEF Idle

LEMMA StartDiagnoseStep ==
    ASSUME Handlers, Target, NEW a \in Agents, StartDiagnose(a)
    PROVE  \E n : Becomes(a, n) /\ ~Waiting(n) /\ ~Waiting(job[a])
  <1>c. a \in Callers /\ a \notin Samplers
    BY ThreadAssumption DEF Callers
  <1>1. PICK s \in work.readings, peak \in work.peaks, counted \in work.counted :
           \E later \in Reread(s) :
           job' = [job EXCEPT ![a] =
              [Idle EXCEPT
                 !.stage = IF work.stubOnly THEN "diagnosed" ELSE "react",
                 !.stub = StubResult(work.target, s),
                 !.hint = IF work.stubOnly THEN NoAnomaly
                          ELSE Hint(QueryPrometheus(work.target, later)),
                 !.levels = live,
                 !.seen = [peak_memory_mib |-> peak,
                           current_replicas |->
                              IF counted THEN {live.replicas} ELSE {}]]]
    BY DEF StartDiagnose
  <1>r. PICK later \in Reread(s) :
           job' = [job EXCEPT ![a] =
              [Idle EXCEPT
                 !.stage = IF work.stubOnly THEN "diagnosed" ELSE "react",
                 !.stub = StubResult(work.target, s),
                 !.hint = IF work.stubOnly THEN NoAnomaly
                          ELSE Hint(QueryPrometheus(work.target, later)),
                 !.levels = live,
                 !.seen = [peak_memory_mib |-> peak,
                           current_replicas |->
                              IF counted THEN {live.replicas} ELSE {}]]]
    BY <1>1
  <1>f. later \in work.readings /\ (work.frozen => later = s)
    BY DEF Reread
  <1> DEFINE stage == IF work.stubOnly THEN "diagnosed" ELSE "react"
             stub == StubResult(work.target, s)
             hint == IF work.stubOnly THEN NoAnomaly
                     ELSE Hint(QueryPrometheus(work.target, later))
             seen == [peak_memory_mib |-> peak,
                      current_replicas |->
                         IF counted THEN {live.replicas} ELSE {}]
             n == [Idle EXCEPT !.stage = stage, !.stub = stub, !.hint = hint,
                               !.levels = live, !.seen = seen]
  <1>2. stage \in {"diagnosed", "react"} /\ stage \in Stages
    BY DEF Stages
  <1>3. stub \in Stubs(load) /\ hint \in Hints(load)
    BY <1>f DEF Stubs, Hints, work
  <1>4. seen \in Output
    <2>1. peak \in SUBSET Nat
      BY WorkloadAssumption DEF Handlers, work
    <2>2. (IF counted THEN {live.replicas} ELSE {}) \in SUBSET Nat
      BY DEF Target, Levels
    <2>3. QED
      BY <2>1, <2>2 DEF Output
  <1>5. /\ \E x \in Workloads[load].readings :
              /\ stub = StubResult(Workloads[load].target, x)
              /\ Workloads[load].frozen =>
                    hint \in {NoAnomaly,
                              Hint(QueryPrometheus(Workloads[load].target, x))}
        /\ live \in Levels
    BY <1>f DEF work, Target
  <1>6. load' = load /\ job' = [job EXCEPT ![a] = n] /\ job[a].stage = "idle"
    BY <1>r DEF StartDiagnose
  <1> HIDE DEF stage, stub, hint, seen
  <1>7. Idle \in Job(load) /\ Good(a, load, Idle)
    BY <1>c, IdleGood DEF Good
  <1>8. n \in Job(load)
    BY <1>2, <1>3, <1>4, <1>5, <1>7 DEF Job
  <1>9. /\ n.stage = stage /\ n.stub = stub /\ n.hint = hint
        /\ n.try = 1 /\ n.cost = 0 /\ ~n.wire /\ n.by = 0 /\ n.class = None
        /\ n.turns = {} /\ n.ran = NoCall /\ n.source = None
        /\ n.credit = None
    BY DEF Idle
  <1> HIDE DEF n
  <1>10. Good(a, load, n)
    BY <1>c, <1>2, <1>5, <1>8, <1>9
       DEF Good, Fits, OwnTurns, Unacted, Told
  <1>11. Fixed(load, n)
    BY <1>2, <1>9, <1>10, UnactedFixed
  <1>12. QED
    BY <1>6, <1>9, <1>10, <1>11 DEF Becomes, Waiting

LEMMA StartSampleStep ==
    ASSUME Handlers, NEW s \in Samplers, StartSample(s)
    PROVE  \E n : Becomes(s, n) /\ ~Waiting(n) /\ ~Waiting(job[s])
  <1>c. s \in Callers /\ s \notin Agents
    BY ThreadAssumption DEF Callers
  <1>1. PICK e \in Compared :
           job' = [job EXCEPT ![s] = [Idle EXCEPT !.stage = "sample", !.i = e]]
    BY DEF StartSample
  <1> DEFINE n == [Idle EXCEPT !.stage = "sample", !.i = e]
  <1>2. load' = load /\ job' = [job EXCEPT ![s] = n] /\ job[s].stage = "idle"
    BY <1>1 DEF StartSample
  <1>3. Idle \in Job(load) /\ e \in Entries /\ "sample" \in Stages
    BY <1>c, IdleGood, ChainAssumption DEF Good, Stages
  <1>4. n \in Job(load)
    BY <1>3 DEF Job
  <1>5. /\ n.stage = "sample" /\ n.i = e /\ n.by = 0 /\ n.class = None
        /\ n.hint = NoAnomaly /\ ~n.wire
        /\ n.ran = NoCall /\ n.source = None /\ n.credit = None
    BY DEF Idle
  <1> HIDE DEF n
  <1>6. Good(s, load, n)
    BY <1>c, <1>4, <1>5 DEF Good, Fits, OwnTurns, Unacted, Told
  <1>7. Fixed(load, n)
    BY <1>5, <1>6, UnactedFixed
  <1>8. QED
    BY <1>2, <1>5, <1>6, <1>7 DEF Becomes, Waiting

LEMMA EndStep ==
    ASSUME Handlers, NEW a \in Agents, EndDiagnose(a) \/ EndAct(a)
    PROVE  \E n : Becomes(a, n) /\ ~Waiting(n) /\ ~Waiting(job[a])
  <1>c. a \in Callers
    BY DEF Callers
  <1>1. /\ load' = load /\ job' = [job EXCEPT ![a] = Idle]
        /\ job[a].stage \in {"diagnosed", "judged"}
    BY DEF EndDiagnose, EndAct
  <1>2. Good(a, load, Idle) /\ ~Waiting(Idle)
    BY <1>c, IdleGood
  <1>3. Fixed(load, Idle)
    BY <1>2, IdleStage, UnactedFixed
  <1>4. QED
    BY <1>1, <1>2, <1>3 DEF Becomes, Waiting

LEMMA StartActStep ==
    ASSUME Handlers, NEW a \in Agents, StartAct(a)
    PROVE  \E n : Becomes(a, n) /\ ~Waiting(n) /\ ~Waiting(job[a])
  <1>c. a \in Callers /\ a \notin Samplers
    BY ThreadAssumption DEF Callers
  <1> DEFINE r == job[a]
  <1>1. PICK byLlm \in BOOLEAN, propose \in BOOLEAN :
           /\ propose => r.class \in AutoFixClasses
           /\ job' = [job EXCEPT ![a] =
                 [job[a] EXCEPT
                    !.stage = IF propose THEN "propose" ELSE "proposed",
                    !.i = IF propose THEN job[a].by ELSE 1,
                    !.byLlm = byLlm, !.predicted = Predicted(job[a], byLlm),
                    !.turn = 1, !.failures = 0, !.turns = {}]]
    BY DEF StartAct
  <1> DEFINE stage == IF propose THEN "propose" ELSE "proposed"
             i == IF propose THEN job[a].by ELSE 1
             predicted == Predicted(job[a], byLlm)
             n == [r EXCEPT !.stage = stage, !.i = i, !.byLlm = byLlm,
                            !.predicted = predicted, !.turn = 1,
                            !.failures = 0, !.turns = {}]
  <1>2. load' = load /\ job' = [job EXCEPT ![a] = n] /\ r.stage = "diagnosed"
    BY <1>1 DEF StartAct
  <1>t. /\ r \in Job(load) /\ Fits(a, r) /\ Good(a, load, r)
        /\ r.by \in 0..Len(Chain) /\ Len(Chain) \in Nat \ {0}
        /\ r.try = 1 /\ r.cost = 0 /\ ~r.wire
    BY <1>c, <1>2, ChainAssumption DEF Handlers, Good, Fits, Job
  <1>3. stage \in Stages /\ stage \in {"propose", "proposed"}
    BY DEF Stages
  <1>4. i \in Entries /\ (propose => i = r.by)
    <2>1. propose => r.by # 0
      BY <1>1, <1>t DEF Fits, AutoFixClasses, None
    <2>2. QED
      BY <1>t, <2>1 DEF Entries
  <1>5. predicted \in Answers(load) \cup Stubs(load)
    BY <1>t DEF Predicted, Job
  <1>6. /\ 1 \in 1..MAX_TURNS /\ 0 \in 0..1 /\ {} \in SUBSET Entries
        /\ (propose <=> stage = "propose")
    BY ThreadAssumption
  <1> HIDE DEF stage, i, predicted
  <1>7. n \in Job(load)
    <2> DEFINE m == [r EXCEPT !.turn = 1, !.failures = 0, !.turns = {}]
    <2>1. m \in Job(load)
      BY ZenonT(60), <1>t, <1>6 DEF Job
    <2>2. n = [m EXCEPT !.stage = stage, !.i = i, !.byLlm = byLlm,
                        !.predicted = predicted]
      BY <1>t DEF Job
    <2> HIDE DEF m, n
    <2>3. QED
      BY <1>3, <1>4, <1>5, <2>1, <2>2 DEF Job
  <1>8. /\ n.stage = stage /\ n.i = i /\ n.by = r.by /\ n.class = r.class
        /\ n.try = r.try /\ n.cost = r.cost /\ n.wire = r.wire
        /\ SameEpisode(n, r)
    BY <1>t DEF Job, SameEpisode
  <1> HIDE DEF n
  <1>9. Good(a, load, n)
    BY <1>c, <1>t, <1>1, <1>2, <1>3, <1>4, <1>6, <1>7, <1>8
       DEF Good, Fits, OwnTurns, Unacted, Told, SameEpisode
  <1>10. Fixed(load, n)
    BY <1>3, <1>8, <1>9, UnactedFixed
  <1>11. QED
    BY <1>2, <1>t, <1>8, <1>9, <1>10 DEF Becomes, Waiting

\* The call /act runs for a class with a fix.
LEMMA RunIsRight ==
    ASSUME Handlers, Target, NEW a \in Agents, NEW acts,
           job[a].predicted \in AutoFixClasses,
           NEW chosen, chosen = Chosen(job[a], job[a].predicted, acts),
           NEW run, run = DispatchWithGate(job[a].predicted, work.actual,
                                           chosen[1], job[a].seen, live)
    PROVE  /\ run \in Offers(load) /\ Sized(run)
           /\ work.actual \in AutoFixClasses =>
                 run.tool = ACTION_MAP[work.actual].tool
           /\ chosen[2] \in {"llm", "deterministic"}
           /\ run = chosen[1] /\ chosen[2] = "llm" =>
                 CheckSafe(run, job[a].seen, live)
  <1> DEFINE r == job[a]
             p == job[a].predicted
  <1>t. /\ r.offer \in Offers(load) /\ r.seen \in Output
        /\ load \in DOMAIN Workloads
    BY DEF Handlers, Job, Callers
  <1>f. \A class \in AutoFixClasses :
           ACTION_MAP[class] \in Offers(load) /\ Sized(ACTION_MAP[class])
    BY FixedSized DEF Offers
  <1>1. \/ /\ chosen[1] = ACTION_MAP[p] /\ chosen[2] = "deterministic"
        \/ /\ chosen[1] = r.offer /\ chosen[2] = "llm"
           /\ r.offer.tool = ACTION_MAP[p].tool
           /\ CheckSafe(r.offer, r.seen, live)
    BY DEF Chosen
  <1>2. /\ chosen[1] \in Offers(load) /\ Sized(chosen[1])
        /\ chosen[1].tool = ACTION_MAP[p].tool
    <2>1. CASE chosen[1] = ACTION_MAP[p]
      BY <2>1, <1>f
    <2>2. CASE /\ chosen[1] = r.offer /\ r.offer.tool = ACTION_MAP[p].tool
               /\ CheckSafe(r.offer, r.seen, live)
      <3>1. r.offer.num \in Nat
        BY <1>t, OfferNumber
      <3>2. Sized(r.offer)
        BY <1>t, <2>2, <3>1, SafeIsAdequate DEF Sized
      <3>3. QED
        BY <1>t, <2>2, <3>2
    <2>3. QED
      BY <1>1, <2>1, <2>2
  <1>3. CASE run = chosen[1]
    <2>1. work.actual \in AutoFixClasses =>
             run.tool = ACTION_MAP[work.actual].tool
      BY <1>2, <1>3, <1>f DEF DispatchWithGate
    <2>2. QED
      BY <1>1, <1>2, <1>3, <2>1
  <1>4. CASE run # chosen[1]
    <2>1. run = ACTION_MAP[work.actual] /\ work.actual \in AutoFixClasses
      BY <1>4 DEF DispatchWithGate
    <2>2. QED
      BY <1>1, <1>4, <1>f, <2>1
  <1>5. QED
    BY <1>3, <1>4

\* A handler that acts keeps all but its stage, its fix and where that is from.
LEMMA ActedBecomes ==
    ASSUME Handlers, NEW a \in Agents, job[a].stage = "proposed",
           NEW run \in Offers(load), NEW source \in Sources,
           work.actual \in AutoFixClasses /\ run # NoCall =>
               run.tool = ACTION_MAP[work.actual].tool,
           source = "llm" /\ run.tool \in MAGNITUDE_SENSITIVE_ACTIONS =>
               \A v \in Magnitude(run) :
                   /\ v <= Cap[run.tool] /\ v > Injected[Sets[run.tool]]
                   /\ run.tool = "scale_deployment" =>
                         v >= UNDER_PROVISIONED_VALIDATED_SAFE_REPLICAS,
           load' = load,
           job' = [job EXCEPT ![a] = [job[a] EXCEPT !.stage = "acted",
                                         !.ran = run, !.source = source]]
    PROVE  \E n : Becomes(a, n) /\ ~Waiting(n) /\ ~Waiting(job[a])
  <1> DEFINE r == job[a]
             n == [r EXCEPT !.stage = "acted", !.ran = run, !.source = source]
  <1>c. a \in Callers /\ a \notin Samplers
    BY ThreadAssumption DEF Callers
  <1>t. /\ r \in Job(load) /\ Fits(a, r) /\ Good(a, load, r)
        /\ "acted" \in Stages
    BY <1>c DEF Handlers, Good, Stages
  <1>1. n \in Job(load)
    BY <1>t DEF Job
  <1>2. /\ n.stage = "acted" /\ n.ran = run /\ n.source = source
        /\ n.credit = r.credit /\ n.offer = r.offer /\ n.by = r.by
        /\ n.class = r.class /\ n.hint = r.hint /\ n.stub = r.stub
    BY <1>t DEF Job
  <1>3. r.credit = None
    BY <1>t DEF Good, Unacted
  <1>4. job' = [job EXCEPT ![a] = n]
    OBVIOUS
  <1> HIDE DEF n
  <1>5. Good(a, load, n)
    BY <1>c, <1>t, <1>1, <1>2 DEF Good, Fits, OwnTurns, Unacted, Told
  <1>6. Fixed(load, n)
    BY <1>2, <1>3 DEF Fixed, Adequate, work
  <1>7. QED
    BY <1>2, <1>4, <1>5, <1>6 DEF Becomes, Waiting

LEMMA ActStep ==
    ASSUME Handlers, Target, NEW a \in Agents, Act(a)
    PROVE  Target' /\ \E n : Becomes(a, n) /\ ~Waiting(n) /\ ~Waiting(job[a])
  <1> DEFINE r == job[a]
  <1>0. r.stage = "proposed" /\ load' = load
    BY DEF Act
  <1>t. /\ r \in Job(load) /\ r.seen \in Output /\ load \in DOMAIN Workloads
        /\ r.ran = NoCall /\ r.source = None /\ None \in Sources
        /\ NoCall \in Offers(load)
    BY <1>0 DEF Handlers, Good, Unacted, Job, Callers, Sources, Offers
  <1>1. ASSUME NEW acts, NEW resized \in BOOLEAN, NEW chosen, NEW run,
               chosen = Chosen(r, r.predicted, acts),
               run = DispatchWithGate(r.predicted, work.actual, chosen[1],
                                      r.seen, live),
               r.predicted \in AutoFixClasses,
               live' = Applied(live, run, resized),
               job' = [job EXCEPT ![a] =
                  [r EXCEPT !.stage = "acted", !.ran = run,
                            !.source = IF run = chosen[1] THEN chosen[2]
                                       ELSE "gate_substituted"]]
        PROVE  Target' /\ \E n : Becomes(a, n) /\ ~Waiting(n) /\ ~Waiting(r)
    <2> DEFINE source == IF run = chosen[1] THEN chosen[2]
                         ELSE "gate_substituted"
    <2>1. /\ run \in Offers(load) /\ Sized(run)
          /\ work.actual \in AutoFixClasses =>
                run.tool = ACTION_MAP[work.actual].tool
          /\ chosen[2] \in {"llm", "deterministic"}
          /\ run = chosen[1] /\ chosen[2] = "llm" =>
                CheckSafe(run, r.seen, live)
      BY <1>1, RunIsRight
    <2>2. source \in Sources /\ (source = "llm" => CheckSafe(run, r.seen, live))
      BY <2>1 DEF Sources
    <2>3. run.num \in Nat
      BY <1>t, <2>1, OfferNumber
    <2>4. source = "llm" /\ run.tool \in MAGNITUDE_SENSITIVE_ACTIONS =>
             \A v \in Magnitude(run) :
                /\ v <= Cap[run.tool] /\ v > Injected[Sets[run.tool]]
                /\ run.tool = "scale_deployment" =>
                      v >= UNDER_PROVISIONED_VALIDATED_SAFE_REPLICAS
      BY <1>t, <2>2, <2>3, SafeIsAdequate
    <2>5. Target'
      BY <1>1, <2>1, AppliedTarget
    <2>6. job' = [job EXCEPT ![a] = [job[a] EXCEPT !.stage = "acted",
                                        !.ran = run, !.source = source]]
      BY <1>1
    <2> HIDE DEF source
    <2>7. QED
      BY <1>0, <2>1, <2>2, <2>4, <2>5, <2>6, ActedBecomes
  <1>2. ASSUME NEW resized \in BOOLEAN, work.actual \in AutoFixClasses,
               live' = Applied(live, ACTION_MAP[work.actual], resized),
               job' = [job EXCEPT ![a] =
                  [r EXCEPT !.stage = "acted", !.ran = ACTION_MAP[work.actual],
                            !.source = "ground_truth_safety_net"]]
        PROVE  Target' /\ \E n : Becomes(a, n) /\ ~Waiting(n) /\ ~Waiting(r)
    <2>1. Target'
      BY <1>2, FixedSized, AppliedTarget
    <2>2. /\ ACTION_MAP[work.actual] \in Offers(load)
          /\ "ground_truth_safety_net" \in Sources
      BY <1>2 DEF Offers, Sources
    <2>3. QED
      BY <1>0, <1>2, <2>1, <2>2, ActedBecomes
  <1>3. ASSUME live' = live,
               job' = [job EXCEPT ![a] = [r EXCEPT !.stage = "acted"]]
        PROVE  Target' /\ \E n : Becomes(a, n) /\ ~Waiting(n) /\ ~Waiting(r)
    <2>1. [r EXCEPT !.stage = "acted"] =
             [r EXCEPT !.stage = "acted", !.ran = NoCall, !.source = None]
      BY <1>t DEF Job
    <2>2. job' = [job EXCEPT ![a] = [job[a] EXCEPT !.stage = "acted",
                                        !.ran = NoCall, !.source = None]]
      BY <1>3, <2>1
    <2>3. None # "llm"
      BY DEF None
    <2>4. QED
      BY <1>0, <1>3, <1>t, <2>2, <2>3, ActedBecomes DEF Target
  <1>4. QED
    BY ZenonT(60), <1>1, <1>2, <1>3 DEF Act

\* A floor that is not read from the Deployment is the same after the fix.
LEMMA FloorStays ==
    ASSUME NEW tool, tool # "patch_cpu_limit", NEW seen, NEW now1, NEW then,
           tool \in MAGNITUDE_SENSITIVE_ACTIONS
    PROVE  Floor(tool, seen, now1) = Floor(tool, seen, then)
  BY DEF Floor, ReplicaFloor, MAGNITUDE_SENSITIVE_ACTIONS

LEMMA JudgeStep ==
    ASSUME Handlers, NEW a \in Agents, Judge(a)
    PROVE  \E n : Becomes(a, n) /\ ~Waiting(n) /\ ~Waiting(job[a])
  <1> DEFINE r == job[a]
             credit == IF /\ r.offer # NoCall /\ work.actual \in AutoFixClasses
                          /\ EligibleActionForStreak(r.tier)
                       THEN IF ActionIsCorrect(work.actual, r.offer, r.seen, live)
                            THEN "right" ELSE "wrong"
                       ELSE None
             n == [r EXCEPT !.stage = "judged", !.credit = credit]
  <1>c. a \in Callers /\ a \notin Samplers
    BY ThreadAssumption DEF Callers
  <1>0. /\ r.stage = "acted" /\ load' = load
        /\ job' = [job EXCEPT ![a] = n]
    BY DEF Judge
  <1>t. /\ r \in Job(load) /\ Fits(a, r) /\ Good(a, load, r) /\ Fixed(load, r)
        /\ "judged" \in Stages
    BY <1>c DEF Handlers, Good, Stages
  <1>1. credit \in {None, "right", "wrong"}
    OBVIOUS
  <1>2. ASSUME credit # None, r.offer.tool # "patch_cpu_limit"
        PROVE  credit = "right" <=>
                  /\ r.offer.tool = ACTION_MAP[work.actual].tool
                  /\ CheckSafe(r.offer, r.seen, r.levels)
    <2>1. work.actual \in AutoFixClasses
      BY <1>2
    <2>2. credit = "right" <=> ActionIsCorrect(work.actual, r.offer, r.seen, live)
      BY <1>2 DEF None
    <2>3. CheckSafe(r.offer, r.seen, live) <=> CheckSafe(r.offer, r.seen, r.levels)
      BY <1>2, FloorStays DEF CheckSafe
    <2>4. QED
      BY <2>1, <2>2, <2>3, SameMap DEF ActionIsCorrect
  <1> HIDE DEF credit
  <1>3. n \in Job(load)
    BY <1>t, <1>1 DEF Job
  <1>4. /\ n.stage = "judged" /\ n.credit = credit
        /\ n.ran = r.ran /\ n.source = r.source /\ n.offer = r.offer
        /\ n.seen = r.seen /\ n.levels = r.levels /\ n.by = r.by
        /\ n.class = r.class /\ n.hint = r.hint /\ n.stub = r.stub
    BY <1>t DEF Job
  <1> HIDE DEF n
  <1>5. Good(a, load, n)
    BY <1>c, <1>0, <1>t, <1>3, <1>4 DEF Good, Fits, OwnTurns, Unacted, Told
  <1>6. Fixed(load, n)
    <2>1. Adequate(n)
      BY <1>t, <1>4 DEF Fixed, Adequate
    <2>2. QED
      BY <1>t, <1>2, <1>4, <2>1 DEF Fixed, work
  <1>7. QED
    BY <1>0, <1>4, <1>5, <1>6 DEF Becomes, Waiting

-----------------------------------------------------------------------------
(* quota_tracker: what is on the wire, and what it costs.                  *)

Mark == [until : Nat, probe : Nat]

Counters ==
    /\ now \in 0..work.time /\ neurons \in Nat
    /\ calls \in [Limited -> Nat] /\ sent \in [Limited -> Nat]
    /\ lost \in [Limited -> Nat] /\ refused \in [Entries -> Nat]
    /\ again \subseteq Callers
    /\ marks \in [Entries -> SUBSET Mark]
    /\ \A e \in Entries : marks[e] = {} \/ \E m \in Mark : marks[e] = {m}

Bills == /\ Counters /\ Charged /\ Admitted /\ Posted
         /\ Reserved /\ Cooling

\* The calls on the wire that have posted twice.
Twice(e) == OnTheWire(e) \cap again

LEMMA Threads ==
    /\ IsFiniteSet(Callers) /\ IsFiniteSet(Agents)
    /\ Cardinality(Callers) \in Nat /\ Cardinality(Agents) \in Nat
  BY ThreadAssumption, FS_Union, FS_CardinalityType DEF Callers

LEMMA Times ==
    ASSUME NEW m \in Nat, NEW n \in Nat, NEW k \in Nat, m <= n
    PROVE  m * k <= n * k /\ m * k \in Nat /\ n * k \in Nat
  OBVIOUS

LEMMA TimesLess ==
    ASSUME NEW m \in Nat \ {0}, NEW k \in Nat
    PROVE  (m - 1) * k + k = m * k /\ (m - 1) * k \in Nat
  OBVIOUS

\* The threads on the wire, as sets of waiting handlers.
LEMMA OnWire ==
    ASSUME NEW e
    PROVE  OnTheWire(e) = {c \in Callers : Waiting(job[c]) /\ job[c].i = e}
  BY DEF OnTheWire, Calling, Waiting

LEMMA OnWireNext ==
    ASSUME NEW e
    PROVE  OnTheWire(e)' = {c \in Callers : Waiting(job'[c]) /\ job'[c].i = e}
  BY DEF OnTheWire, Calling, Waiting

LEMMA SpendingNow ==
    Spending = {c \in Callers : Waiting(job[c])
                                /\ Chain[job[c].i].provider = "cloudflare"}
  BY DEF Spending, Calling, Waiting

LEMMA SpendingNext ==
    Spending' = {c \in Callers : Waiting(job'[c])
                                 /\ Chain[job'[c].i].provider = "cloudflare"}
  BY DEF Spending, Calling, Waiting

LEMMA WireCounts ==
    ASSUME NEW e
    PROVE  /\ IsFiniteSet(OnTheWire(e)) /\ Cardinality(OnTheWire(e)) \in Nat
           /\ Cardinality(OnTheWire(e)) <= Cardinality(Callers)
  <1>1. OnTheWire(e) \subseteq Callers
    BY DEF OnTheWire
  <1>2. QED
    BY <1>1, Threads, FS_Subset, FS_CardinalityType

LEMMA TwiceCounts ==
    ASSUME NEW e
    PROVE  /\ IsFiniteSet(Twice(e)) /\ Cardinality(Twice(e)) \in Nat
           /\ Cardinality(Twice(e)) <= Cardinality(OnTheWire(e))
  <1>1. Twice(e) \subseteq OnTheWire(e)
    BY DEF Twice
  <1>2. QED
    BY <1>1, WireCounts, FS_Subset, FS_CardinalityType

\* Only a call of a Gemini entry posts twice.
LEMMA TwiceIsGemini ==
    ASSUME Posted, NEW e
    PROVE  /\ Posts(e) \in {1, 2}
           /\ Posts(e) = 1 => Cardinality(Twice(e)) = 0
           /\ \A c \in Twice(e) : Posts(e) = 2
  <1>1. ASSUME NEW c \in Twice(e) PROVE Posts(e) = 2
    <2>1. PICK f \in Entries : Chain[f].provider = "gemini" /\ c \in OnTheWire(f)
      BY DEF Twice, Posted
    <2>2. c \in OnTheWire(e)
      BY DEF Twice
    <2>3. e = f
      BY <2>1, <2>2 DEF OnTheWire
    <2>4. QED
      BY <2>1, <2>3 DEF Posts
  <1>2. Posts(e) \in {1, 2}
    BY DEF Posts
  <1>3. Posts(e) = 1 => Twice(e) = {}
    BY <1>1
  <1>4. QED
    BY <1>1, <1>2, <1>3, FS_EmptySet

LEMMA ChargedTwice ==
    Charged <=> \A e \in Limited :
        sent[e] <= Posts(e) * (calls[e] + lost[e])
                   + Cardinality(OnTheWire(e)) + Cardinality(Twice(e))
  BY DEF Charged, Twice

LEMMA ChargedTwiceNext ==
    Charged' <=> \A e \in Limited :
        sent'[e] <= Posts(e) * (calls'[e] + lost'[e])
                    + Cardinality(OnTheWire(e)') + Cardinality(Twice(e)')
  BY DEF Charged, Twice, Posts

\* Only agents ask Cloudflare, so its threshold covers all that ask at once.
LEMMA OnlyAgentsAsk ==
    ASSUME NEW c \in Callers, NEW r, Fits(c, r), Waiting(r),
           Chain[r.i].provider = "cloudflare"
    PROVE  c \in Agents
  <1>1. r.i \notin Compared
    BY ChainAssumption
  <1>2. c \notin Samplers
    BY <1>1 DEF Fits, Waiting
  <1>3. QED
    BY <1>2 DEF Callers

LEMMA AgentsAfford ==
    ASSUME NEW S \in SUBSET Agents
    PROVE  /\ IsFiniteSet(S) /\ Cardinality(S) \in Nat
           /\ Cardinality(S) <= Cardinality(Agents)
           /\ Cardinality(S) * NeuronCost <= Threshold
           /\ Cardinality(S) * NeuronCost \in Nat
  <1>1. /\ IsFiniteSet(S) /\ Cardinality(S) \in Nat
        /\ Cardinality(S) <= Cardinality(Agents)
    BY Threads, FS_Subset, FS_CardinalityType
  <1>2. /\ Cardinality(S) * NeuronCost <= Cardinality(Agents) * NeuronCost
        /\ Cardinality(S) * NeuronCost \in Nat
        /\ Cardinality(Agents) * NeuronCost \in Nat
    BY <1>1, Threads, Times, ChainAssumption
  <1>3. Cardinality(S) * NeuronCost <= Threshold
    BY <1>2, ChainAssumption
  <1>4. QED
    BY <1>1, <1>2, <1>3

LEMMA AgentsSpend ==
    ASSUME Handlers
    PROVE  /\ Spending \in SUBSET Agents
           /\ \A e \in Entries : Chain[e].provider = "cloudflare" =>
                 OnTheWire(e) \in SUBSET Agents
  <1>1. \A c \in Callers : Fits(c, job[c])
    BY DEF Handlers, Good
  <1>2. QED
    BY <1>1, OnlyAgentsAsk, SpendingNow, OnWire

LEMMA AgentsSpendNext ==
    ASSUME Handlers'
    PROVE  /\ Spending' \in SUBSET Agents
           /\ \A e \in Entries : Chain[e].provider = "cloudflare" =>
                 OnTheWire(e)' \in SUBSET Agents
  <1>1. \A c \in Callers : Fits(c, job'[c])
    BY DEF Handlers, Good
  <1>2. QED
    BY <1>1, OnlyAgentsAsk, SpendingNext, OnWireNext

\* A step that sends and receives nothing.
LEMMA WireKept ==
    ASSUME Handlers, NEW c \in Callers, NEW n, Becomes(c, n),
           ~Waiting(n), ~Waiting(job[c])
    PROVE  Spending' = Spending /\ \A e : OnTheWire(e)' = OnTheWire(e)
  <1>1. job'[c] = n /\ \A d \in Callers : d # c => job'[d] = job[d]
    BY HandlerBecomes
  <1>2. Spending' = Spending
    BY <1>1, SpendingNow, SpendingNext
  <1>3. ASSUME NEW e PROVE OnTheWire(e)' = OnTheWire(e)
    BY <1>1, OnWire, OnWireNext
  <1>4. QED
    BY <1>2, <1>3

LEMMA WireSent ==
    ASSUME Handlers, NEW c \in Callers, NEW n, Becomes(c, n),
           Waiting(n), ~Waiting(job[c])
    PROVE  /\ OnTheWire(n.i)' = OnTheWire(n.i) \cup {c} /\ c \notin OnTheWire(n.i)
           /\ \A e : e # n.i => OnTheWire(e)' = OnTheWire(e)
           /\ Chain[n.i].provider # "cloudflare" => Spending' = Spending
  <1>1. job'[c] = n /\ \A d \in Callers : d # c => job'[d] = job[d]
    BY HandlerBecomes
  <1>2. OnTheWire(n.i)' = OnTheWire(n.i) \cup {c} /\ c \notin OnTheWire(n.i)
    BY <1>1, OnWire, OnWireNext
  <1>3. ASSUME NEW e, e # n.i PROVE OnTheWire(e)' = OnTheWire(e)
    BY <1>1, <1>3, OnWire, OnWireNext
  <1>4. Chain[n.i].provider # "cloudflare" => Spending' = Spending
    BY <1>1, SpendingNow, SpendingNext
  <1>5. QED
    BY <1>2, <1>3, <1>4

LEMMA WireAnswered ==
    ASSUME Handlers, NEW c \in Callers, NEW n, Becomes(c, n),
           ~Waiting(n), Waiting(job[c]), NEW f, f = job[c].i
    PROVE  /\ OnTheWire(f)' = OnTheWire(f) \ {c} /\ c \in OnTheWire(f)
           /\ \A e : e # f => OnTheWire(e)' = OnTheWire(e)
           /\ Chain[f].provider # "cloudflare" => Spending' = Spending
           /\ Chain[f].provider = "cloudflare" =>
                 Spending' = Spending \ {c} /\ c \in Spending
  <1>1. job'[c] = n /\ \A d \in Callers : d # c => job'[d] = job[d]
    BY HandlerBecomes
  <1>2. OnTheWire(f)' = OnTheWire(f) \ {c} /\ c \in OnTheWire(f)
    BY <1>1, OnWire, OnWireNext
  <1>3. ASSUME NEW e, e # f PROVE OnTheWire(e)' = OnTheWire(e)
    BY <1>1, <1>3, OnWire, OnWireNext
  <1>4. Chain[f].provider # "cloudflare" => Spending' = Spending
    BY <1>1, SpendingNow, SpendingNext
  <1>5. Chain[f].provider = "cloudflare" =>
           Spending' = Spending \ {c} /\ c \in Spending
    BY <1>1, SpendingNow, SpendingNext
  <1>6. QED
    BY <1>2, <1>3, <1>4, <1>5

LEMMA BillsKept ==
    ASSUME Bills, UNCHANGED <<quota, history, load>>, Spending' = Spending,
           \A e : OnTheWire(e)' = OnTheWire(e)
    PROVE  Bills'
  <1>1. /\ now' = now /\ calls' = calls /\ neurons' = neurons /\ marks' = marks
        /\ sent' = sent /\ lost' = lost /\ refused' = refused /\ load' = load
        /\ again' = again
    BY DEF quota, history
  <1>2. Counters'
    BY <1>1 DEF Bills, Counters, work
  <1>3. Charged' /\ Admitted'
    BY <1>1 DEF Bills, Charged, Admitted, Posts
  <1>p. Posted'
    BY <1>1 DEF Bills, Posted
  <1>4. Reserved'
    BY <1>1 DEF Bills, Reserved
  <1>5. Cooling'
    BY <1>1 DEF Bills, Cooling, IsMarkedExhausted
  <1>6. QED
    BY <1>2, <1>3, <1>p, <1>4, <1>5 DEF Bills

\* The request: the check is against what was charged, not what is on its way.
LEMMA SentBills ==
    ASSUME Handlers, Handlers', Bills, NEW c \in Callers, NEW n, Becomes(c, n),
           Waiting(n), ~Waiting(job[c]), NEW f \in Entries, n.i = f,
           ~Exhausted(f),
           sent' = IF f \in Limited THEN [sent EXCEPT ![f] = sent[f] + 1]
                   ELSE sent,
           UNCHANGED <<quota, again, lost, refused>>
    PROVE  Bills'
  <1>1. /\ now' = now /\ calls' = calls /\ neurons' = neurons /\ marks' = marks
        /\ lost' = lost /\ refused' = refused /\ load' = load /\ again' = again
    BY DEF quota, Becomes
  <1>2. /\ OnTheWire(f)' = OnTheWire(f) \cup {c} /\ c \notin OnTheWire(f)
        /\ \A e : e # f => OnTheWire(e)' = OnTheWire(e)
        /\ Chain[f].provider # "cloudflare" => Spending' = Spending
    BY WireSent
  <1>3. Cardinality(OnTheWire(f))' = Cardinality(OnTheWire(f)) + 1
    BY <1>2, WireCounts, FS_AddElement
  <1>4. Cardinality(OnTheWire(f))' <= Cardinality(Callers)
    <2>1. OnTheWire(f)' \subseteq Callers
      BY OnWireNext
    <2>2. QED
      BY <2>1, Threads, FS_Subset
  <1>n. /\ Cardinality(Callers) \in Nat /\ Cardinality(OnTheWire(f)) \in Nat
        /\ Cardinality(Agents) \in Nat
        /\ \A e \in Limited : e \in Entries /\ Chain[e].limit \in Nat
    BY Threads, WireCounts, ChainAssumption DEF Limited
  <1>c. /\ calls \in [Limited -> Nat] /\ sent \in [Limited -> Nat]
        /\ lost \in [Limited -> Nat] /\ refused \in [Entries -> Nat]
        /\ neurons \in Nat
    BY DEF Bills, Counters
  <1>5. Counters'
    <2>1. sent' \in [Limited -> Nat]
      BY <1>c
    <2>2. QED
      BY <1>1, <2>1 DEF Bills, Counters, work
  <1>p. c \notin again
    <2>1. \A e : c \notin OnTheWire(e)
      BY OnWire
    <2>2. QED
      BY <2>1 DEF Bills, Posted
  <1>x. \A e : Twice(e)' = Twice(e)
    BY <1>1, <1>2, <1>p DEF Twice
  <1>6. Charged'
    <2> SUFFICES ASSUME NEW e \in Limited
                 PROVE  sent'[e] <= Posts(e) * (calls'[e] + lost'[e])
                                    + Cardinality(OnTheWire(e)')
                                    + Cardinality(Twice(e)')
      BY ChargedTwiceNext
    <2> DEFINE bill == Posts(e) * (calls[e] + lost[e])
    <2>1. /\ sent[e] <= bill + Cardinality(OnTheWire(e)) + Cardinality(Twice(e))
          /\ Cardinality(OnTheWire(e)) \in Nat /\ Cardinality(Twice(e)) \in Nat
          /\ sent[e] \in Nat
      BY <1>c, ChargedTwice, WireCounts, TwiceCounts DEF Bills
    <2>0. bill \in Nat
      <3>1. /\ Posts(e) \in {1, 2} /\ calls[e] \in Nat /\ lost[e] \in Nat
        BY <1>c DEF Posts
      <3>2. CASE Posts(e) = 1
        BY <3>1, <3>2
      <3>3. CASE Posts(e) = 2
        BY <3>1, <3>3
      <3>4. QED
        BY <3>1, <3>2, <3>3
    <2>x. Posts(e) * (calls'[e] + lost'[e]) = bill /\ Twice(e)' = Twice(e)
      BY <1>1, <1>x
    <2> HIDE DEF bill
    <2>2. CASE e = f
      <3>1. sent'[e] = sent[e] + 1
        BY <1>c, <2>2
      <3>2. Cardinality(OnTheWire(e)') = Cardinality(OnTheWire(e)) + 1
        BY <1>3, <2>2
      <3>3. QED
        BY <2>0, <2>1, <2>x, <3>1, <3>2
    <2>3. CASE e # f
      <3>1. sent'[e] = sent[e] /\ OnTheWire(e)' = OnTheWire(e)
        BY <1>2, <1>c, <2>3
      <3>2. QED
        BY <2>1, <2>x, <3>1
    <2>4. QED
      BY <2>2, <2>3
  <1>7. Admitted'
    <2> SUFFICES ASSUME NEW e \in Limited
                 PROVE  calls'[e] + Cardinality(OnTheWire(e)')
                           <= Chain[e].limit + Cardinality(Callers) - 1
      BY DEF Admitted
    <2>1. CASE e = f
      <3>1. calls[e] < Chain[e].limit
        BY <1>c, <1>n, <2>1 DEF Exhausted, DailyLimitReached
      <3>2. /\ Cardinality(OnTheWire(e)') <= Cardinality(Callers)
            /\ Cardinality(OnTheWire(e)') \in Nat
        BY <1>3, <1>4, <1>n, <2>1
      <3>3. QED
        BY <1>1, <1>c, <1>n, <3>1, <3>2
    <2>2. CASE e # f
      <3>1. OnTheWire(e)' = OnTheWire(e) /\ calls'[e] = calls[e]
        BY <1>1, <1>2, <2>2
      <3>2. QED
        BY <3>1 DEF Bills, Admitted
    <2>3. QED
      BY <2>1, <2>2
  <1>q. Posted'
    <2>1. \A e : OnTheWire(e) \subseteq OnTheWire(e)'
      BY <1>2
    <2>2. QED
      BY <1>1, <2>1 DEF Bills, Posted
  <1>8. Reserved'
    <2>1. CASE Chain[f].provider = "cloudflare"
      <3>1. neurons + Threshold <= Budget
        BY <1>c, <2>1, ChainAssumption DEF Exhausted, NeuronsExhausted
      <3>2. /\ Cardinality(Spending)' * NeuronCost <= Threshold
            /\ Cardinality(Spending)' * NeuronCost \in Nat
        BY AgentsSpendNext, AgentsAfford
      <3>3. QED
        BY <1>1, <1>c, <3>1, <3>2, ChainAssumption DEF Reserved
    <2>2. CASE Chain[f].provider # "cloudflare"
      BY <1>1, <1>2, <2>2 DEF Bills, Reserved
    <2>3. QED
      BY <2>1, <2>2
  <1>9. Cooling'
    <2> SUFFICES ASSUME NEW e \in Entries, Chain[e].provider = "cloudflare"
                 PROVE  /\ refused'[e] > 0 => IsMarkedExhausted(e)'
                        /\ refused'[e] + Cardinality(OnTheWire(e)')
                              <= Cardinality(Agents)
      BY DEF Cooling
    <2>1. IsMarkedExhausted(e)' <=> IsMarkedExhausted(e)
      BY <1>1 DEF IsMarkedExhausted
    <2>2. /\ refused[e] > 0 => IsMarkedExhausted(e)
          /\ refused[e] + Cardinality(OnTheWire(e)) <= Cardinality(Agents)
      BY DEF Bills, Cooling
    <2>3. CASE e = f
      <3>1. refused[e] = 0
        BY <1>c, <2>2, <2>3 DEF Exhausted
      <3>2. /\ Cardinality(OnTheWire(e)') <= Cardinality(Agents)
            /\ Cardinality(OnTheWire(e)') \in Nat
        BY AgentsSpendNext, AgentsAfford
      <3>3. QED
        BY <1>1, <3>1, <3>2, <1>n
    <2>4. CASE e # f
      BY <1>1, <1>2, <2>1, <2>2, <2>4
    <2>5. QED
      BY <2>3, <2>4
  <1>10. QED
    BY <1>5, <1>6, <1>7, <1>q, <1>8, <1>9 DEF Bills

LEMMA AskStep ==
    ASSUME Handlers, Bills, NEW c \in Callers, Ask(c)
    PROVE  Handlers' /\ Bills'
  <1> DEFINE r == job[c]
             f == job[c].i
  <1>0. /\ r.stage \in {"react", "propose", "sample"} /\ ~r.wire /\ load' = load
        /\ UNCHANGED <<quota, again, lost, refused>>
    BY DEF Ask, Calling
  <1>t. /\ r \in Job(load) /\ Fits(c, r) /\ Good(c, load, r) /\ f \in Entries
        /\ ~Waiting(r) /\ r.cost \in Nat
        /\ r.stage \notin {"acted", "judged", "idle", "diagnosed"}
    BY <1>0 DEF Handlers, Good, Job, Waiting
  <1>1. CASE Exhausted(f)
    <2> DEFINE n == AfterFailure(r, "quota_exhausted")
    <2>1. job' = [job EXCEPT ![c] = n] /\ sent' = sent
      BY <1>1 DEF Ask
    <2>2. Good(c, load, n) /\ ~Waiting(n)
      BY <1>0, <1>t, AfterFailureGood
    <2>3. n.stage \notin {"acted", "judged"}
      BY <1>0, <1>t, AfterFailureStage
    <2> HIDE DEF n
    <2>4. Becomes(c, n)
      BY <1>0, <2>1, <2>2, <2>3, UnactedFixed DEF Becomes
    <2>5. UNCHANGED <<quota, history, load>>
      BY <1>0, <2>1 DEF history
    <2>6. QED
      BY <1>t, <2>2, <2>4, <2>5, HandlerBecomes, WireKept, BillsKept
  <1>2. CASE ~Exhausted(f)
    <2> DEFINE cost == IF r.stage = "propose" THEN r.cost + 1 ELSE 0
               n == [r EXCEPT !.wire = TRUE, !.cost = cost]
    <2>1. /\ job' = [job EXCEPT ![c] = n]
          /\ sent' = IF f \in Limited THEN [sent EXCEPT ![f] = sent[f] + 1]
                     ELSE sent
      BY <1>2 DEF Ask
    <2>2. /\ cost \in Nat /\ (r.stage = "propose" => cost = r.cost + 1)
          /\ (r.stage # "propose" => cost = 0)
      BY <1>t
    <2> HIDE DEF cost
    <2>3. n \in Job(load)
      BY <1>t, <2>2 DEF Job
    <2>4. /\ n.stage = r.stage /\ n.i = r.i /\ n.by = r.by /\ n.class = r.class
          /\ n.try = r.try /\ n.cost = cost /\ n.wire /\ n.turns = r.turns
          /\ SameEpisode(n, r)
      BY <1>t DEF Job, SameEpisode
    <2> HIDE DEF n
    <2>5. r.try \in Nat /\ (r.stage = "propose" => r.cost < r.try)
      BY <1>0, <1>t DEF Job, Fits
    <2>6. Fits(c, n)
      <3>1. r.stage = "propose" => cost < r.try \/ cost = r.try
        BY <1>t, <2>2, <2>5
      <3>2. r.stage = "react" => cost = 0
        BY <2>2
      <3>3. QED
        BY <1>t, <2>4, <3>1, <3>2 DEF Fits
    <2>7. Good(c, load, n) /\ Waiting(n)
      BY <1>0, <1>t, <2>3, <2>4, <2>6
         DEF Good, OwnTurns, Unacted, Told, SameEpisode, Waiting
    <2>8. Becomes(c, n)
      BY <1>0, <1>t, <2>1, <2>4, <2>7, UnactedFixed DEF Becomes
    <2>9. Handlers'
      BY <2>8, HandlerBecomes
    <2>10. QED
      BY <1>0, <1>2, <1>t, <2>1, <2>4, <2>7, <2>8, <2>9, SentBills
  <1>3. QED
    BY <1>1, <1>2

\* Midnight and the end of the cooldown are still to come.
LEMMA MarkIsAhead ==
    ASSUME now \in Nat
    PROVE  /\ MarkExhausted \in Mark
           /\ now < MarkExhausted.until /\ now < MarkExhausted.probe
  <1>1. NextUtcMidnight \in Nat /\ now < NextUtcMidnight
    BY ChainAssumption DEF NextUtcMidnight
  <1>2. \E x \in {now + 1, NextUtcMidnight} :
           \A y \in {now + 1, NextUtcMidnight} : x <= y
    BY <1>1
  <1>3. Min({now + 1, NextUtcMidnight}) \in {now + 1, NextUtcMidnight}
    BY <1>2 DEF Min
  <1>4. QED
    BY <1>1, <1>3 DEF MarkExhausted, Mark

\* The end of a call: charged or lost.
Ended(c, f, reply) ==
    /\ again' = again \ {c}
    /\ \/ /\ calls' = IF f \in Limited THEN [calls EXCEPT ![f] = calls[f] + 1]
                       ELSE calls
          /\ lost' = lost
       \/ /\ calls' = calls
          /\ lost' = IF f \in Limited THEN [lost EXCEPT ![f] = lost[f] + 1]
                     ELSE lost
    /\ neurons' = IF reply = "ok" /\ Chain[f].provider = "cloudflare"
                  THEN neurons + NeuronCost ELSE neurons
    /\ marks' = IF reply = "daily" /\ Chain[f].provider = "cloudflare"
                THEN [marks EXCEPT ![f] = {MarkExhausted}]
                ELSE IF reply = "ok" THEN [marks EXCEPT ![f] = {}] ELSE marks
    /\ refused' = IF reply = "daily" THEN [refused EXCEPT ![f] = refused[f] + 1]
                  ELSE IF reply = "ok" THEN [refused EXCEPT ![f] = 0] ELSE refused

\* A call that has ended pays for all it posted.
LEMMA CallEnded ==
    ASSUME Handlers, Bills, NEW c \in Callers, NEW n, Becomes(c, n),
           ~Waiting(n), Waiting(job[c]), NEW f \in Entries, f = job[c].i,
           again' = again \ {c}, sent' = sent,
           calls' \in [Limited -> Nat], lost' \in [Limited -> Nat],
           \A e \in Limited : e # f => calls'[e] = calls[e] /\ lost'[e] = lost[e],
           f \in Limited =>
              \/ calls'[f] = calls[f] + 1 /\ lost'[f] = lost[f]
              \/ calls'[f] = calls[f] /\ lost'[f] = lost[f] + 1
    PROVE  Charged' /\ Admitted' /\ Posted'
  <1>2. /\ OnTheWire(f)' = OnTheWire(f) \ {c} /\ c \in OnTheWire(f)
        /\ \A e : e # f => OnTheWire(e)' = OnTheWire(e)
    BY WireAnswered
  <1>3. /\ Cardinality(OnTheWire(f)') = Cardinality(OnTheWire(f)) - 1
        /\ Cardinality(OnTheWire(f)) \in Nat
        /\ Cardinality(OnTheWire(f)') \in Nat
    <2> DEFINE W == OnTheWire(f)
    <2>0. IsFiniteSet(W) /\ c \in W
      BY <1>2, WireCounts
    <2> HIDE DEF W
    <2>1. /\ Cardinality(W \ {c}) = Cardinality(W) - 1
          /\ IsFiniteSet(W \ {c})
      BY <2>0, FS_RemoveElement
    <2> USE DEF W
    <2>2. IsFiniteSet(OnTheWire(f) \ {c})
      BY <2>1
    <2>3. Cardinality(OnTheWire(f) \ {c}) \in Nat
      BY <2>2, FS_CardinalityType
    <2>4. Cardinality(OnTheWire(f) \ {c}) = Cardinality(OnTheWire(f)) - 1
      BY <2>1
    <2>5. QED
      BY <1>2, <2>3, <2>4, WireCounts
  <1>o. \A e : e # f => c \notin OnTheWire(e)
    BY DEF OnTheWire
  <1>4. /\ Twice(f)' = Twice(f) \ {c}
        /\ \A e : e # f => Twice(e)' = Twice(e)
    BY <1>2, <1>o DEF Twice
  <1>5. /\ Posts(f) \in {1, 2} /\ Cardinality(Twice(f)) \in Nat
        /\ Cardinality(Twice(f)') \in Nat
        /\ \/ Cardinality(Twice(f)') = Cardinality(Twice(f))
           \/ Cardinality(Twice(f)') = Cardinality(Twice(f)) - 1 /\ Posts(f) = 2
    <2>1. CASE c \in Twice(f)
      <3>1. Posts(f) = 2
        BY <2>1, TwiceIsGemini DEF Bills
      <3>2. /\ Cardinality(Twice(f) \ {c}) = Cardinality(Twice(f)) - 1
            /\ Cardinality(Twice(f) \ {c}) \in Nat
        BY <2>1, TwiceCounts, FS_RemoveElement, FS_CardinalityType
      <3>3. QED
        BY <1>4, <3>1, <3>2, TwiceCounts
    <2>2. CASE c \notin Twice(f)
      <3>1. Twice(f)' = Twice(f)
        BY <1>4, <2>2
      <3>2. QED
        BY <3>1, TwiceCounts DEF Posts
    <2>3. QED
      BY <2>1, <2>2
  <1>c. /\ calls \in [Limited -> Nat] /\ sent \in [Limited -> Nat]
        /\ lost \in [Limited -> Nat] /\ Cardinality(Callers) \in Nat
        /\ \A e \in Limited : Chain[e].limit \in Nat
    BY Threads, ChainAssumption DEF Bills, Counters, Limited
  <1>6. Charged'
    <2> SUFFICES ASSUME NEW e \in Limited
                 PROVE  sent'[e] <= Posts(e) * (calls'[e] + lost'[e])
                                    + Cardinality(OnTheWire(e)')
                                    + Cardinality(Twice(e)')
      BY ChargedTwiceNext
    <2>1. sent[e] <= Posts(e) * (calls[e] + lost[e])
                     + Cardinality(OnTheWire(e)) + Cardinality(Twice(e))
      BY ChargedTwice DEF Bills
    <2>2. CASE e = f
      <3>0. /\ calls[e] \in Nat /\ lost[e] \in Nat /\ sent[e] \in Nat
            /\ calls'[e] + lost'[e] = (calls[e] + lost[e]) + 1
            /\ calls[e] + lost[e] \in Nat
        BY <1>c, <2>2
      <3>1. CASE Posts(e) = 1
        BY <1>3, <1>5, <2>1, <2>2, <3>0, <3>1
      <3>2. CASE Posts(e) = 2
        BY <1>3, <1>5, <2>1, <2>2, <3>0, <3>2
      <3>3. QED
        BY <1>5, <2>2, <3>1, <3>2
    <2>3. CASE e # f
      <3>1. /\ calls'[e] = calls[e] /\ lost'[e] = lost[e]
            /\ OnTheWire(e)' = OnTheWire(e) /\ Twice(e)' = Twice(e)
        BY <1>2, <1>4, <2>3
      <3>2. QED
        BY <2>1, <3>1
    <2>4. QED
      BY <2>2, <2>3
  <1>7. Admitted'
    <2> SUFFICES ASSUME NEW e \in Limited
                 PROVE  calls'[e] + Cardinality(OnTheWire(e)')
                           <= Chain[e].limit + Cardinality(Callers) - 1
      BY DEF Admitted
    <2>1. calls[e] + Cardinality(OnTheWire(e))
             <= Chain[e].limit + Cardinality(Callers) - 1
      BY DEF Bills, Admitted
    <2>2. CASE e = f
      BY <1>3, <1>c, <2>1, <2>2
    <2>3. CASE e # f
      <3>1. calls'[e] = calls[e] /\ OnTheWire(e)' = OnTheWire(e)
        BY <1>2, <2>3
      <3>2. QED
        BY <2>1, <3>1
    <2>4. QED
      BY <2>2, <2>3
  <1>8. Posted'
    <2>1. \A e : \A d \in again' : d \in OnTheWire(e) => d \in OnTheWire(e)'
      BY <1>2
    <2>2. QED
      BY <2>1 DEF Bills, Posted
  <1>9. QED
    BY <1>6, <1>7, <1>8

\* The answer is charged and the mark is set before anything else is asked.
LEMMA AnsweredBills ==
    ASSUME Handlers, Bills, NEW c \in Callers, NEW n, Becomes(c, n),
           ~Waiting(n), Waiting(job[c]), NEW f \in Entries, f = job[c].i,
           NEW reply, Ended(c, f, reply), UNCHANGED <<now, sent>>
    PROVE  Bills'
  <1>1. now' = now /\ sent' = sent /\ load' = load
    BY DEF Becomes
  <1>2. /\ OnTheWire(f)' = OnTheWire(f) \ {c} /\ c \in OnTheWire(f)
        /\ \A e : e # f => OnTheWire(e)' = OnTheWire(e)
        /\ Chain[f].provider # "cloudflare" => Spending' = Spending
        /\ Chain[f].provider = "cloudflare" =>
              Spending' = Spending \ {c} /\ c \in Spending
    BY WireAnswered
  <1>3. /\ Cardinality(OnTheWire(f))' = Cardinality(OnTheWire(f)) - 1
        /\ Cardinality(OnTheWire(f)) \in Nat
        /\ Cardinality(OnTheWire(f))' \in Nat
    <2>1. Cardinality(OnTheWire(f) \ {c}) = Cardinality(OnTheWire(f)) - 1
      BY <1>2, WireCounts, FS_RemoveElement
    <2>2. Cardinality(OnTheWire(f) \ {c}) \in Nat
      BY WireCounts, FS_RemoveElement, FS_CardinalityType
    <2>3. QED
      BY <1>2, <2>1, <2>2, WireCounts
  <1>c. /\ calls \in [Limited -> Nat] /\ sent \in [Limited -> Nat]
        /\ lost \in [Limited -> Nat] /\ refused \in [Entries -> Nat]
        /\ marks \in [Entries -> SUBSET Mark] /\ neurons \in Nat
        /\ now \in Nat /\ NeuronCost \in Nat /\ Budget \in Nat
        /\ Cardinality(Agents) \in Nat
    BY Threads, WorkloadAssumption, ChainAssumption
       DEF Bills, Counters, Handlers, work
  <1>4. /\ neurons' = IF reply = "ok" /\ Chain[f].provider = "cloudflare"
                      THEN neurons + NeuronCost ELSE neurons
        /\ marks' = IF reply = "daily" /\ Chain[f].provider = "cloudflare"
                    THEN [marks EXCEPT ![f] = {MarkExhausted}]
                    ELSE IF reply = "ok" THEN [marks EXCEPT ![f] = {}] ELSE marks
        /\ refused' = IF reply = "daily"
                      THEN [refused EXCEPT ![f] = refused[f] + 1]
                      ELSE IF reply = "ok" THEN [refused EXCEPT ![f] = 0]
                      ELSE refused
        /\ again' = again \ {c}
    BY DEF Ended
  <1>e. /\ calls' \in [Limited -> Nat] /\ lost' \in [Limited -> Nat]
        /\ \A e \in Limited : e # f => calls'[e] = calls[e] /\ lost'[e] = lost[e]
        /\ f \in Limited =>
              \/ calls'[f] = calls[f] + 1 /\ lost'[f] = lost[f]
              \/ calls'[f] = calls[f] /\ lost'[f] = lost[f] + 1
    BY <1>c DEF Ended
  <1>m. /\ MarkExhausted \in Mark
        /\ now < MarkExhausted.until /\ now < MarkExhausted.probe
    BY <1>c, MarkIsAhead
  <1>5. Counters'
    <2>1. calls' \in [Limited -> Nat] /\ neurons' \in Nat
      BY <1>c, <1>4, <1>e
    <2>2. refused' \in [Entries -> Nat]
      BY <1>c, <1>4
    <2>3. marks' \in [Entries -> SUBSET Mark]
      BY <1>c, <1>m, <1>4
    <2>4. ASSUME NEW e \in Entries
          PROVE  marks'[e] = {} \/ \E m \in Mark : marks'[e] = {m}
      <3>1. marks[e] = {} \/ \E m \in Mark : marks[e] = {m}
        BY DEF Bills, Counters
      <3>2. marks'[e] \in {marks[e], {}, {MarkExhausted}}
        BY <1>c, <1>4
      <3>3. QED
        BY <1>m, <3>1, <3>2
    <2>5. now' \in 0..work'.time /\ sent' \in [Limited -> Nat]
          /\ lost' \in [Limited -> Nat] /\ again' \subseteq Callers
      BY <1>1, <1>4, <1>e DEF Bills, Counters, work
    <2>6. QED
      BY <2>1, <2>2, <2>3, <2>4, <2>5 DEF Counters
  <1>6. Charged' /\ Admitted' /\ Posted'
    BY <1>1, <1>4, <1>e, CallEnded
  <1>8. Reserved'
    <2>1. CASE Chain[f].provider = "cloudflare"
      <3>1. /\ Spending \in SUBSET Agents /\ IsFiniteSet(Spending)
            /\ Cardinality(Spending) \in Nat
        BY AgentsSpend, AgentsAfford
      <3>2. /\ Cardinality(Spending)' = Cardinality(Spending) - 1
            /\ Cardinality(Spending)' \in Nat
        <4>1. Cardinality(Spending \ {c}) = Cardinality(Spending) - 1
          BY <1>2, <2>1, <3>1, FS_RemoveElement
        <4>2. Cardinality(Spending \ {c}) \in Nat
          BY <3>1, FS_RemoveElement, FS_CardinalityType
        <4>3. QED
          BY <1>2, <2>1, <4>1, <4>2
      <3>3. /\ Cardinality(Spending)' * NeuronCost + NeuronCost
                  = Cardinality(Spending) * NeuronCost
            /\ Cardinality(Spending)' * NeuronCost \in Nat
        <4>1. Cardinality(Spending) \in Nat \ {0}
          BY <3>1, <3>2
        <4>2. QED
          BY <1>c, <3>2, <4>1, TimesLess
      <3>4. neurons' \in {neurons, neurons + NeuronCost}
        BY <1>4
      <3>5. neurons + Cardinality(Spending) * NeuronCost <= Budget
        BY DEF Bills, Reserved
      <3>6. neurons' + Cardinality(Spending)' * NeuronCost <= Budget
        BY <1>c, <3>3, <3>4, <3>5
      <3>7. QED
        BY <3>6 DEF Reserved
    <2>2. CASE Chain[f].provider # "cloudflare"
      BY <1>2, <1>4, <2>2 DEF Bills, Reserved
    <2>3. QED
      BY <2>1, <2>2
  <1>9. Cooling'
    <2> SUFFICES ASSUME NEW e \in Entries, Chain[e].provider = "cloudflare"
                 PROVE  /\ refused'[e] > 0 => IsMarkedExhausted(e)'
                        /\ refused'[e] + Cardinality(OnTheWire(e)')
                              <= Cardinality(Agents)
      BY DEF Cooling
    <2>1. /\ refused[e] > 0 => IsMarkedExhausted(e)
          /\ refused[e] + Cardinality(OnTheWire(e)) <= Cardinality(Agents)
          /\ Cardinality(OnTheWire(e)) \in Nat /\ refused[e] \in Nat
      BY <1>c, WireCounts DEF Bills, Cooling
    <2>2. CASE e # f
      <3>1. /\ refused'[e] = refused[e] /\ marks'[e] = marks[e]
            /\ OnTheWire(e)' = OnTheWire(e)
        BY <1>2, <1>4, <1>c, <2>2
      <3>2. IsMarkedExhausted(e)' <=> IsMarkedExhausted(e)
        BY <1>1, <3>1 DEF IsMarkedExhausted
      <3>3. QED
        BY <2>1, <3>1, <3>2
    <2>3. CASE e = f /\ reply = "daily"
      <3>1. refused'[e] = refused[e] + 1 /\ marks'[e] = {MarkExhausted}
        BY <1>4, <1>c, <2>3
      <3>2. IsMarkedExhausted(e)'
        BY <1>1, <1>m, <3>1 DEF IsMarkedExhausted
      <3>3. QED
        BY <1>3, <1>c, <2>1, <2>3, <3>1, <3>2
    <2>4. CASE e = f /\ reply = "ok"
      <3>1. refused'[e] = 0
        BY <1>4, <1>c, <2>4
      <3>2. QED
        BY <1>3, <1>c, <2>1, <2>4, <3>1
    <2>5. CASE e = f /\ reply \notin {"daily", "ok"}
      <3>1. refused'[e] = refused[e] /\ marks'[e] = marks[e]
        BY <1>4, <2>5
      <3>2. IsMarkedExhausted(e)' <=> IsMarkedExhausted(e)
        BY <1>1, <3>1 DEF IsMarkedExhausted
      <3>3. QED
        BY <1>3, <1>c, <2>1, <2>5, <3>1, <3>2
    <2>6. QED
      BY <2>2, <2>3, <2>4, <2>5
  <1>10. QED
    BY <1>5, <1>6, <1>8, <1>9 DEF Bills

LEMMA AnswerStep ==
    ASSUME Handlers, Bills, NEW c \in Callers, Answer(c)
    PROVE  Handlers' /\ Bills'
  <1> DEFINE r == job[c]
             f == job[c].i
  <1>0. /\ r.stage \in {"react", "propose", "sample"} /\ r.wire /\ load' = load
        /\ UNCHANGED <<now, sent, lost>> /\ again' = again \ {c}
    BY DEF Answer, Calling
  <1>t. /\ r \in Job(load) /\ Fits(c, r) /\ Good(c, load, r) /\ f \in Entries
        /\ Waiting(r)
    BY <1>0 DEF Handlers, Good, Job, Waiting
  <1>1. PICK reply \in Replies(f) :
           /\ Account(f, reply)
           /\ \/ job' = [job EXCEPT ![c] = AfterFailure(r, reply)]
              \/ \E n \in CASE r.stage = "react" -> AfterTurn(r)
                            [] r.stage = "propose" -> AfterProposal(r)
                            [] r.stage = "sample" -> {Idle} :
                    job' = [job EXCEPT ![c] = n]
    BY DEF Answer
  <1>2. \E n : /\ job' = [job EXCEPT ![c] = n]
               /\ Good(c, load, n) /\ ~Waiting(n)
               /\ n.stage \notin {"acted", "judged"}
    <2>1. CASE job' = [job EXCEPT ![c] = AfterFailure(r, reply)]
      <3>1. /\ Good(c, load, AfterFailure(r, reply))
            /\ ~Waiting(AfterFailure(r, reply))
        BY <1>0, <1>t, AfterFailureGood
      <3>2. AfterFailure(r, reply).stage \notin {"acted", "judged"}
        BY <1>0, <1>t, AfterFailureStage
      <3>3. QED
        BY <2>1, <3>1, <3>2
    <2>2. ASSUME NEW n, job' = [job EXCEPT ![c] = n],
                 \/ r.stage = "react" /\ n \in AfterTurn(r)
                 \/ r.stage = "propose" /\ n \in AfterProposal(r)
          PROVE  /\ Good(c, load, n) /\ ~Waiting(n)
                 /\ n.stage \notin {"acted", "judged"}
      <3>1. c \in Agents
        BY <1>t, <2>2 DEF Fits, Callers
      <3>2. Good(c, load, n) /\ ~Waiting(n)
        BY <1>t, <2>2, <3>1, AfterTurnGood, AfterProposalGood
      <3>3. n.stage \notin {"acted", "judged"}
        BY <1>t, <2>2, AfterAnswerStage
      <3>4. QED
        BY <3>2, <3>3
    <2>3. CASE job' = [job EXCEPT ![c] = Idle]
      <3>1. Idle.stage \notin {"acted", "judged"}
        BY IdleStage
      <3>2. QED
        BY <2>3, <3>1, IdleGood
    <2>4. QED
      BY <1>0, <1>1, <2>1, <2>2, <2>3
  <1>3. PICK n : /\ job' = [job EXCEPT ![c] = n]
                 /\ Good(c, load, n) /\ ~Waiting(n)
                 /\ n.stage \notin {"acted", "judged"}
    BY <1>2
  <1>4. Becomes(c, n)
    BY <1>0, <1>3, UnactedFixed DEF Becomes
  <1>5. Ended(c, f, reply)
    BY <1>0, <1>1 DEF Account, RecordCall, Ended
  <1>6. QED
    BY <1>0, <1>3, <1>4, <1>5, <1>t, HandlerBecomes, AnsweredBills

\* What cannot be decoded ends the call like a failure, without the charge.
LEMMA UndecodableStep ==
    ASSUME Handlers, Bills, NEW c \in Callers, Undecodable(c)
    PROVE  Handlers' /\ Bills'
  <1> DEFINE f == job[c].i
  <1>1. /\ job' = [job EXCEPT ![c] = Idle] /\ load' = load
        /\ Waiting(job[c]) /\ UNCHANGED <<now, sent>>
    BY DEF Undecodable, Calling, Waiting, quota
  <1>2. f \in Entries
    BY DEF Handlers, Good, Job
  <1>3. Ended(c, f, "undecodable")
    BY DEF Undecodable, Ended, quota
  <1>4. /\ Good(c, load, Idle) /\ ~Waiting(Idle) /\ Fixed(load, Idle)
    <2>1. Good(c, load, Idle) /\ Idle.stage = "idle"
      BY IdleGood, IdleStage
    <2>2. QED
      BY <2>1, UnactedFixed DEF Waiting
  <1>5. Becomes(c, Idle)
    BY <1>1, <1>4 DEF Becomes
  <1>6. QED
    BY <1>1, <1>2, <1>3, <1>4, <1>5, HandlerBecomes, AnsweredBills

\* The second request of a call needs no check, and its call is counted.
LEMMA PostAgainStep ==
    ASSUME Handlers, Bills, NEW c \in Callers, PostAgain(c)
    PROVE  Handlers' /\ Bills'
  <1> DEFINE f == job[c].i
  <1>1. /\ job' = job /\ load' = load /\ Waiting(job[c]) /\ c \notin again
        /\ again' = again \cup {c} /\ Chain[f].provider = "gemini"
        /\ sent' = IF f \in Limited THEN [sent EXCEPT ![f] = @ + 1] ELSE sent
        /\ UNCHANGED <<quota, lost, refused>>
    BY DEF PostAgain, Calling, Waiting
  <1>2. f \in Entries
    BY DEF Handlers, Good, Job
  <1>3. Handlers'
    BY <1>1 DEF Handlers
  <1>4. Spending' = Spending /\ \A e : OnTheWire(e)' = OnTheWire(e)
    <2>1. Spending' = Spending
      BY <1>1, SpendingNow, SpendingNext
    <2>2. ASSUME NEW e PROVE OnTheWire(e)' = OnTheWire(e)
      BY <1>1, OnWire, OnWireNext
    <2>3. QED
      BY <2>1, <2>2
  <1>5. /\ now' = now /\ calls' = calls /\ neurons' = neurons /\ marks' = marks
        /\ lost' = lost /\ refused' = refused
    BY <1>1 DEF quota
  <1>6. c \in OnTheWire(f) /\ \A e : e # f => c \notin OnTheWire(e)
    BY <1>1, OnWire
  <1>7. /\ Twice(f)' = Twice(f) \cup {c} /\ c \notin Twice(f)
        /\ \A e : e # f => Twice(e)' = Twice(e)
    BY <1>1, <1>4, <1>6 DEF Twice
  <1>8. Cardinality(Twice(f)') = Cardinality(Twice(f)) + 1
    BY <1>7, TwiceCounts, FS_AddElement
  <1>c. calls \in [Limited -> Nat] /\ sent \in [Limited -> Nat]
        /\ lost \in [Limited -> Nat]
    BY DEF Bills, Counters
  <1>9. Counters'
    <2>1. sent' \in [Limited -> Nat] /\ again' \subseteq Callers
      BY <1>1, <1>c DEF Bills, Counters
    <2>2. QED
      BY <1>1, <1>5, <2>1 DEF Bills, Counters, work
  <1>10. Charged'
    <2> SUFFICES ASSUME NEW e \in Limited
                 PROVE  sent'[e] <= Posts(e) * (calls'[e] + lost'[e])
                                    + Cardinality(OnTheWire(e)')
                                    + Cardinality(Twice(e)')
      BY ChargedTwiceNext
    <2> DEFINE bill == Posts(e) * (calls[e] + lost[e])
    <2>1. /\ sent[e] <= bill + Cardinality(OnTheWire(e)) + Cardinality(Twice(e))
          /\ Cardinality(OnTheWire(e)) \in Nat /\ Cardinality(Twice(e)) \in Nat
          /\ sent[e] \in Nat
      BY <1>c, ChargedTwice, WireCounts, TwiceCounts DEF Bills
    <2>0. bill \in Nat
      <3>1. /\ Posts(e) \in {1, 2} /\ calls[e] \in Nat /\ lost[e] \in Nat
        BY <1>c DEF Posts
      <3>2. CASE Posts(e) = 1
        BY <3>1, <3>2
      <3>3. CASE Posts(e) = 2
        BY <3>1, <3>3
      <3>4. QED
        BY <3>1, <3>2, <3>3
    <2>x. /\ Posts(e) * (calls'[e] + lost'[e]) = bill
          /\ OnTheWire(e)' = OnTheWire(e)
      BY <1>4, <1>5
    <2> HIDE DEF bill
    <2>2. CASE e = f
      <3>1. sent'[e] = sent[e] + 1
        BY <1>1, <1>c, <2>2
      <3>2. Cardinality(Twice(e)') = Cardinality(Twice(e)) + 1
        <4>1. f' = f
          BY <1>1
        <4>2. QED
          BY <1>8, <2>2, <4>1
      <3>3. QED
        BY <2>0, <2>1, <2>x, <3>1, <3>2
    <2>3. CASE e # f
      <3>1. sent'[e] = sent[e] /\ Twice(e)' = Twice(e)
        BY <1>1, <1>7, <1>c, <2>3
      <3>2. QED
        BY <2>1, <2>x, <3>1
    <2>4. QED
      BY <2>2, <2>3
  <1>11. Admitted'
    BY <1>4, <1>5 DEF Bills, Admitted
  <1>12. Posted'
    <2>1. \A d \in again : \E e \in Entries :
             Chain[e].provider = "gemini" /\ d \in OnTheWire(e)'
      BY <1>4 DEF Bills, Posted
    <2>2. Chain[f].provider = "gemini" /\ c \in OnTheWire(f)'
      BY <1>1, <1>4, <1>6
    <2>3. QED
      BY <1>1, <1>2, <2>1, <2>2 DEF Posted
  <1>13. Reserved'
    BY <1>4, <1>5 DEF Bills, Reserved
  <1>14. Cooling'
    BY <1>4, <1>5 DEF Bills, Cooling, IsMarkedExhausted
  <1>15. QED
    BY <1>3, <1>9, <1>10, <1>11, <1>12, <1>13, <1>14 DEF Bills

\* The process comes back with nothing on the wire; what was is lost.
LEMMA CrashStep ==
    ASSUME Handlers, Bills, Crash
    PROVE  Handlers' /\ Bills'
  <1>1. /\ job' = [c \in Callers |-> Idle] /\ load' = load
        /\ lost' = [e \in Limited |-> lost[e] + Cardinality(OnTheWire(e))]
        /\ now' = now /\ calls' = calls /\ neurons' = neurons /\ marks' = marks
        /\ sent' = sent /\ refused' = refused /\ again' = {}
    BY DEF Crash, quota
  <1>2. Handlers'
    <2>1. ASSUME NEW c \in Callers
          PROVE  Good(c, load, Idle) /\ Fixed(load, Idle)
      BY IdleGood, IdleStage, UnactedFixed
    <2>2. \A c \in Callers : Idle \in Job(load)
      BY <2>1 DEF Good
    <2>3. job' \in [Callers -> Job(load)]
      BY <1>1, <2>2
    <2>4. QED
      BY <1>1, <2>1, <2>3 DEF Handlers
  <1>3. \A c \in Callers : ~Waiting(job'[c])
    BY <1>1, IdleStage DEF Waiting
  <1>4. Spending' = {} /\ \A e : OnTheWire(e)' = {}
    <2>1. Spending' = {}
      BY <1>3, SpendingNext
    <2>2. ASSUME NEW e PROVE OnTheWire(e)' = {}
      BY <1>3, OnWireNext
    <2>3. QED
      BY <2>1, <2>2
  <1>5. Cardinality({}) = 0
    BY FS_EmptySet
  <1>c. /\ calls \in [Limited -> Nat] /\ sent \in [Limited -> Nat]
        /\ lost \in [Limited -> Nat] /\ refused \in [Entries -> Nat]
        /\ neurons \in Nat /\ Cardinality(Callers) \in Nat
        /\ Cardinality(Agents) \in Nat
    BY Threads DEF Bills, Counters
  <1>w. \A e : Cardinality(OnTheWire(e)) \in Nat
    BY WireCounts
  <1>6. Counters'
    <2>1. lost' \in [Limited -> Nat]
      BY <1>1, <1>c, <1>w
    <2>2. QED
      BY <1>1, <2>1 DEF Bills, Counters, work
  <1>7. Charged'
    <2> SUFFICES ASSUME NEW e \in Limited
                 PROVE  sent'[e] <= Posts(e) * (calls'[e] + lost'[e])
                                    + Cardinality(OnTheWire(e)')
                                    + Cardinality(Twice(e)')
      BY ChargedTwiceNext
    <2>1. sent[e] <= Posts(e) * (calls[e] + lost[e])
                     + Cardinality(OnTheWire(e)) + Cardinality(Twice(e))
      BY ChargedTwice DEF Bills
    <2>2. /\ Cardinality(OnTheWire(e)') = 0 /\ Cardinality(Twice(e)') = 0
          /\ Cardinality(OnTheWire(e)) \in Nat /\ Cardinality(Twice(e)) \in Nat
          /\ Cardinality(Twice(e)) <= Cardinality(OnTheWire(e))
      <3>1. Twice(e)' = {}
        BY <1>4 DEF Twice
      <3>2. QED
        BY <1>4, <1>5, <1>w, <3>1, TwiceCounts
    <2>3. /\ Posts(e) \in {1, 2}
          /\ Posts(e) = 1 => Cardinality(Twice(e)) = 0
      BY TwiceIsGemini DEF Bills
    <2>4. /\ calls'[e] + lost'[e]
                = (calls[e] + lost[e]) + Cardinality(OnTheWire(e))
          /\ calls[e] + lost[e] \in Nat /\ sent'[e] = sent[e] /\ sent[e] \in Nat
      BY <1>1, <1>c, <2>2
    <2>5. CASE Posts(e) = 1
      BY <2>1, <2>2, <2>3, <2>4, <2>5
    <2>6. CASE Posts(e) = 2
      BY <2>1, <2>2, <2>4, <2>6
    <2>7. QED
      BY <2>3, <2>5, <2>6
  <1>8. Admitted' /\ Posted'
    <2>1. ASSUME NEW e \in Limited
          PROVE  calls'[e] + Cardinality(OnTheWire(e)')
                    <= Chain[e].limit + Cardinality(Callers) - 1
      <3>1. /\ calls[e] + Cardinality(OnTheWire(e))
                   <= Chain[e].limit + Cardinality(Callers) - 1
            /\ Chain[e].limit \in Nat /\ Cardinality(OnTheWire(e)) \in Nat
        BY <1>w, ChainAssumption DEF Bills, Admitted, Limited
      <3>2. Cardinality(OnTheWire(e)') = 0
        BY <1>4, <1>5
      <3>3. QED
        BY <1>1, <1>c, <3>1, <3>2
    <2>2. QED
      BY <1>1, <2>1 DEF Admitted, Posted
  <1>9. Reserved'
    <2>1. /\ Cardinality(Spending) * NeuronCost \in Nat
          /\ neurons + Cardinality(Spending) * NeuronCost <= Budget
          /\ Budget \in Nat /\ NeuronCost \in Nat
      BY AgentsSpend, AgentsAfford, ChainAssumption DEF Bills, Reserved
    <2>2. Cardinality(Spending)' * NeuronCost = 0
      BY <1>4, <1>5, <2>1
    <2>3. QED
      BY <1>1, <1>c, <2>1, <2>2 DEF Reserved
  <1>10. Cooling'
    <2> SUFFICES ASSUME NEW e \in Entries, Chain[e].provider = "cloudflare"
                 PROVE  /\ refused'[e] > 0 => IsMarkedExhausted(e)'
                        /\ refused'[e] + Cardinality(OnTheWire(e)')
                              <= Cardinality(Agents)
      BY DEF Cooling
    <2>1. /\ refused[e] > 0 => IsMarkedExhausted(e)
          /\ refused[e] + Cardinality(OnTheWire(e)) <= Cardinality(Agents)
      BY DEF Bills, Cooling
    <2>2. IsMarkedExhausted(e)' <=> IsMarkedExhausted(e)
      BY <1>1 DEF IsMarkedExhausted
    <2>3. Cardinality(OnTheWire(e)') = 0 /\ Cardinality(OnTheWire(e)) \in Nat
      BY <1>4, <1>5, <1>w
    <2>4. QED
      BY <1>1, <1>c, <2>1, <2>2, <2>3
  <1>11. QED
    BY <1>2, <1>6, <1>7, <1>8, <1>9, <1>10 DEF Bills

\* At midnight the pool is full again, and the threshold covers the calls
\* that left before it and are charged after it.
LEMMA TickStep ==
    ASSUME Handlers, Bills, Tick
    PROVE  Handlers' /\ Bills'
  <1>1. /\ now < work.time /\ now' = now + 1 /\ load' = load /\ job' = job
        /\ marks' = marks /\ refused' = [e \in Entries |-> 0] /\ again' = again
    BY DEF Tick
  <1>2. Handlers'
    BY <1>1 DEF Handlers
  <1>3. Spending' = Spending /\ \A e : OnTheWire(e)' = OnTheWire(e)
    <2>1. Spending' = Spending
      BY <1>1, SpendingNow, SpendingNext
    <2>2. ASSUME NEW e PROVE OnTheWire(e)' = OnTheWire(e)
      BY <1>1, OnWire, OnWireNext
    <2>3. QED
      BY <2>1, <2>2
  <1>c. /\ calls \in [Limited -> Nat] /\ sent \in [Limited -> Nat]
        /\ lost \in [Limited -> Nat] /\ neurons \in Nat
        /\ Cardinality(Callers) \in Nat /\ Cardinality(Agents) \in Nat
        /\ now \in 0..work.time /\ work.time \in Nat
    BY Threads, WorkloadAssumption DEF Bills, Counters, Handlers, work
  <1>w. \A e : Cardinality(OnTheWire(e)) \in Nat
    BY WireCounts
  <1>4. \/ /\ calls' = [e \in Limited |-> 0] /\ neurons' = 0
           /\ sent' = [e \in Limited |-> 0] /\ lost' = [e \in Limited |-> 0]
        \/ calls' = calls /\ neurons' = neurons /\ sent' = sent /\ lost' = lost
    BY DEF Tick
  <1>5. Counters'
    <2>1. /\ calls' \in [Limited -> Nat] /\ sent' \in [Limited -> Nat]
          /\ lost' \in [Limited -> Nat] /\ neurons' \in Nat
      BY <1>4, <1>c
    <2>2. now' \in 0..work'.time
      <3>1. work' = work
        BY <1>1 DEF work
      <3>2. QED
        BY <1>1, <1>c, <3>1
    <2>3. refused' \in [Entries -> Nat]
      BY <1>1
    <2>4. QED
      BY <1>1, <2>1, <2>2, <2>3 DEF Bills, Counters
  <1>6. Charged'
    <2> SUFFICES ASSUME NEW e \in Limited
                 PROVE  sent'[e] <= Posts(e) * (calls'[e] + lost'[e])
                                    + Cardinality(OnTheWire(e)')
                                    + Cardinality(Twice(e)')
      BY ChargedTwiceNext
    <2>1. sent[e] <= Posts(e) * (calls[e] + lost[e])
                     + Cardinality(OnTheWire(e)) + Cardinality(Twice(e))
      BY ChargedTwice DEF Bills
    <2>2. /\ OnTheWire(e)' = OnTheWire(e) /\ Twice(e)' = Twice(e)
          /\ Cardinality(OnTheWire(e)) \in Nat /\ Cardinality(Twice(e)) \in Nat
      BY <1>1, <1>3, <1>w, TwiceCounts DEF Twice
    <2>3. /\ Cardinality(OnTheWire(e)') = Cardinality(OnTheWire(e))
          /\ Cardinality(Twice(e)') = Cardinality(Twice(e))
      BY <2>2
    <2>4. CASE sent'[e] = 0 /\ calls'[e] = 0 /\ lost'[e] = 0
      <3>1. Posts(e) * (calls'[e] + lost'[e]) = 0
        BY <2>4 DEF Posts
      <3>2. QED
        BY <2>2, <2>3, <2>4, <3>1
    <2>5. CASE sent' = sent /\ calls' = calls /\ lost' = lost
      BY <2>1, <2>3, <2>5
    <2>6. QED
      BY <1>4, <2>4, <2>5
  <1>7. Admitted' /\ Posted'
    <2>1. ASSUME NEW e \in Limited
          PROVE  calls'[e] + Cardinality(OnTheWire(e)')
                    <= Chain[e].limit + Cardinality(Callers) - 1
      <3>1. /\ calls[e] + Cardinality(OnTheWire(e))
                   <= Chain[e].limit + Cardinality(Callers) - 1
            /\ Cardinality(OnTheWire(e)) <= Cardinality(Callers)
            /\ Chain[e].limit \in Nat /\ Chain[e].limit > 0
            /\ Cardinality(OnTheWire(e)) \in Nat
        BY WireCounts, ChainAssumption DEF Bills, Admitted, Limited
      <3>2. OnTheWire(e)' = OnTheWire(e)
        BY <1>3
      <3>3. Cardinality(OnTheWire(e)') = Cardinality(OnTheWire(e))
        BY <3>2
      <3>4. QED
        BY <1>4, <1>c, <3>1, <3>3
    <2>2. Posted'
      BY <1>1, <1>3 DEF Bills, Posted
    <2>3. QED
      BY <2>1, <2>2 DEF Admitted
  <1>8. Reserved'
    <2>1. /\ Cardinality(Spending) * NeuronCost <= Threshold
          /\ Cardinality(Spending) * NeuronCost \in Nat
          /\ Threshold \in Nat /\ Budget \in Nat /\ Threshold <= Budget
      BY AgentsSpend, AgentsAfford, ChainAssumption
    <2>2. neurons + Cardinality(Spending) * NeuronCost <= Budget
      BY DEF Bills, Reserved
    <2>3. CASE neurons' = 0
      BY <1>3, <2>1, <2>3 DEF Reserved
    <2>4. CASE neurons' = neurons
      BY <1>3, <2>2, <2>4 DEF Reserved
    <2>5. QED
      BY <1>4, <2>3, <2>4
  <1>9. Cooling'
    <2> SUFFICES ASSUME NEW e \in Entries, Chain[e].provider = "cloudflare"
                 PROVE  /\ refused'[e] > 0 => IsMarkedExhausted(e)'
                        /\ refused'[e] + Cardinality(OnTheWire(e)')
                              <= Cardinality(Agents)
      BY DEF Cooling
    <2>1. Cardinality(OnTheWire(e)) <= Cardinality(Agents)
      BY AgentsSpend, AgentsAfford
    <2>2. refused'[e] = 0 /\ OnTheWire(e)' = OnTheWire(e)
      BY <1>1, <1>3
    <2>3. Cardinality(OnTheWire(e)') = Cardinality(OnTheWire(e))
      BY <2>2
    <2>4. QED
      BY <1>c, <1>w, <2>1, <2>2, <2>3
  <1>10. QED
    BY <1>2, <1>5, <1>6, <1>7, <1>8, <1>9 DEF Bills

-----------------------------------------------------------------------------
(* stub_diagnose and the loop's hint: two copies of the thresholds.        *)

LEMMA FirstFired ==
    ASSUME NEW rules, NEW n \in Nat, DOMAIN rules = 1..n,
           NEW k \in 1..n, rules[k][1], \A i \in 1..n : i < k => ~rules[i][1]
    PROVE  FirstRule(rules) = rules[k][2]
  <1> DEFINE fired == {i \in DOMAIN rules : rules[i][1]}
  <1>1. k \in fired /\ \A i \in fired : k <= i
    OBVIOUS
  <1>2. Min(fired) = k
    <2>1. fired \subseteq Int
      OBVIOUS
    <2>2. QED
      BY <1>1, <2>1 DEF Min
  <1>3. QED
    BY <1>1, <1>2 DEF FirstRule

LEMMA Joined ==
    ASSUME NEW S, NEW p \in Seq(S), NEW q \in Seq(S)
    PROVE  /\ p \o q \in Seq(S) /\ Len(p \o q) = Len(p) + Len(q)
           /\ \A i \in 1..Len(p) + Len(q) :
                 (p \o q)[i] = IF i <= Len(p) THEN p[i] ELSE q[i - Len(p)]
  BY ConcatProperties, Zenon

\* The rules of the pods, of the network and of the load, as one list.
Listed(all, p, q, r) ==
    /\ DOMAIN all = 1..13
    /\ \A i \in 1..6 : all[i] = p[i]
    /\ \A i \in 7..10 : all[i] = q[i - 6]
    /\ \A i \in 11..13 : all[i] = r[i - 10]

LEMMA RuleList ==
    ASSUME NEW S, NEW p \in Seq(S), NEW q \in Seq(S), NEW r \in Seq(S),
           Len(p) = 6, Len(q) = 4, Len(r) = 3
    PROVE  Listed(p \o q \o r, p, q, r)
  <1> DEFINE pq == p \o q
  <1>1. pq \in Seq(S) /\ Len(pq) = Len(p) + Len(q)
    BY Joined
  <1>2. \A i \in 1..Len(p) + Len(q) :
           pq[i] = IF i <= Len(p) THEN p[i] ELSE q[i - Len(p)]
    BY Joined
  <1> HIDE DEF pq
  <1> DEFINE all == pq \o r
  <1>3. all \in Seq(S) /\ Len(all) = Len(pq) + Len(r)
    BY <1>1, Joined
  <1>4. \A i \in 1..Len(pq) + Len(r) :
           all[i] = IF i <= Len(pq) THEN pq[i] ELSE r[i - Len(pq)]
    <2>1. pq \in Seq(S)
      BY <1>1
    <2>2. QED
      BY <2>1, Joined, Zenon
  <1> HIDE DEF all
  <1>5. Len(pq) = 10 /\ Len(all) = 13
    BY <1>1, <1>3
  <1>6. \A i \in 1..6 : all[i] = p[i]
    BY <1>2, <1>4, <1>5
  <1>7. \A i \in 7..10 : all[i] = q[i - 6]
    BY <1>2, <1>4, <1>5
  <1>8. \A i \in 11..13 : all[i] = r[i - 10]
    BY <1>4, <1>5
  <1>9. DOMAIN all = 1..13
    BY <1>3, <1>5, LenProperties
  <1>10. Listed(all, p, q, r)
    BY <1>6, <1>7, <1>8, <1>9 DEF Listed
  <1>11. QED
    BY <1>10 DEF all, pq

LEMMA ListOf ==
    ASSUME NEW S, NEW n \in Nat, NEW f \in [1..n -> S]
    PROVE  f \in Seq(S) /\ Len(f) = n
  OBVIOUS

LEMMA RuleLengths ==
    ASSUME NEW o
    PROVE  \E S : /\ PodRules(o) \in Seq(S) /\ Len(PodRules(o)) = 6
                  /\ NetworkRules(o) \in Seq(S) /\ Len(NetworkRules(o)) = 4
                  /\ LoadRules(o) \in Seq(S) /\ Len(LoadRules(o)) = 3
  <1> DEFINE S == {PodRules(o)[i] : i \in 1..6}
                  \cup {NetworkRules(o)[i] : i \in 1..4}
                  \cup {LoadRules(o)[i] : i \in 1..3}
  <1>1. /\ \A i \in 1..6 : PodRules(o)[i] \in S
        /\ \A i \in 1..4 : NetworkRules(o)[i] \in S
        /\ \A i \in 1..3 : LoadRules(o)[i] \in S
    OBVIOUS
  <1> HIDE DEF S
  <1>2. PodRules(o) = [i \in 1..6 |-> PodRules(o)[i]]
    BY DEF PodRules
  <1>3. NetworkRules(o) = [i \in 1..4 |-> NetworkRules(o)[i]]
    BY DEF NetworkRules
  <1>4. LoadRules(o) = [i \in 1..3 |-> LoadRules(o)[i]]
    BY DEF LoadRules
  <1>5. PodRules(o) \in [1..6 -> S]
    BY <1>1, <1>2
  <1>6. NetworkRules(o) \in [1..4 -> S]
    BY <1>1, <1>3
  <1>7. LoadRules(o) \in [1..3 -> S]
    BY <1>1, <1>4
  <1>8. 6 \in Nat /\ 4 \in Nat /\ 3 \in Nat
    OBVIOUS
  <1>9. PodRules(o) \in Seq(S) /\ Len(PodRules(o)) = 6
    BY <1>5, <1>8, ListOf, Zenon
  <1>10. NetworkRules(o) \in Seq(S) /\ Len(NetworkRules(o)) = 4
    BY <1>6, <1>8, ListOf, Zenon
  <1>11. LoadRules(o) \in Seq(S) /\ Len(LoadRules(o)) = 3
    BY <1>7, <1>8, ListOf, Zenon
  <1>12. QED
    BY <1>9, <1>10, <1>11

\* The rules in their order.
Rule(o, i) == IF i <= 6 THEN PodRules(o)[i]
              ELSE IF i <= 10 THEN NetworkRules(o)[i - 6] ELSE LoadRules(o)[i - 10]

LEMMA RulesInOrder ==
    ASSUME NEW o
    PROVE  /\ \A k \in 1..13 :
                 Rule(o, k)[1] /\ (\A i \in 1..13 : i < k => ~Rule(o, i)[1])
                    => StubDiagnose(o) = Rule(o, k)[2]
           /\ (\A i \in 1..13 : ~Rule(o, i)[1]) => StubDiagnose(o) = NoAnomaly
  <1> DEFINE all == PodRules(o) \o NetworkRules(o) \o LoadRules(o)
  <1>1. /\ DOMAIN all = 1..13
        /\ \A i \in 1..6 : all[i] = PodRules(o)[i]
        /\ \A i \in 7..10 : all[i] = NetworkRules(o)[i - 6]
        /\ \A i \in 11..13 : all[i] = LoadRules(o)[i - 10]
    <2>1. PICK S : /\ PodRules(o) \in Seq(S) /\ Len(PodRules(o)) = 6
                   /\ NetworkRules(o) \in Seq(S) /\ Len(NetworkRules(o)) = 4
                   /\ LoadRules(o) \in Seq(S) /\ Len(LoadRules(o)) = 3
      BY RuleLengths
    <2>2. Listed(all, PodRules(o), NetworkRules(o), LoadRules(o))
      BY <2>1, RuleList, Zenon
    <2> HIDE DEF all
    <2>3. QED
      BY <2>2 DEF Listed
  <1>2. StubDiagnose(o) = FirstRule(all)
    BY DEF StubDiagnose
  <1> HIDE DEF all
  <1>3. \A i \in 1..13 : all[i] = Rule(o, i)
    BY <1>1 DEF Rule
  <1>4. ASSUME NEW k \in 1..13, Rule(o, k)[1],
               \A i \in 1..13 : i < k => ~Rule(o, i)[1]
        PROVE  StubDiagnose(o) = Rule(o, k)[2]
    <2>1. all[k][1] /\ \A i \in 1..13 : i < k => ~all[i][1]
      BY <1>3, <1>4
    <2>2. 13 \in Nat /\ DOMAIN all = 1..13
      BY <1>1
    <2>3. FirstRule(all) = all[k][2]
      BY <2>1, <2>2, FirstFired, Zenon
    <2>4. QED
      BY <1>2, <1>3, <2>3
  <1>5. ASSUME \A i \in 1..13 : ~Rule(o, i)[1]
        PROVE  StubDiagnose(o) = NoAnomaly
    BY <1>1, <1>2, <1>3, <1>5 DEF FirstRule
  <1>6. QED
    BY <1>4, <1>5

LEMMA RuleTable ==
    ASSUME NEW o
    PROVE  /\ Rule(o, 1)[1] <=> o.oom_pods
           /\ Rule(o, 1)[2] = "oom"
           /\ Rule(o, 2)[1] <=> o.evicted_pods
           /\ Rule(o, 2)[2] = "disk-full"
           /\ Rule(o, 3)[1] <=> o.front_end_image_pull_failing
           /\ Rule(o, 3)[2] = "bad-rollout"
           /\ Rule(o, 4)[1] <=> o.crashlooping_pods
           /\ Rule(o, 4)[2] = "crash-loop"
           /\ Rule(o, 5)[1] <=> o.payment_stuck_not_ready
           /\ Rule(o, 5)[2] = "init-failure"
           /\ Rule(o, 6)[1] <=> o.session_db_replicas_hit_zero
           /\ Rule(o, 6)[2] = "session-cart-failure"
           /\ Rule(o, 7)[1] <=>
                \E n \in o.connect_failures :
                   n >= NETWORK_PROBE_MIN_CONNECT_FAILURES
           /\ Rule(o, 7)[2] = "network-partition"
           /\ Rule(o, 8)[1] <=> NetworkLatency(o)
           /\ Rule(o, 8)[2] = "network-latency"
           /\ Rule(o, 9)[1] <=>
                \E ms \in o.p95_latency_ms :
                   ms >= HIGH_LATENCY_THRESHOLD_MS
           /\ Rule(o, 9)[2] = "network-latency"
           /\ Rule(o, 10)[1] <=>
                \E b \in o.combined_throughput_bps :
                   b < NETWORK_PARTITION_MAX_THROUGHPUT_BPS
           /\ Rule(o, 10)[2] = "network-partition"
           /\ Rule(o, 11)[1] <=>
                \E k \in o.heap_rise_kb :
                   k >= MEMORY_LEAK_RISE_THRESHOLD_KB
           /\ Rule(o, 11)[2] = "memory-leak"
           /\ Rule(o, 12)[1] <=>
                \E n \in o.peak_threads_connected :
                   n >= CONNECTION_POOL_THRESHOLD
           /\ Rule(o, 12)[2] = "connection-pool-exhaustion"
           /\ Rule(o, 13)[1] <=>
                \E n \in o.cpu_throttle_periods_increase :
                   n >= CPU_THROTTLE_INCREASE_THRESHOLD
           /\ Rule(o, 13)[2] = "cpu-throttling"
  <1>1. /\ Rule(o, 1) = PodRules(o)[1] /\ Rule(o, 2) = PodRules(o)[2]
        /\ Rule(o, 3) = PodRules(o)[3] /\ Rule(o, 4) = PodRules(o)[4]
        /\ Rule(o, 5) = PodRules(o)[5] /\ Rule(o, 6) = PodRules(o)[6]
        /\ Rule(o, 7) = NetworkRules(o)[1] /\ Rule(o, 8) = NetworkRules(o)[2]
        /\ Rule(o, 9) = NetworkRules(o)[3] /\ Rule(o, 10) = NetworkRules(o)[4]
        /\ Rule(o, 11) = LoadRules(o)[1] /\ Rule(o, 12) = LoadRules(o)[2]
        /\ Rule(o, 13) = LoadRules(o)[3]
    BY DEF Rule
  <1>2. /\ Rule(o, 1)[1] <=> o.oom_pods
        /\ Rule(o, 1)[2] = "oom"
        /\ Rule(o, 2)[1] <=> o.evicted_pods
        /\ Rule(o, 2)[2] = "disk-full"
        /\ Rule(o, 3)[1] <=> o.front_end_image_pull_failing
        /\ Rule(o, 3)[2] = "bad-rollout"
        /\ Rule(o, 4)[1] <=> o.crashlooping_pods
        /\ Rule(o, 4)[2] = "crash-loop"
        /\ Rule(o, 5)[1] <=> o.payment_stuck_not_ready
        /\ Rule(o, 5)[2] = "init-failure"
        /\ Rule(o, 6)[1] <=> o.session_db_replicas_hit_zero
        /\ Rule(o, 6)[2] = "session-cart-failure"
    BY <1>1 DEF PodRules
  <1>3. /\ Rule(o, 7)[1] <=>
                \E n \in o.connect_failures :
                   n >= NETWORK_PROBE_MIN_CONNECT_FAILURES
        /\ Rule(o, 7)[2] = "network-partition"
    <2>1. /\ NetworkRules(o)[1][1] <=>
                  \E n \in o.connect_failures :
                     n >= NETWORK_PROBE_MIN_CONNECT_FAILURES
          /\ NetworkRules(o)[1][2] = "network-partition"
      BY DEF NetworkRules
    <2>2. QED
      BY <1>1, <2>1
  <1>4. /\ Rule(o, 8)[1] <=>
                NetworkLatency(o)
        /\ Rule(o, 8)[2] = "network-latency"
    <2>1. /\ NetworkRules(o)[2][1] <=>
                  NetworkLatency(o)
          /\ NetworkRules(o)[2][2] = "network-latency"
      BY DEF NetworkRules
    <2>2. QED
      BY <1>1, <2>1
  <1>5. /\ Rule(o, 9)[1] <=>
                \E ms \in o.p95_latency_ms :
                   ms >= HIGH_LATENCY_THRESHOLD_MS
        /\ Rule(o, 9)[2] = "network-latency"
    <2>1. /\ NetworkRules(o)[3][1] <=>
                  \E ms \in o.p95_latency_ms :
                     ms >= HIGH_LATENCY_THRESHOLD_MS
          /\ NetworkRules(o)[3][2] = "network-latency"
      BY DEF NetworkRules
    <2>2. QED
      BY <1>1, <2>1
  <1>6. /\ Rule(o, 10)[1] <=>
                \E b \in o.combined_throughput_bps :
                   b < NETWORK_PARTITION_MAX_THROUGHPUT_BPS
        /\ Rule(o, 10)[2] = "network-partition"
    <2>1. /\ NetworkRules(o)[4][1] <=>
                  \E b \in o.combined_throughput_bps :
                     b < NETWORK_PARTITION_MAX_THROUGHPUT_BPS
          /\ NetworkRules(o)[4][2] = "network-partition"
      BY DEF NetworkRules
    <2>2. QED
      BY <1>1, <2>1
  <1>7. /\ Rule(o, 11)[1] <=>
                \E k \in o.heap_rise_kb :
                   k >= MEMORY_LEAK_RISE_THRESHOLD_KB
        /\ Rule(o, 11)[2] = "memory-leak"
    <2>1. /\ LoadRules(o)[1][1] <=>
                  \E k \in o.heap_rise_kb :
                     k >= MEMORY_LEAK_RISE_THRESHOLD_KB
          /\ LoadRules(o)[1][2] = "memory-leak"
      BY DEF LoadRules
    <2>2. QED
      BY <1>1, <2>1
  <1>8. /\ Rule(o, 12)[1] <=>
                \E n \in o.peak_threads_connected :
                   n >= CONNECTION_POOL_THRESHOLD
        /\ Rule(o, 12)[2] = "connection-pool-exhaustion"
    <2>1. /\ LoadRules(o)[2][1] <=>
                  \E n \in o.peak_threads_connected :
                     n >= CONNECTION_POOL_THRESHOLD
          /\ LoadRules(o)[2][2] = "connection-pool-exhaustion"
      BY DEF LoadRules
    <2>2. QED
      BY <1>1, <2>1
  <1>9. /\ Rule(o, 13)[1] <=>
                \E n \in o.cpu_throttle_periods_increase :
                   n >= CPU_THROTTLE_INCREASE_THRESHOLD
        /\ Rule(o, 13)[2] = "cpu-throttling"
    <2>1. /\ LoadRules(o)[3][1] <=>
                  \E n \in o.cpu_throttle_periods_increase :
                     n >= CPU_THROTTLE_INCREASE_THRESHOLD
          /\ LoadRules(o)[3][2] = "cpu-throttling"
      BY DEF LoadRules
    <2>2. QED
      BY <1>1, <2>1
  <1>10. QED
    BY <1>2, <1>3, <1>4, <1>5, <1>6, <1>7, <1>8, <1>9

\* What may be in a list of thirteen places.
LEMMA Places ==
    /\ {1, 2, 3, 4, 5, 6, 7, 8, 9, 10, 11, 12, 13} = 1..13
    /\ \A i \in 1..13 : i = 1 \/ i = 2 \/ i = 3 \/ i = 4 \/ i = 5 \/ i = 6 \/ i = 7
                     \/ i = 8 \/ i = 9 \/ i = 10 \/ i = 11 \/ i = 12 \/ i = 13
  OBVIOUS

\* The rule that names a class, when the rules before it are silent.
Silent(o, k) == \A i \in 1..13 : i < k => ~Rule(o, i)[1]

LEMMA Names ==
    ASSUME NEW o, NEW k \in 1..13, Silent(o, k), NEW class,
           Rule(o, k)[1], Rule(o, k)[2] = class
    PROVE  StubDiagnose(o) = class
  BY RulesInOrder DEF Silent

\* Without a pod rule, a rule of the load fires when the network is not asked
\* for and the numbers before it are not.
LEMMA StubFires ==
    ASSUME NEW o, ~HasStrongSignal(o)
    PROVE  /\ (\E n \in o.connect_failures : n >= 4) =>
                 StubDiagnose(o) = "network-partition"
           /\ /\ o.connect_failures = {} /\ o.max_http_ms = {}
              /\ o.p95_latency_ms = {} /\ o.combined_throughput_bps = {}
              =>
              /\ (\E k \in o.heap_rise_kb : k >= 20000) =>
                    StubDiagnose(o) = "memory-leak"
              /\ o.heap_rise_kb = {} =>
                 /\ (\E n \in o.peak_threads_connected : n >= 100) =>
                       StubDiagnose(o) = "connection-pool-exhaustion"
                 /\ o.peak_threads_connected = {}
                    /\ (\E n \in o.cpu_throttle_periods_increase : n >= 100) =>
                       StubDiagnose(o) = "cpu-throttling"
  <1>1. Silent(o, 7)
    <2>1. /\ ~Rule(o, 1)[1] /\ ~Rule(o, 2)[1] /\ ~Rule(o, 3)[1]
          /\ ~Rule(o, 4)[1] /\ ~Rule(o, 5)[1] /\ ~Rule(o, 6)[1]
      BY RuleTable DEF HasStrongSignal
    <2>2. QED
      BY <2>1, Places DEF Silent
  <1>2. ASSUME \E n \in o.connect_failures : n >= 4
        PROVE  StubDiagnose(o) = "network-partition"
    <2>1. Rule(o, 7)[1] /\ Rule(o, 7)[2] = "network-partition" /\ 7 \in 1..13
      BY <1>2, RuleTable DEF NETWORK_PROBE_MIN_CONNECT_FAILURES
    <2>2. QED
      BY <1>1, <2>1, Names, Zenon
  <1>3. ASSUME o.connect_failures = {}, o.max_http_ms = {},
               o.p95_latency_ms = {}, o.combined_throughput_bps = {}
        PROVE  Silent(o, 11)
    <2>1. ~Rule(o, 7)[1] /\ ~Rule(o, 8)[1] /\ ~Rule(o, 9)[1] /\ ~Rule(o, 10)[1]
      BY <1>3, RuleTable DEF NetworkLatency
    <2>2. QED
      BY <1>1, <2>1, Places DEF Silent
  <1>4. ASSUME Silent(o, 11), \E k \in o.heap_rise_kb : k >= 20000
        PROVE  StubDiagnose(o) = "memory-leak"
    <2>1. /\ Rule(o, 11)[1] /\ 11 \in 1..13
          /\ Rule(o, 11)[2] = "memory-leak"
      BY <1>4, RuleTable DEF MEMORY_LEAK_RISE_THRESHOLD_KB
    <2>2. Silent(o, 11)
      BY <1>4
    <2>3. QED
      BY <2>1, <2>2, Names, Zenon
  <1>5. ASSUME Silent(o, 11), o.heap_rise_kb = {}
        PROVE  Silent(o, 12)
    <2>1. ~Rule(o, 11)[1]
      BY <1>5, RuleTable
    <2>2. QED
      BY <1>5, <2>1, Places DEF Silent
  <1>6. ASSUME Silent(o, 12), \E n \in o.peak_threads_connected : n >= 100
        PROVE  StubDiagnose(o) = "connection-pool-exhaustion"
    <2>1. /\ Rule(o, 12)[1] /\ 12 \in 1..13
          /\ Rule(o, 12)[2] = "connection-pool-exhaustion"
      BY <1>6, RuleTable DEF CONNECTION_POOL_THRESHOLD
    <2>2. QED
      BY <1>6, <2>1, Names, Zenon
  <1>7. ASSUME Silent(o, 12), o.peak_threads_connected = {},
               \E n \in o.cpu_throttle_periods_increase : n >= 100
        PROVE  StubDiagnose(o) = "cpu-throttling"
    <2>1. ~Rule(o, 12)[1]
      BY <1>7, RuleTable
    <2>2. Silent(o, 13)
      BY <1>7, <2>1, Places DEF Silent
    <2>3. Rule(o, 13)[1] /\ Rule(o, 13)[2] = "cpu-throttling" /\ 13 \in 1..13
      BY <1>7, RuleTable DEF CPU_THROTTLE_INCREASE_THRESHOLD
    <2>4. QED
      BY <2>2, <2>3, Names, Zenon
  <1>8. QED
    BY <1>2, <1>3, <1>4, <1>5, <1>6, <1>7

\* One numeric reading is asked for per service, so only one can hit.
LEMMA OneNumber ==
    ASSUME NEW t, NEW s, s.network # {} => t = "orders", NEW o,
           o = QueryPrometheus(t, s)
    PROVE  /\ o.cpu_throttle_periods_increase # {} => t = "user"
           /\ o.heap_rise_kb # {} => t = "shipping"
           /\ o.peak_threads_connected # {} => t = "catalogue-db"
           /\ o.connect_failures # {} => t = "orders"
           /\ o.max_http_ms # {} => t = "orders"
           /\ o.p95_latency_ms # {} => t = "orders"
           /\ o.combined_throughput_bps # {} => t = "orders"
  BY DEF QueryPrometheus, OnlyFor, CpuThrottlePeriodsIncrease, HeapRiseKb,
         PeakThreadsConnected, P95LatencyMs, CombinedThroughputBps

LEMMA HintIsStub ==
    ASSUME NEW t, NEW s, s.network # {} => t = "orders",
           NEW o, o = QueryPrometheus(t, s), Hint(o) # NoAnomaly
    PROVE  StubResult(t, s) = Hint(o)
  <1> DEFINE field == NUMERIC_THRESHOLD_FIELDS
             rules == [i \in DOMAIN field |->
                LET f == field[i] IN << \E v \in o[f[1]] : v >= f[2], f[3] >>]
  <1>1. ~HasStrongSignal(o) /\ Hint(o) = FirstRule(rules)
    BY DEF Hint, NumericThresholdHit
  <1>f. /\ DOMAIN field = 1..4
        /\ field[1] = <<"cpu_throttle_periods_increase", 100, "cpu-throttling">>
        /\ field[2] = <<"heap_rise_kb", 20000, "memory-leak">>
        /\ field[3] = <<"peak_threads_connected", 100,
                        "connection-pool-exhaustion">>
        /\ field[4] = <<"connect_failures", 4, "network-partition">>
    BY DEF NUMERIC_THRESHOLD_FIELDS
  <1> HIDE DEF field
  <1>r. /\ DOMAIN rules = 1..4
        /\ \A i \in 1..4 :
              /\ rules[i][1] <=> \E v \in o[field[i][1]] : v >= field[i][2]
              /\ rules[i][2] = field[i][3]
    BY <1>f
  <1>2. /\ rules[1][1] <=> \E v \in o.cpu_throttle_periods_increase : v >= 100
        /\ rules[1][2] = "cpu-throttling"
        /\ rules[2][1] <=> \E v \in o.heap_rise_kb : v >= 20000
        /\ rules[2][2] = "memory-leak"
        /\ rules[3][1] <=> \E v \in o.peak_threads_connected : v >= 100
        /\ rules[3][2] = "connection-pool-exhaustion"
        /\ rules[4][1] <=> \E v \in o.connect_failures : v >= 4
        /\ rules[4][2] = "network-partition"
    BY <1>f, <1>r
  <1> HIDE DEF rules
  <1>3. PICK k \in 1..4 : rules[k][1]
    BY <1>1, <1>r DEF FirstRule
  <1>4. k \in {1, 2, 3, 4} /\ 4 \in Nat
    OBVIOUS
  <1>o. /\ o.cpu_throttle_periods_increase # {} => t = "user"
        /\ o.heap_rise_kb # {} => t = "shipping"
        /\ o.peak_threads_connected # {} => t = "catalogue-db"
        /\ o.connect_failures # {} => t = "orders"
        /\ o.max_http_ms # {} => t = "orders"
        /\ o.p95_latency_ms # {} => t = "orders"
        /\ o.combined_throughput_bps # {} => t = "orders"
    BY OneNumber
  <1>5. \A i \in 1..4 : i # k => ~rules[i][1]
    <2>1. \A i \in 1..4 : i \in {1, 2, 3, 4}
      OBVIOUS
    <2>2. QED
      BY <1>2, <1>3, <1>4, <1>o, <2>1
  <1>6. Hint(o) = rules[k][2]
    <2>1. \A i \in 1..4 : i < k => i # k
      OBVIOUS
    <2>2. \A i \in 1..4 : i < k => ~rules[i][1]
      BY <1>5, <2>1
    <2>3. DOMAIN rules = 1..4
      BY <1>r
    <2>4. FirstRule(rules) = rules[k][2]
      BY <1>3, <1>4, <2>2, <2>3, FirstFired, Zenon
    <2>5. QED
      BY <1>1, <2>4
  <1>7. StubDiagnose(o) = rules[k][2]
    BY <1>1, <1>2, <1>3, <1>4, <1>o, StubFires
  <1>8. StubDiagnose(o) # NoAnomaly
    BY <1>6, <1>7
  <1>9. StubResult(t, s) = StubDiagnose(o)
    BY <1>8 DEF StubResult
  <1>10. QED
    BY <1>6, <1>7, <1>9

\* What the cluster shows of a fault is what the rules read.  The readings of
\* the other services' thresholds are not asked for.
LEMMA Asked ==
    ASSUME NEW t, NEW s, NEW o, o = QueryPrometheus(t, s)
    PROVE  /\ o.oom_pods <=> OomPods(s)
           /\ o.evicted_pods <=> EvictedPods(s)
           /\ o.crashlooping_pods <=> CrashloopingPods(s)
           /\ o.front_end_image_pull_failing <=> t = "front-end" /\ s.imagePull
           /\ o.payment_stuck_not_ready <=> t = "payment" /\ s.notReady
           /\ o.session_db_replicas_hit_zero <=>
                 t = "session-db" /\ s.zeroReplicas
  BY DEF QueryPrometheus, OnlyFor, FrontEndImagePullFailing,
         PaymentStuckNotReady, SessionDbReplicasHitZero

LEMMA Measured ==
    ASSUME NEW t, NEW s, NEW o, o = QueryPrometheus(t, s)
    PROVE  /\ (\E ms \in o.p95_latency_ms : ms >= HIGH_LATENCY_THRESHOLD_MS)
                 <=> t = "orders" /\ Slow(s)
           /\ (\E b \in o.combined_throughput_bps :
                  b < NETWORK_PARTITION_MAX_THROUGHPUT_BPS)
                 <=> t = "orders" /\ Starved(s)
           /\ (\E k \in o.heap_rise_kb : k >= MEMORY_LEAK_RISE_THRESHOLD_KB)
                 <=> t = "shipping" /\ Leaking(s)
           /\ (\E n \in o.peak_threads_connected : n >= CONNECTION_POOL_THRESHOLD)
                 <=> t = "catalogue-db" /\ Crowded(s)
           /\ (\E n \in o.cpu_throttle_periods_increase :
                  n >= CPU_THROTTLE_INCREASE_THRESHOLD)
                 <=> t = "user" /\ Throttled(s)
  <1>1. /\ o.p95_latency_ms = P95LatencyMs(t, s)
        /\ o.combined_throughput_bps = CombinedThroughputBps(t, s)
        /\ o.heap_rise_kb = HeapRiseKb(t, s)
        /\ o.peak_threads_connected = PeakThreadsConnected(t, s)
        /\ o.cpu_throttle_periods_increase = CpuThrottlePeriodsIncrease(t, s)
    BY DEF QueryPrometheus
  <1>2. (\E ms \in P95LatencyMs(t, s) : ms >= HIGH_LATENCY_THRESHOLD_MS)
           <=> t = "orders" /\ Slow(s)
    BY DEF P95LatencyMs, OnlyFor, Slow
  <1>3. (\E b \in CombinedThroughputBps(t, s) :
            b < NETWORK_PARTITION_MAX_THROUGHPUT_BPS)
           <=> t = "orders" /\ Starved(s)
    BY DEF CombinedThroughputBps, OnlyFor, Starved
  <1>4. (\E k \in HeapRiseKb(t, s) : k >= MEMORY_LEAK_RISE_THRESHOLD_KB)
           <=> t = "shipping" /\ Leaking(s)
    BY DEF HeapRiseKb, OnlyFor, Leaking
  <1>5. (\E n \in PeakThreadsConnected(t, s) : n >= CONNECTION_POOL_THRESHOLD)
           <=> t = "catalogue-db" /\ Crowded(s)
    BY DEF PeakThreadsConnected, OnlyFor, Crowded
  <1>6. (\E n \in CpuThrottlePeriodsIncrease(t, s) :
            n >= CPU_THROTTLE_INCREASE_THRESHOLD)
           <=> t = "user" /\ Throttled(s)
    BY DEF CpuThrottlePeriodsIncrease, OnlyFor, Throttled
  <1>7. QED
    BY <1>1, <1>2, <1>3, <1>4, <1>5, <1>6

\* The probe of an episode that has none, and of a path that is cut or slow.
LEMMA Probed ==
    ASSUME NEW t, NEW s, NEW o, o = QueryPrometheus(t, s)
    PROVE  /\ s.network = {} => /\ o.connect_failures = {}
                                /\ o.max_http_ms = {}
           /\ \A n \in o.connect_failures : \E x \in s.network : n = x.failures
           /\ \A x \in s.network : /\ x.failures \in o.connect_failures
                                   /\ x.http \subseteq o.max_http_ms
  BY DEF QueryPrometheus

\* The rules as conditions on what the cluster shows.
LEMMA RulesRead ==
    ASSUME NEW t, NEW s, NEW o, o = QueryPrometheus(t, s)
    PROVE  /\ Rule(o, 1)[1] <=> OomPods(s)
           /\ Rule(o, 2)[1] <=> EvictedPods(s)
           /\ Rule(o, 3)[1] <=> t = "front-end" /\ s.imagePull
           /\ Rule(o, 4)[1] <=> CrashloopingPods(s)
           /\ Rule(o, 5)[1] <=> t = "payment" /\ s.notReady
           /\ Rule(o, 6)[1] <=> t = "session-db" /\ s.zeroReplicas
           /\ Rule(o, 9)[1] <=> t = "orders" /\ Slow(s)
           /\ Rule(o, 10)[1] <=> t = "orders" /\ Starved(s)
           /\ Rule(o, 11)[1] <=> t = "shipping" /\ Leaking(s)
           /\ Rule(o, 12)[1] <=> t = "catalogue-db" /\ Crowded(s)
           /\ Rule(o, 13)[1] <=> t = "user" /\ Throttled(s)
           /\ s.network = {} => ~Rule(o, 7)[1] /\ ~Rule(o, 8)[1]
           /\ PathCut(s) => Rule(o, 7)[1]
           /\ PathSlow(s) => ~Rule(o, 7)[1] /\ Rule(o, 8)[1]
  <1>1. /\ Rule(o, 1)[1] <=> OomPods(s)
        /\ Rule(o, 2)[1] <=> EvictedPods(s)
        /\ Rule(o, 3)[1] <=> t = "front-end" /\ s.imagePull
        /\ Rule(o, 4)[1] <=> CrashloopingPods(s)
        /\ Rule(o, 5)[1] <=> t = "payment" /\ s.notReady
        /\ Rule(o, 6)[1] <=> t = "session-db" /\ s.zeroReplicas
    <2>1. /\ Rule(o, 1)[1] <=> o.oom_pods
          /\ Rule(o, 2)[1] <=> o.evicted_pods
          /\ Rule(o, 3)[1] <=> o.front_end_image_pull_failing
          /\ Rule(o, 4)[1] <=> o.crashlooping_pods
          /\ Rule(o, 5)[1] <=> o.payment_stuck_not_ready
          /\ Rule(o, 6)[1] <=> o.session_db_replicas_hit_zero
      BY ZenonT(60), RuleTable
    <2>2. /\ o.oom_pods <=> OomPods(s)
          /\ o.evicted_pods <=> EvictedPods(s)
          /\ o.crashlooping_pods <=> CrashloopingPods(s)
          /\ o.front_end_image_pull_failing <=> t = "front-end" /\ s.imagePull
          /\ o.payment_stuck_not_ready <=> t = "payment" /\ s.notReady
          /\ o.session_db_replicas_hit_zero <=>
                t = "session-db" /\ s.zeroReplicas
      BY Asked
    <2>3. QED
      BY <2>1, <2>2
  <1>2. /\ Rule(o, 9)[1] <=> t = "orders" /\ Slow(s)
        /\ Rule(o, 10)[1] <=> t = "orders" /\ Starved(s)
        /\ Rule(o, 11)[1] <=> t = "shipping" /\ Leaking(s)
        /\ Rule(o, 12)[1] <=> t = "catalogue-db" /\ Crowded(s)
        /\ Rule(o, 13)[1] <=> t = "user" /\ Throttled(s)
    <2>1. /\ Rule(o, 9)[1] <=> \E ms \in o.p95_latency_ms :
                                   ms >= HIGH_LATENCY_THRESHOLD_MS
          /\ Rule(o, 10)[1] <=> \E b \in o.combined_throughput_bps :
                                    b < NETWORK_PARTITION_MAX_THROUGHPUT_BPS
          /\ Rule(o, 11)[1] <=> \E k \in o.heap_rise_kb :
                                    k >= MEMORY_LEAK_RISE_THRESHOLD_KB
          /\ Rule(o, 12)[1] <=> \E n \in o.peak_threads_connected :
                                    n >= CONNECTION_POOL_THRESHOLD
          /\ Rule(o, 13)[1] <=> \E n \in o.cpu_throttle_periods_increase :
                                    n >= CPU_THROTTLE_INCREASE_THRESHOLD
      BY ZenonT(60), RuleTable
    <2> DEFINE slow == \E ms \in o.p95_latency_ms :
                          ms >= HIGH_LATENCY_THRESHOLD_MS
               starved == \E b \in o.combined_throughput_bps :
                             b < NETWORK_PARTITION_MAX_THROUGHPUT_BPS
               leaking == \E k \in o.heap_rise_kb :
                             k >= MEMORY_LEAK_RISE_THRESHOLD_KB
               crowded == \E n \in o.peak_threads_connected :
                             n >= CONNECTION_POOL_THRESHOLD
               throttled == \E n \in o.cpu_throttle_periods_increase :
                               n >= CPU_THROTTLE_INCREASE_THRESHOLD
    <2>2. /\ slow <=> t = "orders" /\ Slow(s)
          /\ starved <=> t = "orders" /\ Starved(s)
          /\ leaking <=> t = "shipping" /\ Leaking(s)
          /\ crowded <=> t = "catalogue-db" /\ Crowded(s)
          /\ throttled <=> t = "user" /\ Throttled(s)
      BY Measured
    <2>3. /\ Rule(o, 9)[1] <=> slow
          /\ Rule(o, 10)[1] <=> starved
          /\ Rule(o, 11)[1] <=> leaking
          /\ Rule(o, 12)[1] <=> crowded
          /\ Rule(o, 13)[1] <=> throttled
      BY <2>1
    <2> HIDE DEF slow, starved, leaking, crowded, throttled
    <2>4. QED
      BY <2>2, <2>3
  <1>3. /\ Rule(o, 7)[1] <=> \E n \in o.connect_failures : n >= 4
        /\ Rule(o, 8)[1] <=> NetworkLatency(o)
    BY RuleTable DEF NETWORK_PROBE_MIN_CONNECT_FAILURES
  <1>4. s.network = {} => ~Rule(o, 7)[1] /\ ~Rule(o, 8)[1]
    BY <1>3, Probed DEF NetworkLatency
  <1>5. PathCut(s) => Rule(o, 7)[1]
    <2>1. ASSUME NEW x \in s.network, x.failures \in 4..5
          PROVE  \E n \in o.connect_failures : n >= 4
      BY <2>1, Probed
    <2>2. QED
      BY <1>3, <2>1 DEF PathCut
  <1>6. ASSUME PathSlow(s)
        PROVE  ~Rule(o, 7)[1] /\ Rule(o, 8)[1]
    <2>1. \A n \in o.connect_failures : n \in 0..1
      BY <1>6, Probed DEF PathSlow
    <2>2. \E ms \in o.max_http_ms : /\ HIGH_LATENCY_THRESHOLD_MS <= ms
                                    /\ ms < NETWORK_PROBE_LATENCY_CEILING_MS
      BY <1>6, Probed DEF PathSlow
    <2>3. \A n \in o.connect_failures : n <= 1 /\ ~(n >= 4)
      BY <2>1
    <2>4. QED
      BY <1>3, <2>2, <2>3 DEF NetworkLatency
  <1>7. QED
    BY <1>1, <1>2, <1>4, <1>5, <1>6

LEMMA TargetsOf ==
    /\ FaultTarget["crash-loop"] = "carts"
    /\ FaultTarget["oom"] = "catalogue"
    /\ FaultTarget["under-provisioned-replicas"] = "catalogue"
    /\ FaultTarget["disk-full"] = "queue-master"
    /\ FaultTarget["network-latency"] = "orders"
    /\ FaultTarget["network-partition"] = "orders"
    /\ FaultTarget["memory-leak"] = "shipping"
    /\ FaultTarget["connection-pool-exhaustion"] = "catalogue-db"
    /\ FaultTarget["init-failure"] = "payment"
    /\ FaultTarget["session-cart-failure"] = "session-db"
    /\ FaultTarget["cpu-throttling"] = "user"
    /\ FaultTarget["bad-rollout"] = "front-end"
  <1>1. FaultTarget["crash-loop"] = "carts"
    BY DEF FaultTarget, FaultClasses
  <1>2. FaultTarget["oom"] = "catalogue"
    BY DEF FaultTarget, FaultClasses
  <1>3. FaultTarget["under-provisioned-replicas"] = "catalogue"
    BY DEF FaultTarget, FaultClasses
  <1>4. FaultTarget["disk-full"] = "queue-master"
    BY DEF FaultTarget, FaultClasses
  <1>5. FaultTarget["network-latency"] = "orders"
    BY DEF FaultTarget, FaultClasses
  <1>6. FaultTarget["network-partition"] = "orders"
    BY DEF FaultTarget, FaultClasses
  <1>7. FaultTarget["memory-leak"] = "shipping"
    BY DEF FaultTarget, FaultClasses
  <1>8. FaultTarget["connection-pool-exhaustion"] = "catalogue-db"
    BY DEF FaultTarget, FaultClasses
  <1>9. FaultTarget["init-failure"] = "payment"
    BY DEF FaultTarget, FaultClasses
  <1>10. FaultTarget["session-cart-failure"] = "session-db"
    BY DEF FaultTarget, FaultClasses
  <1>11. FaultTarget["cpu-throttling"] = "user"
    BY DEF FaultTarget, FaultClasses
  <1>12. FaultTarget["bad-rollout"] = "front-end"
    BY DEF FaultTarget, FaultClasses
  <1>13. QED
    BY <1>1, <1>2, <1>3, <1>4, <1>5, <1>6, <1>7,
       <1>8, <1>9, <1>10, <1>11, <1>12

(* The rules name the fault that shows.                                    *)

LEMMA FaultNamed ==
    ASSUME NEW class \in FaultClasses, NEW s,
           s.network # {} => FaultTarget[class] = "orders",
           OwnTroubleOnly(class, s), Shows(class, s)
    PROVE  StubResult(FaultTarget[class], s) = class
  <1> DEFINE t == FaultTarget[class]
             o == QueryPrometheus(t, s)
  <1>t. s.network # {} => t = "orders"
    OBVIOUS
  <1>1. /\ Rule(o, 1)[1] <=> OomPods(s)
        /\ Rule(o, 2)[1] <=> EvictedPods(s)
        /\ Rule(o, 3)[1] <=> t = "front-end" /\ s.imagePull
        /\ Rule(o, 4)[1] <=> CrashloopingPods(s)
        /\ Rule(o, 5)[1] <=> t = "payment" /\ s.notReady
        /\ Rule(o, 6)[1] <=> t = "session-db" /\ s.zeroReplicas
        /\ Rule(o, 9)[1] <=> t = "orders" /\ Slow(s)
        /\ Rule(o, 10)[1] <=> t = "orders" /\ Starved(s)
        /\ Rule(o, 11)[1] <=> t = "shipping" /\ Leaking(s)
        /\ Rule(o, 12)[1] <=> t = "catalogue-db" /\ Crowded(s)
        /\ Rule(o, 13)[1] <=> t = "user" /\ Throttled(s)
        /\ s.network = {} => ~Rule(o, 7)[1] /\ ~Rule(o, 8)[1]
        /\ PathCut(s) => Rule(o, 7)[1]
        /\ PathSlow(s) => ~Rule(o, 7)[1] /\ Rule(o, 8)[1]
    BY RulesRead
  <1>2. /\ Rule(o, 1)[2] = "oom" /\ Rule(o, 2)[2] = "disk-full"
        /\ Rule(o, 3)[2] = "bad-rollout" /\ Rule(o, 4)[2] = "crash-loop"
        /\ Rule(o, 5)[2] = "init-failure"
        /\ Rule(o, 6)[2] = "session-cart-failure"
        /\ Rule(o, 7)[2] = "network-partition"
        /\ Rule(o, 8)[2] = "network-latency"
        /\ Rule(o, 9)[2] = "network-latency"
        /\ Rule(o, 10)[2] = "network-partition"
        /\ Rule(o, 11)[2] = "memory-leak"
        /\ Rule(o, 12)[2] = "connection-pool-exhaustion"
        /\ Rule(o, 13)[2] = "cpu-throttling"
    BY RuleTable
  <1>3. /\ OomPods(s) => class = "oom"
        /\ EvictedPods(s) => class = "disk-full"
        /\ CrashloopingPods(s) =>
              class \in {"oom", "disk-full", "bad-rollout", "crash-loop"}
    BY DEF OwnTroubleOnly
  <1>4. \A k \in 1..13 :
           Silent(o, k) /\ Rule(o, k)[1] => StubDiagnose(o) = Rule(o, k)[2]
    BY Names
  <1>5. StubDiagnose(o) = class => StubResult(t, s) = class
    BY DEF StubResult, NoAnomaly, FaultClasses
  <1> HIDE DEF o, t
  <1>6. CASE class = "oom"
    <2>1. t = "catalogue" /\ OomPods(s)
      BY <1>6, TargetsOf DEF Shows, t
    <2>3. Silent(o, 1)
      BY DEF Silent
    <2>4. Rule(o, 1)[1]
      BY <1>1, <2>1
    <2>5. QED
      BY <1>6, <1>2, <1>4, <1>5, <2>3, <2>4 DEF t
  <1>7. CASE class = "disk-full"
    <2>1. t = "queue-master" /\ EvictedPods(s)
      BY <1>7, TargetsOf DEF Shows, t
    <2>2. /\ ~Rule(o, 1)[1]
      BY <1>7, <1>t, <1>1, <1>3, <2>1
    <2>3. Silent(o, 2)
      BY <2>2, Places DEF Silent
    <2>4. Rule(o, 2)[1]
      BY <1>1, <2>1
    <2>5. QED
      BY <1>7, <1>2, <1>4, <1>5, <2>3, <2>4 DEF t
  <1>8. CASE class = "bad-rollout"
    <2>1. t = "front-end" /\ s.imagePull
      BY <1>8, TargetsOf DEF Shows, t
    <2>2. /\ ~Rule(o, 1)[1] /\ ~Rule(o, 2)[1]
      BY <1>8, <1>t, <1>1, <1>3, <2>1
    <2>3. Silent(o, 3)
      BY <2>2, Places DEF Silent
    <2>4. Rule(o, 3)[1]
      BY <1>1, <2>1
    <2>5. QED
      BY <1>8, <1>2, <1>4, <1>5, <2>3, <2>4 DEF t
  <1>9. CASE class = "crash-loop"
    <2>1. t = "carts" /\ CrashloopingPods(s)
      BY <1>9, TargetsOf DEF Shows, t
    <2>2. /\ ~Rule(o, 1)[1] /\ ~Rule(o, 2)[1] /\ ~Rule(o, 3)[1]
      BY <1>9, <1>t, <1>1, <1>3, <2>1
    <2>3. Silent(o, 4)
      BY <2>2, Places DEF Silent
    <2>4. Rule(o, 4)[1]
      BY <1>1, <2>1
    <2>5. QED
      BY <1>9, <1>2, <1>4, <1>5, <2>3, <2>4 DEF t
  <1>10. CASE class = "init-failure"
    <2>1. t = "payment" /\ s.notReady
      BY <1>10, TargetsOf DEF Shows, t
    <2>2. /\ ~Rule(o, 1)[1] /\ ~Rule(o, 2)[1] /\ ~Rule(o, 3)[1]
          /\ ~Rule(o, 4)[1]
      BY <1>10, <1>t, <1>1, <1>3, <2>1
    <2>3. Silent(o, 5)
      BY <2>2, Places DEF Silent
    <2>4. Rule(o, 5)[1]
      BY <1>1, <2>1
    <2>5. QED
      BY <1>10, <1>2, <1>4, <1>5, <2>3, <2>4 DEF t
  <1>11. CASE class = "session-cart-failure"
    <2>1. t = "session-db" /\ s.zeroReplicas
      BY <1>11, TargetsOf DEF Shows, t
    <2>2. /\ ~Rule(o, 1)[1] /\ ~Rule(o, 2)[1] /\ ~Rule(o, 3)[1]
          /\ ~Rule(o, 4)[1] /\ ~Rule(o, 5)[1]
      BY <1>11, <1>t, <1>1, <1>3, <2>1
    <2>3. Silent(o, 6)
      BY <2>2, Places DEF Silent
    <2>4. Rule(o, 6)[1]
      BY <1>1, <2>1
    <2>5. QED
      BY <1>11, <1>2, <1>4, <1>5, <2>3, <2>4 DEF t
  <1>12. CASE class = "network-partition"
    <2>1. t = "orders" /\ (PathCut(s) \/ (s.network = {} /\ ~Slow(s) /\ Starved(s)))
      BY <1>12, TargetsOf DEF Shows, t
    <2>2. CASE PathCut(s)
      <3>1. /\ ~Rule(o, 1)[1] /\ ~Rule(o, 2)[1] /\ ~Rule(o, 3)[1]
            /\ ~Rule(o, 4)[1] /\ ~Rule(o, 5)[1] /\ ~Rule(o, 6)[1]
        BY <1>12, <1>1, <1>3, <2>1, <2>2
      <3>2. Silent(o, 7)
        BY <3>1, Places DEF Silent
      <3>3. Rule(o, 7)[1]
        BY <1>1, <2>2
      <3>4. QED
        BY <1>12, <1>2, <1>4, <1>5, <3>2, <3>3 DEF t
    <2>3. CASE s.network = {} /\ ~Slow(s) /\ Starved(s)
      <3>1. /\ ~Rule(o, 1)[1] /\ ~Rule(o, 2)[1] /\ ~Rule(o, 3)[1]
            /\ ~Rule(o, 4)[1] /\ ~Rule(o, 5)[1] /\ ~Rule(o, 6)[1]
            /\ ~Rule(o, 7)[1] /\ ~Rule(o, 8)[1] /\ ~Rule(o, 9)[1]
        BY <1>12, <1>1, <1>3, <2>1, <2>3
      <3>2. Silent(o, 10)
        BY <3>1, Places DEF Silent
      <3>3. Rule(o, 10)[1]
        BY <1>1, <2>1, <2>3
      <3>4. QED
        BY <1>12, <1>2, <1>4, <1>5, <3>2, <3>3 DEF t
    <2>4. QED
      BY <2>1, <2>2, <2>3
  <1>13. CASE class = "network-latency"
    <2>1. t = "orders" /\ (PathSlow(s) \/ (s.network = {} /\ Slow(s)))
      BY <1>13, TargetsOf DEF Shows, t
    <2>2. CASE PathSlow(s)
      <3>1. /\ ~Rule(o, 1)[1] /\ ~Rule(o, 2)[1] /\ ~Rule(o, 3)[1]
            /\ ~Rule(o, 4)[1] /\ ~Rule(o, 5)[1] /\ ~Rule(o, 6)[1]
            /\ ~Rule(o, 7)[1]
        BY <1>13, <1>1, <1>3, <2>1, <2>2
      <3>2. Silent(o, 8)
        BY <3>1, Places DEF Silent
      <3>3. Rule(o, 8)[1]
        BY <1>1, <2>2
      <3>4. QED
        BY <1>13, <1>2, <1>4, <1>5, <3>2, <3>3 DEF t
    <2>3. CASE s.network = {} /\ Slow(s)
      <3>1. /\ ~Rule(o, 1)[1] /\ ~Rule(o, 2)[1] /\ ~Rule(o, 3)[1]
            /\ ~Rule(o, 4)[1] /\ ~Rule(o, 5)[1] /\ ~Rule(o, 6)[1]
            /\ ~Rule(o, 7)[1] /\ ~Rule(o, 8)[1]
        BY <1>13, <1>1, <1>3, <2>1, <2>3
      <3>2. Silent(o, 9)
        BY <3>1, Places DEF Silent
      <3>3. Rule(o, 9)[1]
        BY <1>1, <2>1, <2>3
      <3>4. QED
        BY <1>13, <1>2, <1>4, <1>5, <3>2, <3>3 DEF t
    <2>4. QED
      BY <2>1, <2>2, <2>3
  <1>14. CASE class = "memory-leak"
    <2>1. t = "shipping" /\ Leaking(s)
      BY <1>14, TargetsOf DEF Shows, t
    <2>2. /\ ~Rule(o, 1)[1] /\ ~Rule(o, 2)[1] /\ ~Rule(o, 3)[1]
          /\ ~Rule(o, 4)[1] /\ ~Rule(o, 5)[1] /\ ~Rule(o, 6)[1]
          /\ ~Rule(o, 7)[1] /\ ~Rule(o, 8)[1] /\ ~Rule(o, 9)[1]
          /\ ~Rule(o, 10)[1]
      BY <1>14, <1>t, <1>1, <1>3, <2>1
    <2>3. Silent(o, 11)
      BY <2>2, Places DEF Silent
    <2>4. Rule(o, 11)[1]
      BY <1>1, <2>1
    <2>5. QED
      BY <1>14, <1>2, <1>4, <1>5, <2>3, <2>4 DEF t
  <1>15. CASE class = "connection-pool-exhaustion"
    <2>1. t = "catalogue-db" /\ Crowded(s)
      BY <1>15, TargetsOf DEF Shows, t
    <2>2. /\ ~Rule(o, 1)[1] /\ ~Rule(o, 2)[1] /\ ~Rule(o, 3)[1]
          /\ ~Rule(o, 4)[1] /\ ~Rule(o, 5)[1] /\ ~Rule(o, 6)[1]
          /\ ~Rule(o, 7)[1] /\ ~Rule(o, 8)[1] /\ ~Rule(o, 9)[1]
          /\ ~Rule(o, 10)[1] /\ ~Rule(o, 11)[1]
      BY <1>15, <1>t, <1>1, <1>3, <2>1
    <2>3. Silent(o, 12)
      BY <2>2, Places DEF Silent
    <2>4. Rule(o, 12)[1]
      BY <1>1, <2>1
    <2>5. QED
      BY <1>15, <1>2, <1>4, <1>5, <2>3, <2>4 DEF t
  <1>16. CASE class = "cpu-throttling"
    <2>1. t = "user" /\ Throttled(s)
      BY <1>16, TargetsOf DEF Shows, t
    <2>2. /\ ~Rule(o, 1)[1] /\ ~Rule(o, 2)[1] /\ ~Rule(o, 3)[1]
          /\ ~Rule(o, 4)[1] /\ ~Rule(o, 5)[1] /\ ~Rule(o, 6)[1]
          /\ ~Rule(o, 7)[1] /\ ~Rule(o, 8)[1] /\ ~Rule(o, 9)[1]
          /\ ~Rule(o, 10)[1] /\ ~Rule(o, 11)[1] /\ ~Rule(o, 12)[1]
      BY <1>16, <1>t, <1>1, <1>3, <2>1
    <2>3. Silent(o, 13)
      BY <2>2, Places DEF Silent
    <2>4. Rule(o, 13)[1]
      BY <1>1, <2>1
    <2>5. QED
      BY <1>16, <1>2, <1>4, <1>5, <2>3, <2>4 DEF t
  <1>17. CASE class = "under-provisioned-replicas"
    <2>1. t = "catalogue" /\ Overloaded(s)
      BY <1>17, TargetsOf DEF Shows, t
    <2>2. /\ ~Rule(o, 1)[1] /\ ~Rule(o, 2)[1] /\ ~Rule(o, 3)[1]
          /\ ~Rule(o, 4)[1] /\ ~Rule(o, 5)[1] /\ ~Rule(o, 6)[1]
          /\ ~Rule(o, 7)[1] /\ ~Rule(o, 8)[1] /\ ~Rule(o, 9)[1]
          /\ ~Rule(o, 10)[1] /\ ~Rule(o, 11)[1] /\ ~Rule(o, 12)[1]
          /\ ~Rule(o, 13)[1]
      BY <1>17, <1>t, <1>1, <1>3, <2>1
    <2>3. \A i \in 1..13 : ~Rule(o, i)[1]
      BY <2>2, Places
    <2>4. StubDiagnose(o) = NoAnomaly
      BY <2>3, RulesInOrder
    <2>5. QED
      BY <1>17, <2>1, <2>4 DEF StubResult, Overloaded, NoAnomaly, o, t
  <1>18. QED
    BY <1>6, <1>7, <1>8, <1>9, <1>10, <1>11, <1>12,
       <1>13, <1>14, <1>15, <1>16, <1>17 DEF FaultClasses

(* What shows faintly is read as something else.                            *)
LEMMA FaultMisread ==
    ASSUME NEW class \in FaultClasses, NEW s,
           s.network # {} => FaultTarget[class] = "orders",
           OwnTroubleOnly(class, s), Faint(class, s)
    PROVE  StubResult(FaultTarget[class], s) \in MisreadAs(class)
  <1> DEFINE t == FaultTarget[class]
             o == QueryPrometheus(t, s)
  <1>1. /\ Rule(o, 1)[1] <=> OomPods(s)
        /\ Rule(o, 2)[1] <=> EvictedPods(s)
        /\ Rule(o, 3)[1] <=> t = "front-end" /\ s.imagePull
        /\ Rule(o, 4)[1] <=> CrashloopingPods(s)
        /\ Rule(o, 5)[1] <=> t = "payment" /\ s.notReady
        /\ Rule(o, 6)[1] <=> t = "session-db" /\ s.zeroReplicas
        /\ Rule(o, 9)[1] <=> t = "orders" /\ Slow(s)
        /\ Rule(o, 10)[1] <=> t = "orders" /\ Starved(s)
        /\ Rule(o, 11)[1] <=> t = "shipping" /\ Leaking(s)
        /\ Rule(o, 12)[1] <=> t = "catalogue-db" /\ Crowded(s)
        /\ Rule(o, 13)[1] <=> t = "user" /\ Throttled(s)
        /\ s.network = {} => ~Rule(o, 7)[1] /\ ~Rule(o, 8)[1]
    BY RulesRead
  <1>2. Rule(o, 4)[2] = "crash-loop" /\ Rule(o, 9)[2] = "network-latency"
    BY RuleTable
  <1>3. /\ EvictedPods(s) => class = "disk-full"
        /\ OomPods(s) => class = "oom"
        /\ CrashloopingPods(s) =>
              class \in {"oom", "disk-full", "bad-rollout", "crash-loop"}
    BY DEF OwnTroubleOnly
  <1>4. \A k \in 1..13 :
           Silent(o, k) /\ Rule(o, k)[1] => StubDiagnose(o) = Rule(o, k)[2]
    BY Names
  <1>5. /\ StubDiagnose(o) \in {"crash-loop", "network-latency"} =>
              StubResult(t, s) = StubDiagnose(o)
        /\ StubDiagnose(o) = NoAnomaly =>
              StubResult(t, s) \in {"under-provisioned-replicas", NoAnomaly,
                                    LogAnomaly}
    BY DEF StubResult, NoAnomaly
  <1> HIDE DEF o, t
  <1>6. CASE class = "oom"
    <2>1. t = "catalogue" /\ ~OomPods(s)
      BY <1>6, TargetsOf DEF Faint, t
    <2>2. ~Rule(o, 1)[1] /\ ~Rule(o, 2)[1] /\ ~Rule(o, 3)[1]
      BY <1>6, <1>1, <1>3, <2>1
    <2>3. CASE CrashloopingPods(s)
      <3>1. Silent(o, 4) /\ Rule(o, 4)[1]
        BY <1>1, <2>2, <2>3, Places DEF Silent
      <3>2. StubDiagnose(o) = "crash-loop"
        BY <1>2, <1>4, <3>1
      <3>3. QED
        BY <1>5, <1>6, <3>2 DEF MisreadAs, t
    <2>4. CASE ~CrashloopingPods(s)
      <3>1. s.network = {}
        BY <2>1 DEF t
      <3>2. \A i \in 1..13 : ~Rule(o, i)[1]
        <4>1. /\ ~Rule(o, 4)[1] /\ ~Rule(o, 5)[1] /\ ~Rule(o, 6)[1]
              /\ ~Rule(o, 7)[1] /\ ~Rule(o, 8)[1] /\ ~Rule(o, 9)[1]
              /\ ~Rule(o, 10)[1] /\ ~Rule(o, 11)[1] /\ ~Rule(o, 12)[1]
              /\ ~Rule(o, 13)[1]
          BY <1>1, <2>1, <2>4, <3>1
        <4>2. QED
          BY <2>2, <4>1, Places
      <3>3. StubDiagnose(o) = NoAnomaly
        BY <3>2, RulesInOrder
      <3>4. QED
        BY <1>5, <1>6, <3>3 DEF MisreadAs, t
    <2>5. QED
      BY <2>3, <2>4
  <1>7. CASE class = "network-partition"
    <2>1. t = "orders" /\ s.network = {} /\ Slow(s)
      BY <1>7, TargetsOf DEF Faint, t
    <2>2. /\ ~Rule(o, 1)[1] /\ ~Rule(o, 2)[1] /\ ~Rule(o, 3)[1]
          /\ ~Rule(o, 4)[1] /\ ~Rule(o, 5)[1] /\ ~Rule(o, 6)[1]
          /\ ~Rule(o, 7)[1] /\ ~Rule(o, 8)[1] /\ Rule(o, 9)[1]
      BY <1>7, <1>1, <1>3, <2>1
    <2>3. Silent(o, 9)
      BY <2>2, Places DEF Silent
    <2>4. StubDiagnose(o) = "network-latency"
      BY <1>2, <1>4, <2>2, <2>3
    <2>5. QED
      BY <1>5, <1>7, <2>4 DEF MisreadAs, t
  <1>8. QED
    BY <1>6, <1>7 DEF Faint

(* And none when there is none.                                            *)
LEMMA NothingNamed ==
    ASSUME NEW t, NEW s, s.network # {} => t = "orders",
           OwnTroubleOnly("none", s), AtRest(t, s)
    PROVE  StubResult(t, s) = NoAnomaly
  <1> DEFINE o == QueryPrometheus(t, s)
  <1>1. /\ ~Rule(o, 1)[1] /\ ~Rule(o, 2)[1] /\ ~Rule(o, 3)[1]
        /\ ~Rule(o, 4)[1] /\ ~Rule(o, 5)[1] /\ ~Rule(o, 6)[1]
    BY RulesRead DEF OwnTroubleOnly, AtRest
  <1>2. s.network = {}
    BY DEF AtRest
  <1>3. ~Rule(o, 7)[1] /\ ~Rule(o, 8)[1]
    BY <1>2, RulesRead
  <1>4. ~Rule(o, 9)[1] /\ ~Rule(o, 10)[1] /\ ~Rule(o, 11)[1]
        /\ ~Rule(o, 12)[1] /\ ~Rule(o, 13)[1]
    BY RulesRead DEF AtRest
  <1> HIDE DEF o
  <1>5. \A i \in 1..13 : ~Rule(o, i)[1]
    BY <1>1, <1>3, <1>4, Places
  <1>6. StubDiagnose(o) = NoAnomaly
    BY <1>5, RulesInOrder
  <1>7. t = "catalogue" => ~Overloaded(s)
    BY DEF AtRest
  <1>8. t \in DL_DETECTOR_SERVICES => ~CallDlDetector(s)
    BY DEF AtRest
  <1>9. QED
    BY <1>6, <1>7, <1>8 DEF StubResult, Overloaded, o

-----------------------------------------------------------------------------
Healthy == Handlers /\ Target /\ Bills

LEMMA InitHealthy == Init => Healthy
  <1> SUFFICES ASSUME Init PROVE Healthy
    OBVIOUS
  <1>1. Handlers
    <2>1. ASSUME NEW c \in Callers
          PROVE  Good(c, load, Idle) /\ Fixed(load, Idle)
      BY IdleGood, IdleStage, UnactedFixed
    <2>2. \A c \in Callers : Idle \in Job(load)
      BY <2>1 DEF Good
    <2>3. job \in [Callers -> Job(load)]
      BY <2>2 DEF Init
    <2>4. QED
      BY <2>1, <2>3 DEF Handlers, Init
  <1>2. Target
    BY DEF Target, Init, Injected, Levels, OOM_BASELINE_MEMORY_LIMIT
  <1>3. \A c \in Callers : ~Waiting(job[c])
    BY IdleStage DEF Waiting, Init
  <1>4. Spending = {} /\ \A e : OnTheWire(e) = {}
    <2>1. Spending = {}
      BY <1>3, SpendingNow
    <2>2. ASSUME NEW e PROVE OnTheWire(e) = {}
      BY <1>3, OnWire
    <2>3. QED
      BY <2>1, <2>2
  <1>5. /\ Cardinality({}) = 0 /\ Cardinality(Agents) \in Nat
        /\ Cardinality(Callers) \in Nat /\ NeuronCost \in Nat /\ Budget \in Nat
        /\ work.time \in Nat
        /\ \A e \in Limited : Chain[e].limit \in Nat /\ Chain[e].limit > 0
    BY FS_EmptySet, Threads, ChainAssumption, WorkloadAssumption
       DEF Init, work, Limited
  <1>6. Counters
    BY <1>5 DEF Init, Counters
  <1>7. Charged /\ Admitted /\ Posted
    <2>1. ASSUME NEW e \in Limited
          PROVE  /\ sent[e] <= Posts(e) * (calls[e] + lost[e])
                               + Cardinality(OnTheWire(e))
                               + Cardinality(OnTheWire(e) \cap again)
                 /\ calls[e] + Cardinality(OnTheWire(e))
                       <= Chain[e].limit + Cardinality(Callers) - 1
      <3>1. /\ sent[e] = 0 /\ calls[e] = 0 /\ lost[e] = 0
            /\ Cardinality(OnTheWire(e)) = 0
            /\ Cardinality(OnTheWire(e) \cap again) = 0
        BY <1>4, <1>5 DEF Init
      <3>2. Posts(e) * (calls[e] + lost[e]) = 0
        BY <3>1 DEF Posts
      <3>3. QED
        BY <1>5, <3>1, <3>2
    <2>2. QED
      BY <2>1 DEF Charged, Admitted, Posted, Init
  <1>8. Reserved
    BY <1>4, <1>5 DEF Init, Reserved
  <1>9. Cooling
    <2> SUFFICES ASSUME NEW e \in Entries
                 PROVE  /\ refused[e] > 0 => IsMarkedExhausted(e)
                        /\ refused[e] + Cardinality(OnTheWire(e))
                              <= Cardinality(Agents)
      BY DEF Cooling
    <2>1. refused[e] = 0 /\ Cardinality(OnTheWire(e)) = 0
      BY <1>4, <1>5 DEF Init
    <2>2. QED
      BY <1>5, <2>1
  <1>10. QED
    BY <1>1, <1>2, <1>6, <1>7, <1>8, <1>9 DEF Healthy, Bills

LEMMA NextHealthy == Healthy /\ [Next]_vars => Healthy'
  <1> SUFFICES ASSUME Handlers, Target, Bills, [Next]_vars
               PROVE  Handlers' /\ Target' /\ Bills'
    BY DEF Healthy
  <1>a. \A c \in Agents : c \in Callers
    BY DEF Callers
  <1>s. \A c \in Samplers : c \in Callers
    BY DEF Callers
  <1>k. ASSUME NEW c \in Callers, UNCHANGED <<quota, history>>,
               \E n : Becomes(c, n) /\ ~Waiting(n) /\ ~Waiting(job[c])
        PROVE  Handlers' /\ Bills'
    <2>1. PICK n : Becomes(c, n) /\ ~Waiting(n) /\ ~Waiting(job[c])
      BY <1>k
    <2>2. UNCHANGED <<quota, history, load>>
      BY <1>k, <2>1 DEF Becomes
    <2>3. QED
      BY <2>1, <2>2, HandlerBecomes, WireKept, BillsKept
  <1>1. ASSUME NEW c \in Callers, Ask(c) PROVE Handlers' /\ Target' /\ Bills'
    <2>1. live' = live
      BY <1>1 DEF Ask
    <2>2. QED
      BY <1>1, <2>1, AskStep DEF Target
  <1>2. ASSUME NEW c \in Callers, Answer(c) PROVE Handlers' /\ Target' /\ Bills'
    <2>1. live' = live
      BY <1>2 DEF Answer
    <2>2. QED
      BY <1>2, <2>1, AnswerStep DEF Target
  <1>p. ASSUME NEW c \in Callers, PostAgain(c) \/ Undecodable(c)
        PROVE  Handlers' /\ Target' /\ Bills'
    <2>1. live' = live
      BY <1>p DEF PostAgain, Undecodable
    <2>2. QED
      BY <1>p, <2>1, PostAgainStep, UndecodableStep DEF Target
  <1>3. ASSUME NEW a \in Agents, StartDiagnose(a)
        PROVE  Handlers' /\ Target' /\ Bills'
    <2>1. live' = live /\ UNCHANGED <<quota, history>>
      BY <1>3 DEF StartDiagnose
    <2>2. QED
      BY <1>3, <1>a, <1>k, <2>1, StartDiagnoseStep DEF Target
  <1>4. ASSUME NEW a \in Agents, EndDiagnose(a) \/ EndAct(a)
        PROVE  Handlers' /\ Target' /\ Bills'
    <2>1. live' = live /\ UNCHANGED <<quota, history>>
      BY <1>4 DEF EndDiagnose, EndAct
    <2>2. QED
      BY <1>4, <1>a, <1>k, <2>1, EndStep DEF Target
  <1>5. ASSUME NEW a \in Agents, StartAct(a)
        PROVE  Handlers' /\ Target' /\ Bills'
    <2>1. live' = live /\ UNCHANGED <<quota, history>>
      BY <1>5 DEF StartAct
    <2>2. QED
      BY <1>5, <1>a, <1>k, <2>1, StartActStep DEF Target
  <1>6. ASSUME NEW a \in Agents, Act(a) PROVE Handlers' /\ Target' /\ Bills'
    <2>1. UNCHANGED <<quota, history>>
      BY <1>6 DEF Act
    <2>2. QED
      BY <1>6, <1>a, <1>k, <2>1, ActStep
  <1>7. ASSUME NEW a \in Agents, Judge(a) PROVE Handlers' /\ Target' /\ Bills'
    <2>1. live' = live /\ UNCHANGED <<quota, history>>
      BY <1>7 DEF Judge
    <2>2. QED
      BY <1>7, <1>a, <1>k, <2>1, JudgeStep DEF Target
  <1>8. ASSUME NEW s \in Samplers, StartSample(s)
        PROVE  Handlers' /\ Target' /\ Bills'
    <2>1. live' = live /\ UNCHANGED <<quota, history>>
      BY <1>8 DEF StartSample
    <2>2. QED
      BY <1>8, <1>s, <1>k, <2>1, StartSampleStep DEF Target
  <1>9. CASE Tick
    <2>1. live' = live
      BY <1>9 DEF Tick
    <2>2. QED
      BY <1>9, <2>1, TickStep DEF Target
  <1>10. CASE Crash
    <2>1. live' = live
      BY <1>10 DEF Crash
    <2>2. QED
      BY <1>10, <2>1, CrashStep DEF Target
  <1>o. ASSUME job' = job, load' = load, UNCHANGED <<quota, history>>
        PROVE  Handlers' /\ Bills'
    <2>1. Handlers'
      BY <1>o DEF Handlers
    <2>2. Spending' = Spending
      BY <1>o, SpendingNow, SpendingNext
    <2>3. ASSUME NEW e PROVE OnTheWire(e)' = OnTheWire(e)
      BY <1>o, OnWire, OnWireNext
    <2>4. QED
      BY <1>o, <2>1, <2>2, <2>3, BillsKept
  <1>11. CASE LateFix
    <2>1. PICK resized \in BOOLEAN :
             live' = Applied(live, ACTION_MAP[work.actual], resized)
      BY <1>11 DEF LateFix
    <2>2. /\ work.actual \in AutoFixClasses /\ job' = job /\ load' = load
          /\ UNCHANGED <<quota, history>>
      BY <1>11 DEF LateFix
    <2>3. Target'
      BY <2>1, <2>2, FixedSized, AppliedTarget
    <2>4. QED
      BY <1>o, <2>2, <2>3
  <1>12. CASE UNCHANGED vars
    <2>1. live' = live /\ job' = job /\ load' = load /\ UNCHANGED <<quota, history>>
      BY <1>12 DEF vars
    <2>2. QED
      BY <1>o, <2>1 DEF Target
  <1>13. CASE AllServed
    BY <1>12, <1>13 DEF AllServed
  <1>14. QED
    BY <1>1, <1>2, <1>p, <1>3, <1>4, <1>5, <1>6, <1>7, <1>8, <1>9, <1>10,
       <1>11, <1>12, <1>13 DEF Next

LEMMA HealthyInvariant == Spec => []Healthy
  BY InitHealthy, NextHealthy, PTL DEF Spec

\* What is charged and what is on the wire together keep the pool.
LEMMA HealthyIsAgentInv == Healthy => AgentInv
  <1> SUFFICES ASSUME Healthy PROVE AgentInv
    OBVIOUS
  <1>0. Handlers /\ Target /\ Bills
    BY DEF Healthy
  <1>j. ASSUME NEW c \in Callers
        PROVE  job[c] \in Job(load) /\ Fits(c, job[c]) /\ Good(c, load, job[c])
    BY <1>0 DEF Handlers, Good
  <1>1. TypeOK
    <2>1. ASSUME NEW e \in Entries PROVE Cardinality(marks[e]) <= 1
      <3>1. marks[e] = {} \/ \E m \in Mark : marks[e] = {m}
        BY <1>0 DEF Bills, Counters
      <3>2. Cardinality({}) = 0 /\ \A m : Cardinality({m}) = 1
        BY FS_EmptySet, FS_Singleton
      <3>3. Cardinality(marks[e]) \in {0, 1}
        BY <3>1, <3>2
      <3>4. QED
        BY <3>3
    <2>2. ASSUME NEW c \in Callers
          PROVE  /\ job[c].stage \in {"idle", "react", "diagnosed", "propose",
                                      "proposed", "acted", "judged", "sample"}
                 /\ job[c].wire \in BOOLEAN /\ job[c].i \in Entries
                 /\ job[c].turn \in 1..MAX_TURNS /\ job[c].failures \in 0..1
                 /\ job[c].by \in 0..Len(Chain)
                 /\ job[c].credit \in {None, "right", "wrong"}
      BY <1>j DEF Job, Stages
    <2>3. ASSUME NEW c \in Callers
          PROVE  job[c].stage = "sample" <=> (c \in Samplers /\ Calling(c))
      BY <1>j DEF Fits, Calling, Callers
    <2>4. live \in [memory : Nat, cpu : Nat, replicas : Nat]
      BY <1>0 DEF Target, Levels
    <2>5. QED
      BY <1>0, <2>1, <2>2, <2>3, <2>4 DEF TypeOK, Bills, Counters
  <1>2. PoolHolds
    <2>1. /\ neurons + Cardinality(Spending) * NeuronCost <= Budget
          /\ Cardinality(Spending) * NeuronCost \in Nat
          /\ neurons \in Nat /\ Budget \in Nat
      BY <1>0, AgentsSpend, AgentsAfford, ChainAssumption
         DEF Bills, Reserved, Counters
    <2>2. QED
      BY <2>1 DEF PoolHolds
  <1>3. RefusalsBounded
    <2> SUFFICES ASSUME NEW e \in Entries, Chain[e].provider = "cloudflare"
                 PROVE  refused[e] <= Cardinality(Agents)
      BY DEF RefusalsBounded
    <2>1. /\ refused[e] + Cardinality(OnTheWire(e)) <= Cardinality(Agents)
          /\ refused[e] \in Nat /\ Cardinality(OnTheWire(e)) \in Nat
          /\ Cardinality(Agents) \in Nat
      BY <1>0, WireCounts, Threads DEF Bills, Cooling, Counters
    <2>2. QED
      BY <2>1
  <1>4. FreshTranscript
    <2>1. \A a \in Agents : OwnTurns(job[a])
      BY <1>j DEF Good, Callers
    <2>2. QED
      BY <2>1 DEF FreshTranscript, OwnTurns
  <1>5. ProposalBounded
    <2> SUFFICES ASSUME NEW a \in Agents, job[a].stage \in {"propose", "proposed"}
                 PROVE  /\ job[a].cost <= 3
                        /\ job[a].stage = "propose" =>
                              job[a].i \in {job[a].by, job[a].by + 1}
      BY DEF ProposalBounded
    <2>1. a \in Callers
      BY DEF Callers
    <2>2. CASE job[a].stage = "proposed"
      BY <1>j, <2>1, <2>2 DEF Good
    <2>3. CASE job[a].stage = "propose"
      <3>1. Fits(a, job[a]) /\ job[a].cost \in Nat /\ job[a].try \in Nat
        BY <1>j, <2>1 DEF Job
      <3>2. QED
        BY <2>3, <3>1 DEF Fits
    <2>4. QED
      BY <2>2, <2>3
  <1>6. HandlersFit
    BY <1>j DEF HandlersFit
  <1>7. OverrunBounded
    <2> SUFFICES ASSUME NEW e \in Limited
                 PROVE  sent[e] <= Posts(e) * (Chain[e].limit
                                               + Cardinality(Callers) - 1 + lost[e])
      BY DEF OverrunBounded
    <2>1. /\ sent[e] <= Posts(e) * (calls[e] + lost[e])
                        + Cardinality(OnTheWire(e)) + Cardinality(Twice(e))
          /\ calls[e] + Cardinality(OnTheWire(e))
                <= Chain[e].limit + Cardinality(Callers) - 1
      BY <1>0, ChargedTwice DEF Bills, Admitted
    <2>2. /\ Posts(e) \in {1, 2}
          /\ Posts(e) = 1 => Cardinality(Twice(e)) = 0
          /\ Cardinality(Twice(e)) \in Nat /\ Cardinality(OnTheWire(e)) \in Nat
          /\ Cardinality(Twice(e)) <= Cardinality(OnTheWire(e))
      BY <1>0, TwiceIsGemini, TwiceCounts, WireCounts DEF Bills
    <2>3. /\ calls[e] \in Nat /\ lost[e] \in Nat /\ sent[e] \in Nat
          /\ Chain[e].limit \in Nat /\ Cardinality(Callers) \in Nat
      BY <1>0, Threads, ChainAssumption DEF Bills, Counters, Limited
    <2>4. CASE Posts(e) = 1
      BY <2>1, <2>2, <2>3, <2>4
    <2>5. CASE Posts(e) = 2
      BY <2>1, <2>2, <2>3, <2>5
    <2>6. QED
      BY <2>2, <2>4, <2>5
  <1>8. QED
    BY <1>0, <1>1, <1>2, <1>3, <1>4, <1>5, <1>6, <1>7 DEF AgentInv, Bills

(* AgentInvariant: for any number of threads, any chain of providers and any *)
(* daily limit, the quotas bound what the threads spend although they check  *)
(* before a call and charge after it, a Gemini call may post twice for one   *)
(* charge and an exception loses the charge; transcripts and proposals stay  *)
(* apart (call_one, _call_gemini, run_react_diagnosis, propose_action).      *)
THEOREM AgentInvariant == Spec => []AgentInv
  BY HealthyInvariant, HealthyIsAgentInv, PTL

(* TheRightFixRuns: whatever classes the stub and the models name, whatever  *)
(* parameters they propose and whatever the readings are, the tool that runs *)
(* is the real class's and a fix sized by a model is enough                  *)
(* (/act, _dispatch_with_gate, check_safe).                                  *)
THEOREM TheRightFixRuns == Spec => []RightFixRuns
  <1>1. Healthy => RightFixRuns
    <2> SUFFICES ASSUME Healthy, NEW a \in Agents
                 PROVE  /\ job[a].ran # NoCall /\ work.actual \in AutoFixClasses =>
                              job[a].ran.tool = ACTION_MAP[work.actual].tool
                        /\ Adequate(job[a])
      BY DEF RightFixRuns, OnlyTheRealFixRuns, LlmFixIsAdequate, Adequate
    <2>1. Fixed(load, job[a])
      BY DEF Healthy, Handlers, Callers
    <2>2. QED
      BY <2>1 DEF Fixed, work
  <1>2. QED
    BY <1>1, HealthyInvariant, PTL

(* TheBarStaysPut: the verdict on a memory or replica proposal is the one the*)
(* diagnosis' own readings give, whichever fixes have changed the target     *)
(* since (action_is_correct, check_safe).                                    *)
THEOREM TheBarStaysPut == Spec => []FixDoesNotMoveTheBar
  <1>1. Healthy => FixDoesNotMoveTheBar
    <2> SUFFICES ASSUME Healthy, NEW a \in Agents, job[a].credit # None,
                        job[a].offer.tool # "patch_cpu_limit"
                 PROVE  JudgedFairly(job[a])
      BY DEF FixDoesNotMoveTheBar
    <2>1. Fixed(load, job[a])
      BY DEF Healthy, Handlers, Callers
    <2>2. QED
      BY <2>1 DEF Fixed, JudgedFairly, work
  <1>2. QED
    BY <1>1, HealthyInvariant, PTL

(* HintsAgree: for any frozen reading of any target, the class the loop's own*)
(* copy of the thresholds puts into a transcript is the one the stub's rules *)
(* name (_numeric_threshold_hit, stub_diagnose, query_prometheus).           *)
THEOREM HintsAgree == Spec => []HintAgreesWithStub
  <1>1. Healthy => HintAgreesWithStub
    <2> SUFFICES ASSUME Healthy, NEW a \in Agents, job[a].hint # NoAnomaly,
                        work.frozen
                 PROVE  job[a].stub = job[a].hint
      BY DEF HintAgreesWithStub
    <2>1. Told(load, job[a]) /\ load \in DOMAIN Workloads
      BY DEF Healthy, Handlers, Good, Callers
    <2>2. PICK s \in work.readings :
             /\ job[a].stub = StubResult(work.target, s)
             /\ job[a].hint = Hint(QueryPrometheus(work.target, s))
      BY <2>1 DEF Told, work
    <2>3. s.network # {} => work.target = "orders"
      BY <2>1, WorkloadAssumption DEF work
    <2>4. QED
      BY <2>2, <2>3, HintIsStub
  <1>2. QED
    BY <1>1, HealthyInvariant, PTL

(* TheFaultIsNamed: once the metrics have caught up, the rules name the      *)
(* injected class from any reading that shows it, whatever the metrics of    *)
(* the other services and the later rules say, and no class for a target at  *)
(* rest; an old OOM kill and a partition seen without the probe they misread *)
(* (stub_diagnose, query_prometheus, the fallbacks of /diagnose).            *)
THEOREM TheFaultIsNamed == Spec => []StubNamesTheFault
  <1>1. Healthy => StubNamesTheFault
    <2> SUFFICES ASSUME Healthy, NEW a \in Agents, job[a].stage # "idle",
                        work.settled
                 PROVE  IF work.faint THEN job[a].stub \in MisreadAs(work.actual)
                        ELSE DiagnosisMatches(job[a].stub, work.actual)
      BY DEF StubNamesTheFault
    <2>1. Told(load, job[a]) /\ load \in DOMAIN Workloads
      BY DEF Healthy, Handlers, Good, Callers
    <2>2. job[a].stage # "sample"
      BY DEF Healthy, Handlers, Good, Fits, Callers
    <2>3. PICK s \in work.readings : job[a].stub = StubResult(work.target, s)
      BY <2>1, <2>2 DEF Told, work
    <2>4. s.network # {} => work.target = "orders"
      BY <2>1, WorkloadAssumption DEF work
    <2>5. /\ work.actual \in FaultClasses \cup {"none"}
          /\ work.actual \in FaultClasses =>
                work.target = FaultTarget[work.actual]
          /\ OwnTroubleOnly(work.actual, s)
          /\ IF work.actual = "none" THEN AtRest(work.target, s) /\ ~work.faint
             ELSE IF work.faint THEN Faint(work.actual, s)
             ELSE Shows(work.actual, s)
      BY <2>1, SettledAssumption DEF work
    <2>6. CASE work.actual = "none"
      <3>1. StubResult(work.target, s) = NoAnomaly
        BY <2>4, <2>5, <2>6, NothingNamed
      <3>2. ~work.faint
        BY <2>5, <2>6
      <3>3. QED
        BY <2>3, <2>6, <3>1, <3>2 DEF DiagnosisMatches
    <2>7. CASE work.actual # "none" /\ ~work.faint
      <3>1. StubResult(work.target, s) = work.actual
        BY <2>4, <2>5, <2>7, FaultNamed
      <3>2. QED
        BY <2>3, <2>7, <3>1 DEF DiagnosisMatches
    <2>8. CASE work.actual # "none" /\ work.faint
      <3>1. StubResult(work.target, s) \in MisreadAs(work.actual)
        BY <2>4, <2>5, <2>8, FaultMisread
      <3>2. QED
        BY <2>3, <2>8, <3>1
    <2>9. QED
      BY <2>6, <2>7, <2>8
  <1>2. QED
    BY <1>1, HealthyInvariant, PTL
=============================================================================
