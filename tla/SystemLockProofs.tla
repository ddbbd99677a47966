-------------------------- MODULE SystemLockProofs --------------------------
(***************************************************************************)
(* The lock protects every run that is younger than the staleness margin,  *)
(* for any number of injectors, any ceilings and any margin; and it fails  *)
(* to exclude only through a run whose ceiling exceeds the margin.         *)
(***************************************************************************)
EXTENDS SystemLock, TLAPS

\* A free or stale lock covers no run: what an acquisition needs.
LEMMA AvailableCoversNoRun ==
    ASSUME LockInv, Available
    PROVE  \A j \in Injectors : ~Covered(j)
  <1> SUFFICES ASSUME NEW j \in Injectors, Covered(j) PROVE FALSE
    OBVIOUS
  <1>1. holder = j /\ age = spent[j]
    BY DEF LockInv
  <1>2. spent[j] <= StaleAfter /\ spent[j] \in Nat /\ StaleAfter \in Nat
    BY SystemLockAssumption DEF LockInv, TypeOK, Covered
  <1> QED BY <1>1, <1>2, SystemLockAssumption DEF Available

LEMMA LockInit == Init => LockInv
  BY SystemLockAssumption DEF Init, LockInv, TypeOK, Covered

\* A step by which i stops running leaves every covered run its lock.
LEMMA LockLeave ==
    ASSUME LockInv, NEW i \in Injectors, NEW step \in {"idle", "waiting"},
           Goes(i, step), age' = age, kills' \in 0..KillBound,
           holder' = holder \/ (holder = i /\ holder' = NoOne)
    PROVE  LockInv'
  <1>1. TypeOK'
    BY SystemLockAssumption DEF LockInv, TypeOK, Goes
  <1>2. ASSUME NEW j \in Injectors, pc'[j] = "running"
        PROVE  /\ Covered(j)' => holder' = j /\ spent'[j] = age'
               /\ spent'[j] <= Ceiling[j]
    <2>1. j # i /\ pc[j] = "running" /\ spent'[j] = spent[j]
      BY <1>2 DEF LockInv, TypeOK, Goes
    <2> QED BY <2>1 DEF LockInv, Covered
  <1> QED BY <1>1, <1>2 DEF LockInv, Covered

\* Whoever acquires is the one covered run.
LEMMA LockAcquire ==
    ASSUME LockInv, NEW i \in Injectors, AcquireSystemLock(i)
    PROVE  LockInv'
  <1>1. \A j \in Injectors : ~Covered(j)
    BY AvailableCoversNoRun DEF AcquireSystemLock
  <1>2. TypeOK'
    BY SystemLockAssumption DEF LockInv, TypeOK, AcquireSystemLock, Goes
  <1>3. ASSUME NEW j \in Injectors, j # i
        PROVE  pc'[j] = pc[j] /\ spent'[j] = spent[j]
    BY <1>3 DEF LockInv, TypeOK, AcquireSystemLock, Goes
  <1>4. /\ holder' = i /\ age' = 0 /\ spent'[i] = 0
        /\ Ceiling[i] \in Nat
    BY SystemLockAssumption DEF LockInv, TypeOK, AcquireSystemLock, Goes
  <1>5. ASSUME NEW j \in Injectors
        PROVE  /\ Covered(j)' => holder' = j /\ spent'[j] = age'
               /\ pc'[j] = "running" => spent'[j] <= Ceiling[j]
    <2>1. CASE j = i
      BY <2>1, <1>4
    <2>2. CASE j # i
      BY <2>2, <1>1, <1>3 DEF LockInv, Covered
    <2> QED BY <2>1, <2>2
  <1> QED BY <1>2, <1>5 DEF LockInv

\* A covered run and its lock grow old together.
LEMMA LockTick == ASSUME LockInv, Tick PROVE LockInv'
  <1>1. TypeOK'
    BY SystemLockAssumption DEF LockInv, TypeOK, Tick
  <1>2. ASSUME NEW j \in Injectors, pc'[j] = "running"
        PROVE  /\ Covered(j)' => holder' = j /\ spent'[j] = age'
               /\ spent'[j] <= Ceiling[j]
    <2>1. pc[j] = "running" /\ spent[j] < Ceiling[j] /\ holder' = holder
      BY <1>2 DEF Tick
    <2>2. spent'[j] = spent[j] + 1
      BY <2>1 DEF LockInv, TypeOK, Tick
    <2>3. spent[j] \in Nat /\ Ceiling[j] \in Nat /\ StaleAfter \in Nat
      BY SystemLockAssumption DEF LockInv, TypeOK
    <2>4. spent'[j] <= Ceiling[j]
      BY <2>1, <2>2, <2>3
    <2>5. ASSUME Covered(j)' PROVE holder' = j /\ spent'[j] = age'
      <3>1. spent[j] <= StaleAfter
        BY <2>5, <2>2, <2>3 DEF Covered
      <3>2. holder = j /\ spent[j] = age
        BY <3>1, <2>1 DEF LockInv, Covered
      <3>3. age' = age + 1
        BY <3>1, <3>2 DEF Tick
      <3> QED BY <3>2, <3>3, <2>1, <2>2
    <2> QED BY <2>4, <2>5
  <1> QED BY <1>1, <1>2 DEF LockInv, Covered

LEMMA LockStep == LockInv /\ [Next]_vars => LockInv'
  <1> SUFFICES ASSUME LockInv, [Next]_vars PROVE LockInv'
    OBVIOUS
  <1>0. kills \in 0..KillBound
    BY DEF LockInv, TypeOK
  <1>1. ASSUME NEW i \in Injectors, Begin(i) PROVE LockInv'
    BY <1>0, <1>1, LockLeave DEF Begin
  <1>2. ASSUME NEW i \in Injectors, AcquireSystemLock(i) PROVE LockInv'
    BY <1>2, LockAcquire
  <1>3. ASSUME NEW i \in Injectors, GiveUp(i) PROVE LockInv'
    BY <1>0, <1>3, LockLeave DEF GiveUp
  <1>4. ASSUME NEW i \in Injectors, ReleaseSystemLock(i) PROVE LockInv'
    BY <1>0, <1>4, LockLeave DEF ReleaseSystemLock
  <1>5. ASSUME NEW i \in Injectors, Terminate(i) PROVE LockInv'
    BY <1>0, <1>5, LockLeave DEF Terminate
  <1>6. ASSUME NEW i \in Injectors, Dies(i) PROVE LockInv'
    <2>1. kills' \in 0..KillBound
      BY <1>0, <1>6, SystemLockAssumption DEF Dies
    <2> QED BY <2>1, <1>6, LockLeave DEF Dies
  <1>7. CASE Tick
    BY <1>7, LockTick
  <1>8. CASE UNCHANGED vars
    BY <1>8 DEF vars, LockInv, TypeOK, Covered
  <1> QED BY <1>1, <1>2, <1>3, <1>4, <1>5, <1>6, <1>7, <1>8 DEF Next, Step

\* A run that is not yet older than the margin holds the lock, which is
\* exactly as old as the run, whatever the ceilings and whoever dies.
THEOREM LockInvariant == Spec => []LockInv
  BY LockInit, LockStep, PTL DEF Spec

\* Hence two injectors never run together unless one of them has outlasted
\* SYSTEM_LOCK_STALE_S: the guarantee of _acquire_system_lock.
THEOREM MarginExclusion == Spec => []ExclusionWithinMargin
  <1>1. LockInv => ExclusionWithinMargin
    BY DEF LockInv, ExclusionWithinMargin
  <1> QED BY <1>1, LockInvariant, PTL

\* And that one is a run with a ceiling above the margin, so in the code no
\* two injectors overlap unless one of them is a live cpu-throttling run.
THEOREM Overlap == Spec => []OverlapTakesASlowRun
  <1>1. LockInv => OverlapTakesASlowRun
    <2> SUFFICES ASSUME LockInv, NEW i \in Injectors, NEW j \in Injectors,
                        pc[i] = "running", pc[j] = "running", i # j
                 PROVE  \E k \in {i, j} \cap Slow : spent[k] > StaleAfter
      BY DEF OverlapTakesASlowRun
    <2>1. PICK k \in {i, j} : ~Covered(k)
      BY DEF LockInv
    <2>2. spent[k] \in Nat /\ Ceiling[k] \in Nat /\ StaleAfter \in Nat
      BY SystemLockAssumption DEF LockInv, TypeOK
    <2>3. spent[k] > StaleAfter /\ spent[k] <= Ceiling[k]
      BY <2>1, <2>2 DEF Covered, LockInv
    <2>4. k \in Slow
      BY <2>2, <2>3 DEF Slow
    <2> QED BY <2>3, <2>4
  <1> QED BY <1>1, LockInvariant, PTL

\* A lock is taken from a running holder only when it is stale; in
\* particular _release_system_lock of a run that lost it frees nothing.
THEOREM OnlyStale == Spec => OnlyStaleLocksAreTaken
  <1>1. ASSUME LockInv, [Next]_vars
        PROVE  [\A i \in Injectors :
                   holder = i /\ pc[i] = "running" /\ pc'[i] = "running"
                   /\ holder' # i => age > StaleAfter]_vars
    <2> SUFFICES ASSUME Next, NEW i \in Injectors, holder = i,
                        pc'[i] = "running", holder' # i
                 PROVE  age > StaleAfter
      BY <1>1
    <2>1. ASSUME NEW j \in Injectors, AcquireSystemLock(j)
          PROVE  age > StaleAfter
      BY <2>1, SystemLockAssumption DEF AcquireSystemLock, Available
    <2>2. ASSUME NEW j \in Injectors, ReleaseSystemLock(j) PROVE FALSE
      BY <2>2, <1>1 DEF ReleaseSystemLock, Goes, LockInv, TypeOK
    <2>3. ASSUME NEW j \in Injectors, Begin(j) \/ GiveUp(j) \/ Terminate(j)
                                         \/ Dies(j)
          PROVE  FALSE
      BY <2>3 DEF Begin, GiveUp, Terminate, Dies
    <2>4. ~Tick
      BY DEF Tick
    <2> QED BY <2>1, <2>2, <2>3, <2>4 DEF Next, Step
  <1> QED BY <1>1, LockInvariant, PTL DEF Spec, OnlyStaleLocksAreTaken
=============================================================================
