----------------------------- MODULE LockProofs -----------------------------
(***************************************************************************)
(* Proofs about locks.cc for any set of threads, any n and any number of   *)
(* trials.  First the benchmark, whatever the mutex class is: what the     *)
(* counter and the set of executed increments have to do with each other,  *)
(* what the validation sees, and how the abstract holder follows from the  *)
(* labels of the workers.  Then SpinLock, with any choice of the           *)
(* implementations: mutual exclusion, no lost update of the counter, and   *)
(* the implementation of Mutex.  Then QueueLock, with any size of the      *)
(* queue, one that is too small included: who owns the inner mutex and the *)
(* lock through every hand-over, where the sleeping threads are, and the   *)
(* implementation of Mutex.                                                *)
(***************************************************************************)
EXTENDS SpinLock, QueueLock, FiniteSetTheorems, TLAPS

\* n_per_thread is a natural number: there is at least one thread.
LEMMA NPerThreadNat == NPerThread \in Nat
<1>1. NumThreads \in Nat /\ NumThreads # 0
  BY LockBenchAssumption, FS_CardinalityType, FS_EmptySet DEF NumThreads
<1> QED
  BY <1>1, LockBenchAssumption DEF NPerThread

\* A trial that is under way is one of the NumTrials.
TrialBound == phase \in {"spawn", "sync"} => trial < NumTrials

\* What the holder is about to store is one more than what is in memory.
LoadedIsCurrent == \A t \in Threads : pc[t] = "store" => reg[t] = counter

-----------------------------------------------------------------------------
(* Counting increments *)

\* The set of executed increments changes with the counter, and only with it.
Kept == Increments' = Increments /\ counter' = counter
Added(t) == /\ <<t, iter[t]>> \notin Increments
            /\ Increments' = Increments \cup {<<t, iter[t]>>}
            /\ counter' = counter + 1
Cleared == Increments' = {} /\ counter' = 0

\* The counter counts the increments, of which there are finitely many.
Counted == IsFiniteSet(Increments) /\ NoLostUpdate

\* Whatever the mutex does, it keeps the count as long as each of its steps
\* keeps the increments, adds one or clears them all.
LEMMA CountedStep ==
    ASSUME Counted, Kept \/ Cleared \/ \E t \in Threads : Added(t)
    PROVE  Counted'
<1>1. CASE Kept
  BY <1>1 DEF Kept, Counted, NoLostUpdate
<1>2. CASE Cleared
  BY <1>2, FS_EmptySet DEF Cleared, Counted, NoLostUpdate
<1>3. ASSUME NEW t \in Threads, Added(t) PROVE Counted'
  BY <1>3, FS_AddElement DEF Added, Counted, NoLostUpdate
<1> QED
  BY <1>1, <1>2, <1>3

-----------------------------------------------------------------------------
(* What the validation of run_test sees *)

\* The quotient leaves a remainder exactly when num_threads does not divide n.
LEMMA DivideExactly ==
    ASSUME NEW n \in Nat, NEW d \in Nat \ {0}
    PROVE  d * (n \div d) # n <=> n % d # 0
<1>1. n = d * (n \div d) + (n % d)
  OBVIOUS
<1>2. d * (n \div d) \in Nat /\ n % d \in Nat
  OBVIOUS
<1> QED
  BY <1>1, <1>2

\* A worker is done when it has used up its iterations, and the trials so far
\* have reported what ValidationExact says.
Judged == /\ \A t \in Threads : pc[t] = "done" => iter[t] = NPerThread
          /\ trial = 0 => ~mismatch
          /\ ValidationExact

\* When all workers are done the counter is num_threads * n_per_thread.
LEMMA FullCount ==
    ASSUME Counted, Judged, \A t \in Threads : pc[t] = "done"
    PROVE  counter = NumThreads * NPerThread
<1> USE NPerThreadNat, LockBenchAssumption
<1>1. Increments = Threads \X (0..NPerThread-1)
  BY DEF Judged, Increments
<1>2. IsFiniteSet(0..NPerThread-1) /\ Cardinality(0..NPerThread-1) = NPerThread
  BY FS_Interval
<1>3. Cardinality(Increments) = NumThreads * NPerThread
  BY <1>1, <1>2, FS_Product DEF NumThreads
<1> QED
  BY <1>3 DEF Counted, NoLostUpdate

\* The comparison at the end of a trial is true exactly if there is a remainder.
LEMMA SyncJudges ==
    ASSUME Counted, Judged, trial \in Nat, mismatch \in BOOLEAN, Sync
    PROVE  Judged'
<1> USE NPerThreadNat, LockBenchAssumption DEF Judged, ValidationExact
<1>1. counter = NumThreads * NPerThread
  BY FullCount DEF Sync
<1>2. NumThreads \in Nat \ {0}
  BY FS_CardinalityType, FS_EmptySet DEF NumThreads
<1>3. counter # N <=> N % NumThreads # 0
  BY <1>1, <1>2, DivideExactly DEF NPerThread
<1>4. mismatch' <=> N % NumThreads # 0
  <2>1. mismatch' = (mismatch \/ counter # N)
    BY DEF Sync
  <2>2. mismatch => N % NumThreads # 0
    <3>1. trial = 0 \/ trial > 0
      OBVIOUS
    <3> QED
      BY <3>1
  <2> QED
    BY <1>3, <2>1, <2>2
<1>5. trial' # 0 /\ \A t \in Threads : pc'[t] = "done" => iter'[t] = NPerThread
  BY DEF Sync
<1> QED
  BY <1>4, <1>5

-----------------------------------------------------------------------------
(* The refinement mapping *)

Updated == \E t \in Threads : pc[t] = "unlock"

\* Under mutual exclusion Holder is the thread in the critical section, and
\* whether it has updated the counter shows in its label.
LEMMA HolderOf ==
    ASSUME MutualExclusion
    PROVE  /\ \A t \in Threads : InCS(t) => Holder = t /\ (Updated <=> pc[t] = "unlock")
           /\ (\A t \in Threads : ~InCS(t)) => Holder = None /\ ~Updated
  BY DEF MutualExclusion, Holder, Updated, InCS

LEMMA HolderOfNext ==
    ASSUME MutualExclusion'
    PROVE  /\ \A t \in Threads : InCS(t)' => Holder' = t /\ (Updated' <=> pc'[t] = "unlock")
           /\ (\A t \in Threads : ~InCS(t)') => Holder' = None /\ ~Updated'
  BY DEF MutualExclusion, Holder, Updated, InCS

\* Nobody moves into, within or out of the critical section.
SamePlaces == \A t \in Threads : /\ InCS(t)' <=> InCS(t)
                                 /\ pc'[t] = "unlock" <=> pc[t] = "unlock"

\* A step that moves nobody there and keeps the counter is a stuttering step
\* of Mutex.
LEMMA SamePlacesStutters ==
    ASSUME MutualExclusion, MutualExclusion', SamePlaces, counter' = counter
    PROVE  UNCHANGED Promise!vars
<1>1. Updated' <=> Updated
  BY DEF Updated, SamePlaces
<1>2. Holder' = Holder
  <2>1. CASE \E t \in Threads : InCS(t)
    <3>1. PICK t \in Threads : InCS(t)
      BY <2>1
    <3> QED
      BY <3>1, HolderOf, HolderOfNext DEF SamePlaces
  <2>2. CASE \A t \in Threads : ~InCS(t)
    BY <2>2, HolderOf, HolderOfNext DEF SamePlaces
  <2> QED
    BY <2>1, <2>2
<1> QED
  BY <1>1, <1>2 DEF Updated, Promise!vars

\* lock() returns to a thread when nobody is in the critical section.
LEMMA EntryAcquires ==
    ASSUME MutualExclusion, MutualExclusion', NEW t \in Threads,
           \A u \in Threads : ~InCS(u), pc'[t] = "load", counter' = counter
    PROVE  Promise!Acquire(t)
<1>1. Holder = None /\ Holder' = t /\ ~Updated /\ ~Updated'
  BY HolderOf, HolderOfNext DEF InCS
<1> QED
  BY <1>1 DEF Promise!Acquire, Updated

\* The store of the holder.
LEMMA StoreUpdates ==
    ASSUME MutualExclusion, MutualExclusion', LoadedIsCurrent,
           NEW t \in Threads, Store(t), pc'[t] = "unlock"
    PROVE  Promise!Update(t)
<1>1. Holder = t /\ Holder' = t /\ ~Updated /\ Updated'
  BY HolderOf, HolderOfNext DEF InCS, Store
<1>2. counter' = counter + 1
  BY DEF Store, LoadedIsCurrent
<1> QED
  BY <1>1, <1>2 DEF Promise!Update, Updated

\* The step after which the holder is no longer in the critical section.
LEMMA ExitReleases ==
    ASSUME MutualExclusion, MutualExclusion', NEW t \in Threads,
           pc[t] = "unlock", \A u \in Threads : ~InCS(u)', counter' = counter
    PROVE  Promise!Release(t)
<1>1. Holder = t /\ Holder' = None /\ Updated /\ ~Updated'
  BY HolderOf, HolderOfNext DEF InCS
<1> QED
  BY <1>1 DEF Promise!Release, Updated

\* cilk_sync and the start of the next trial.
LEMMA SyncRestarts ==
    ASSUME MutualExclusion, MutualExclusion', Sync
    PROVE  [Promise!Restart]_(Promise!vars)
<1>1. \A t \in Threads : ~InCS(t) /\ ~InCS(t)'
  BY DEF Sync, InCS
<1>2. Holder = None /\ Holder' = None /\ ~Updated /\ ~Updated'
  BY <1>1, HolderOf, HolderOfNext
<1>3. counter' = 0 \/ counter' = counter
  BY DEF Sync
<1> QED
  BY <1>2, <1>3 DEF Promise!Restart, Promise!vars, Updated

\* Mutex starts free and at 0, as run_test does.
LEMMA BenchInitMapped == ASSUME BenchInit PROVE Promise!Init
<1>1. \A t \in Threads : pc[t] = "unborn"
  BY DEF BenchInit
<1>2. Holder = None /\ ~Updated
  BY <1>1 DEF Holder, Updated, InCS
<1> QED
  BY <1>2 DEF Promise!Init, Updated, BenchInit

-----------------------------------------------------------------------------
(* The spin mutexes *)

\* A thread that has not reached the end of its loop has iterations left, and
\* one that is about to enter the loop has done none too many.
SpinLoopBound == \A t \in Threads :
                    /\ pc[t] \in {"lock", "cas", "load", "store", "unlock"}
                          => iter[t] < NPerThread
                    /\ pc[t] = "unborn" => iter[t] = 0

\* The inductive invariant.
SpinInv == /\ SpinTypeOK
           /\ SpinLoopBound
           /\ TrialBound
           /\ MutualExclusion
           /\ LockedIffHeld
           /\ LoadedIsCurrent
           /\ Counted

-----------------------------------------------------------------------------

\* The invariant holds when run_test starts.
LEMMA SpinInvInit == SpinInit => SpinInv
<1> SUFFICES ASSUME SpinInit PROVE SpinInv
  OBVIOUS
<1> USE NPerThreadNat, LockBenchAssumption DEF SpinInit, BenchInit
<1>1. SpinTypeOK
  <2>1. phase \in {"spawn", "sync", "finished", "error"}
    OBVIOUS
  <2>2. trial \in 0..NumTrials
    OBVIOUS
  <2>3. iter \in [Threads -> 0..NPerThread]
    OBVIOUS
  <2>4. pc \in [Threads -> SpinLabels] /\ reg \in [Threads -> Nat]
    BY DEF SpinLabels
  <2>5. counter \in Nat /\ mismatch \in BOOLEAN /\ impl \in Impls /\ lock \in {0, 1}
    OBVIOUS
  <2> QED
    BY <2>1, <2>2, <2>3, <2>4, <2>5 DEF SpinTypeOK
<1>2. SpinLoopBound /\ TrialBound /\ MutualExclusion /\ LockedIffHeld /\ LoadedIsCurrent
  BY DEF SpinLoopBound, TrialBound, MutualExclusion, LockedIffHeld, LoadedIsCurrent, InCS
<1>3. Increments = {}
  BY DEF Increments
<1>4. Counted
  BY <1>3, FS_EmptySet DEF Counted, NoLostUpdate
<1> QED
  BY <1>1, <1>2, <1>4 DEF SpinInv

\* Each step keeps the types.
LEMMA SpinTypeStep == SpinTypeOK /\ SpinLoopBound /\ TrialBound /\ SpinNext => SpinTypeOK'
<1> SUFFICES ASSUME SpinTypeOK, SpinLoopBound, TrialBound, SpinNext PROVE SpinTypeOK'
  OBVIOUS
<1> USE NPerThreadNat, LockBenchAssumption DEF SpinTypeOK, SpinLabels, Goto
<1>1. ASSUME NEW t \in Threads, Spawn(t), UNCHANGED <<impl, lock>> PROVE SpinTypeOK'
  BY <1>1 DEF Spawn
<1>2. ASSUME NEW t \in Threads, Head(t), UNCHANGED <<impl, lock>> PROVE SpinTypeOK'
  BY <1>2 DEF Head
<1>3. ASSUME NEW t \in Threads, Load(t), UNCHANGED <<impl, lock>> PROVE SpinTypeOK'
  BY <1>3 DEF Load
<1>4. ASSUME NEW t \in Threads, Store(t), UNCHANGED <<impl, lock>> PROVE SpinTypeOK'
  BY <1>4 DEF Store
<1>5. ASSUME Sync, UNCHANGED <<impl, lock>> PROVE SpinTypeOK'
  BY <1>5 DEF Sync, TrialBound
<1>6. ASSUME NEW t \in Threads, Test(t) PROVE SpinTypeOK'
  BY <1>6 DEF Test
<1>7. ASSUME NEW t \in Threads, CasSucceeds(t) PROVE SpinTypeOK'
  BY <1>7 DEF CasSucceeds
<1>8. ASSUME NEW t \in Threads, CasFails(t) PROVE SpinTypeOK'
  BY <1>8 DEF CasFails
<1>9. ASSUME NEW t \in Threads, Unlock(t) PROVE SpinTypeOK'
  BY <1>9 DEF Unlock, Returned, SpinLoopBound
<1>10. CASE UNCHANGED spinVars
  BY <1>10 DEF spinVars, benchVars
<1> QED
  BY <1>1, <1>2, <1>3, <1>4, <1>5, <1>6, <1>7, <1>8, <1>9, <1>10
     DEF SpinNext, BenchStep, SpinStep, Spins, SpinStopped

\* The parts of the invariant that say who is where in the code.
Core == SpinLoopBound /\ TrialBound /\ MutualExclusion /\ LockedIffHeld /\ LoadedIsCurrent

\* Each step keeps them.  Only CasSucceeds lets a thread into the critical
\* section, when lock is 0 and nobody is there.
LEMMA CoreStep == SpinTypeOK /\ Core /\ SpinNext => Core'
<1> SUFFICES ASSUME SpinTypeOK, Core, SpinNext PROVE Core'
  OBVIOUS
<1> USE NPerThreadNat, LockBenchAssumption
    DEF SpinTypeOK, SpinLabels, Goto, Core, InCS, SpinLoopBound, TrialBound,
        MutualExclusion, LockedIffHeld, LoadedIsCurrent
<1>1. ASSUME NEW t \in Threads, Spawn(t), UNCHANGED <<impl, lock>> PROVE Core'
  BY <1>1 DEF Spawn
<1>2. ASSUME NEW t \in Threads, Head(t), UNCHANGED <<impl, lock>> PROVE Core'
  BY <1>2 DEF Head
<1>3. ASSUME NEW t \in Threads, Load(t), UNCHANGED <<impl, lock>> PROVE Core'
  BY <1>3 DEF Load
<1>4. ASSUME NEW t \in Threads, Store(t), UNCHANGED <<impl, lock>> PROVE Core'
  BY <1>4 DEF Store
<1>5. ASSUME Sync, UNCHANGED <<impl, lock>> PROVE Core'
  BY <1>5 DEF Sync
<1>6. ASSUME NEW t \in Threads, Test(t) PROVE Core'
  BY <1>6 DEF Test
<1>7. ASSUME NEW t \in Threads, CasSucceeds(t) PROVE Core'
  BY <1>7 DEF CasSucceeds
<1>8. ASSUME NEW t \in Threads, CasFails(t) PROVE Core'
  BY <1>8 DEF CasFails
<1>9. ASSUME NEW t \in Threads, Unlock(t) PROVE Core'
  BY <1>9 DEF Unlock, Returned
<1>10. CASE UNCHANGED spinVars
  BY <1>10 DEF spinVars, benchVars
<1> QED
  BY <1>1, <1>2, <1>3, <1>4, <1>5, <1>6, <1>7, <1>8, <1>9, <1>10
     DEF SpinNext, BenchStep, SpinStep, Spins, SpinStopped

\* What each step does to the set of executed increments: a store adds one, the
\* next trial starts with none, and everything else, the return of unlock()
\* included, keeps it.
LEMMA IncrementsStep ==
    ASSUME SpinTypeOK, Core, SpinNext
    PROVE  Kept \/ Cleared \/ \E t \in Threads : Added(t)
<1> USE NPerThreadNat, LockBenchAssumption DEF SpinTypeOK, SpinLabels, Goto, Increments
<1>1. ASSUME NEW t \in Threads, Spawn(t), UNCHANGED <<impl, lock>> PROVE Kept
  BY <1>1 DEF Spawn, Kept
<1>2. ASSUME NEW t \in Threads, Head(t), UNCHANGED <<impl, lock>> PROVE Kept
  BY <1>2 DEF Head, Kept
<1>3. ASSUME NEW t \in Threads, Load(t), UNCHANGED <<impl, lock>> PROVE Kept
  BY <1>3 DEF Load, Kept
<1>4. ASSUME NEW t \in Threads, Store(t), UNCHANGED <<impl, lock>> PROVE Added(t)
  <2>1. counter' = counter + 1
    BY <1>4 DEF Store, Core, LoadedIsCurrent
  <2>2. <<t, iter[t]>> \notin Increments
    BY <1>4 DEF Store
  <2>3. Increments' = Increments \cup {<<t, iter[t]>>}
    <3>1. iter[t] \in 0..NPerThread-1
      BY <1>4 DEF Store, Core, SpinLoopBound
    <3>2. ASSUME NEW p \in Threads \X (0..NPerThread-1)
          PROVE  p \in Increments' <=> p \in Increments \/ p = <<t, iter[t]>>
      BY <1>4 DEF Store
    <3> QED
      BY <3>1, <3>2
  <2> QED
    BY <2>1, <2>2, <2>3 DEF Added
<1>5. ASSUME Sync, UNCHANGED <<impl, lock>> PROVE Kept \/ Cleared
  BY <1>5 DEF Sync, Kept, Cleared
<1>6. ASSUME NEW t \in Threads, Test(t) PROVE Kept
  BY <1>6 DEF Test, Kept
<1>7. ASSUME NEW t \in Threads, CasSucceeds(t) PROVE Kept
  BY <1>7 DEF CasSucceeds, Kept
<1>8. ASSUME NEW t \in Threads, CasFails(t) PROVE Kept
  BY <1>8 DEF CasFails, Kept
<1>9. ASSUME NEW t \in Threads, Unlock(t) PROVE Kept
  <2>1. counter' = counter
    BY <1>9 DEF Unlock, Returned
  <2>2. ASSUME NEW p \in Threads \X (0..NPerThread-1)
        PROVE  p \in Increments' <=> p \in Increments
    BY <1>9 DEF Unlock, Returned
  <2> QED
    BY <2>1, <2>2 DEF Kept
<1>10. CASE UNCHANGED spinVars
  BY <1>10 DEF spinVars, benchVars, Kept
<1> QED
  BY <1>1, <1>2, <1>3, <1>4, <1>5, <1>6, <1>7, <1>8, <1>9, <1>10
     DEF SpinNext, BenchStep, SpinStep, Spins, SpinStopped

\* Every step keeps the inductive invariant.
LEMMA SpinInvStep == SpinInv /\ [SpinNext]_spinVars => SpinInv'
<1> SUFFICES ASSUME SpinInv, [SpinNext]_spinVars PROVE SpinInv'
  OBVIOUS
<1>1. SpinTypeOK /\ Core /\ Counted
  BY DEF SpinInv, Core
<1>2. CASE SpinNext
  <2>1. SpinTypeOK' /\ Core'
    BY <1>1, <1>2, SpinTypeStep, CoreStep DEF Core
  <2>2. Counted'
    BY <1>1, <1>2, IncrementsStep, CountedStep
  <2> QED
    BY <2>1, <2>2 DEF SpinInv, Core
<1>3. CASE UNCHANGED spinVars
  BY <1>1, <1>3 DEF SpinInv, Core, spinVars, benchVars, SpinTypeOK, SpinLoopBound,
     TrialBound, MutualExclusion, LockedIffHeld, LoadedIsCurrent, InCS,
     Increments, Counted, NoLostUpdate
<1> QED
  BY <1>2, <1>3

\* The invariant holds throughout every run of the benchmark.
THEOREM SpinInvariant == SpinSpec => []SpinInv
<1>1. SpinInit => SpinInv
  BY SpinInvInit
<1>2. SpinInv /\ [SpinNext]_spinVars => SpinInv'
  BY SpinInvStep
<1> QED
  BY <1>1, <1>2, PTL DEF SpinSpec

\* Types: the state variables of the spin lock benchmark keep their types.
THEOREM SpinTypeCorrect == SpinSpec => []SpinTypeOK
<1>1. SpinInv => SpinTypeOK
  BY DEF SpinInv
<1> QED
  BY <1>1, SpinInvariant, PTL

\* Mutual exclusion: with any of the spin mutexes, and any number of threads,
\* two workers are never between lock() and unlock() at the same time.
THEOREM SpinMutualExclusion == SpinSpec => []MutualExclusion
<1>1. SpinInv => MutualExclusion
  BY DEF SpinInv
<1> QED
  BY <1>1, SpinInvariant, PTL

\* The mutex is free whenever nobody is in the critical section, in particular
\* when a trial hands it to the next one.
THEOREM SpinLockedIffHeld == SpinSpec => []LockedIffHeld
<1>1. SpinInv => LockedIffHeld
  BY DEF SpinInv
<1> QED
  BY <1>1, SpinInvariant, PTL

\* No increment of the shared counter is lost, in any interleaving.
THEOREM SpinNoLostUpdate == SpinSpec => []NoLostUpdate
<1>1. SpinInv => NoLostUpdate
  BY DEF SpinInv, Counted
<1> QED
  BY <1>1, SpinInvariant, PTL

-----------------------------------------------------------------------------
(* What the validation of run_test sees *)

\* Each step keeps Judged; Sync is the one that judges.
LEMMA JudgedStep == SpinInv /\ Judged /\ [SpinNext]_spinVars => Judged'
<1> SUFFICES ASSUME SpinInv, Judged, [SpinNext]_spinVars PROVE Judged'
  OBVIOUS
<1> USE NPerThreadNat, LockBenchAssumption
    DEF SpinInv, SpinTypeOK, SpinLabels, Goto, Judged, ValidationExact
<1>1. ASSUME NEW t \in Threads, Spawn(t), UNCHANGED <<impl, lock>> PROVE Judged'
  BY <1>1 DEF Spawn
<1>2. ASSUME NEW t \in Threads, Head(t), UNCHANGED <<impl, lock>> PROVE Judged'
  BY <1>2 DEF Head
<1>3. ASSUME NEW t \in Threads, Load(t), UNCHANGED <<impl, lock>> PROVE Judged'
  BY <1>3 DEF Load
<1>4. ASSUME NEW t \in Threads, Store(t), UNCHANGED <<impl, lock>> PROVE Judged'
  BY <1>4 DEF Store
<1>5. ASSUME Sync, UNCHANGED <<impl, lock>> PROVE Judged'
  <2>1. Counted /\ trial \in Nat /\ mismatch \in BOOLEAN
    OBVIOUS
  <2> QED
    BY <1>5, <2>1, SyncJudges
<1>6. ASSUME NEW t \in Threads, Test(t) PROVE Judged'
  BY <1>6 DEF Test
<1>7. ASSUME NEW t \in Threads, CasSucceeds(t) PROVE Judged'
  BY <1>7 DEF CasSucceeds
<1>8. ASSUME NEW t \in Threads, CasFails(t) PROVE Judged'
  BY <1>8 DEF CasFails
<1>9. ASSUME NEW t \in Threads, Unlock(t) PROVE Judged'
  BY <1>9 DEF Unlock, Returned
<1>10. CASE UNCHANGED spinVars
  BY <1>10 DEF spinVars, benchVars
<1> QED
  BY <1>1, <1>2, <1>3, <1>4, <1>5, <1>6, <1>7, <1>8, <1>9, <1>10
     DEF SpinNext, BenchStep, SpinStep, Spins, SpinStopped

\* The validation is exact, for every n and every number of threads: with a spin
\* mutex it reports "Counter mismatch" if and only if num_threads does not
\* divide n, so that a report says nothing about the mutex.
THEOREM SpinValidationExact == SpinSpec => []ValidationExact
<1>1. SpinInit => Judged
  BY NPerThreadNat, LockBenchAssumption
     DEF SpinInit, BenchInit, Judged, ValidationExact
<1>2. SpinInv /\ Judged /\ [SpinNext]_spinVars => Judged'
  BY JudgedStep
<1>3. Judged => ValidationExact
  BY DEF Judged
<1> QED
  BY <1>1, <1>2, <1>3, SpinInvariant, PTL DEF SpinSpec

-----------------------------------------------------------------------------
(* The refinement *)

\* Every step maps to a step of Mutex or to a stuttering step.
LEMMA SpinStepRefines ==
    SpinInv /\ SpinInv' /\ [SpinNext]_spinVars => [Promise!Next]_(Promise!vars)
<1> SUFFICES ASSUME SpinInv, SpinInv', [SpinNext]_spinVars
             PROVE  [Promise!Next]_(Promise!vars)
  OBVIOUS
<1> USE LockBenchAssumption
<1>a. /\ MutualExclusion /\ MutualExclusion' /\ pc \in [Threads -> SpinLabels]
      /\ LockedIffHeld /\ LoadedIsCurrent
  BY DEF SpinInv, SpinTypeOK
<1>b. ASSUME SamePlaces, counter' = counter PROVE UNCHANGED Promise!vars
  BY <1>a, <1>b, SamePlacesStutters
<1>1. ASSUME NEW t \in Threads, Spawn(t) PROVE UNCHANGED Promise!vars
  BY <1>1, <1>a, <1>b DEF Spawn, Goto, InCS, SamePlaces
<1>2. ASSUME NEW t \in Threads, Head(t) PROVE UNCHANGED Promise!vars
  BY <1>2, <1>a, <1>b DEF Head, Goto, InCS, SamePlaces
<1>3. ASSUME NEW t \in Threads, Load(t) PROVE UNCHANGED Promise!vars
  BY <1>3, <1>a, <1>b DEF Load, Goto, InCS, SamePlaces
<1>4. ASSUME NEW t \in Threads, Store(t) PROVE Promise!Update(t)
  <2>1. pc'[t] = "unlock"
    BY <1>4, <1>a DEF Store, Goto
  <2> QED
    BY <1>4, <2>1, <1>a, StoreUpdates
<1>5. ASSUME Sync PROVE [Promise!Restart]_(Promise!vars)
  BY <1>5, <1>a, SyncRestarts
<1>6. ASSUME NEW t \in Threads, Test(t) PROVE UNCHANGED Promise!vars
  BY <1>6, <1>a, <1>b DEF Test, Goto, InCS, SamePlaces
<1>7. ASSUME NEW t \in Threads, CasSucceeds(t) PROVE Promise!Acquire(t)
  <2>1. \A u \in Threads : ~InCS(u)
    BY <1>7, <1>a DEF CasSucceeds, LockedIffHeld
  <2>2. pc'[t] = "load" /\ counter' = counter
    BY <1>7, <1>a DEF CasSucceeds, Goto
  <2> QED
    BY <2>1, <2>2, <1>a, EntryAcquires
<1>8. ASSUME NEW t \in Threads, CasFails(t) PROVE UNCHANGED Promise!vars
  BY <1>8, <1>a, <1>b DEF CasFails, Goto, InCS, SamePlaces
<1>9. ASSUME NEW t \in Threads, Unlock(t) PROVE Promise!Release(t)
  <2>1. InCS(t) /\ pc[t] = "unlock"
    BY <1>9 DEF Unlock, InCS
  <2>2. \A u \in Threads : ~InCS(u)'
    BY <2>1, <1>9, <1>a DEF Unlock, Goto, InCS, MutualExclusion
  <2>3. counter' = counter
    BY <1>9 DEF Unlock, Returned
  <2> QED
    BY <2>1, <2>2, <2>3, <1>a, ExitReleases
<1>10. ASSUME UNCHANGED spinVars PROVE UNCHANGED Promise!vars
  BY <1>10, <1>a, <1>b DEF spinVars, benchVars, InCS, SamePlaces
<1> QED
  BY <1>1, <1>2, <1>3, <1>4, <1>5, <1>6, <1>7, <1>8, <1>9, <1>10
     DEF SpinNext, BenchStep, SpinStep, Spins, SpinStopped, Promise!Next

\* The benchmark on any spin mutex implements the abstract mutex: lock() is
\* granted to one thread at a time and each critical section adds one.
THEOREM SpinImplementsMutex == SpinSpec => ImplementsMutex
<1>1. SpinInit => Promise!Init
  BY BenchInitMapped DEF SpinInit
<1>2. SpinInv /\ SpinInv' /\ [SpinNext]_spinVars => [Promise!Next]_(Promise!vars)
  BY SpinStepRefines
<1> QED
  BY <1>1, <1>2, SpinInvariant, PTL DEF SpinSpec, ImplementsMutex, Promise!Spec

-----------------------------------------------------------------------------
(* The queue lock *)

\* A thread that has not reached the end of its loop has iterations left.
QueueLoopBound == \A t \in Threads :
                     pc[t] \notin {"unborn", "head", "done"} => iter[t] < NPerThread

\* The slot of a thread that is filling or emptying one is the last one below
\* or the first one at queue_pos.  There are always fewer queued threads than
\* threads, because the owner of the lock is not queued.  A slot past the end
\* of the queue may be reserved, but is never filled.
SlotBounds ==
    /\ queue_pos < NumThreads
    /\ queue_pos <= MaxThreads \/ \E t \in Threads : pc[t] = "reserved"
    /\ \A t \in Threads : pc[t] = "reserved" =>
          /\ queue_pos > 0
          /\ slot[t] = queue_pos - 1
    /\ \A t \in Threads : pc[t] = "waking" =>
          /\ queue_pos < MaxThreads
          /\ slot[t] = queue_pos

\* The inductive invariant.
QueueInv == /\ QueueTypeOK
            /\ QueueLoopBound /\ TrialBound
            /\ InnerLockHasOneOwner /\ LockHasOneOwner
            /\ LoadedIsCurrent
            /\ SlotBounds
            /\ SleepersAreQueued
            /\ NoSleeperWhenFree
            /\ Counted

-----------------------------------------------------------------------------

\* The invariant holds when run_test starts.
LEMMA QueueInvInit == QueueInit => QueueInv
<1> SUFFICES ASSUME QueueInit PROVE QueueInv
  OBVIOUS
<1> USE NPerThreadNat, LockBenchAssumption, MaxThreadsAssumption DEF QueueInit, BenchInit
<1>1. QueueTypeOK
  <2>1. phase \in {"spawn", "sync", "finished", "error", "wild"} /\ trial \in 0..NumTrials
    OBVIOUS
  <2>2. iter \in [Threads -> 0..NPerThread] /\ reg \in [Threads -> Nat]
    OBVIOUS
  <2>3. pc \in [Threads -> QueueLabels]
    BY DEF QueueLabels
  <2>4. /\ counter \in Nat /\ mismatch \in BOOLEAN
        /\ qlock \in {0, 1} /\ is_locked \in {0, 1} /\ queue_pos \in Nat
    OBVIOUS
  <2>5. /\ queue \in [Slots -> Threads \cup {None}] /\ slot \in [Threads -> Nat]
        /\ remnant \in [Threads -> BOOLEAN] /\ dying \subseteq Threads
    OBVIOUS
  <2> QED
    BY <2>1, <2>2, <2>3, <2>4, <2>5 DEF QueueTypeOK
<1>2. QueueLoopBound /\ TrialBound /\ LoadedIsCurrent
  BY DEF QueueLoopBound, TrialBound, LoadedIsCurrent
<1>3. InnerLockHasOneOwner /\ LockHasOneOwner
  BY DEF InnerLockHasOneOwner, LockHasOneOwner, InnerOwner, LockOwner
<1>4. NumThreads \in Nat \ {0}
  BY FS_CardinalityType, FS_EmptySet DEF NumThreads
<1>5. SlotBounds
  BY <1>4 DEF SlotBounds
<1>6. SlotsInUse = {}
  BY DEF SlotsInUse
<1>7. SleepersAreQueued /\ NoSleeperWhenFree
  BY <1>6 DEF SleepersAreQueued, NoSleeperWhenFree
<1>8. Increments = {}
  BY DEF Increments
<1>9. Counted
  BY <1>8, FS_EmptySet DEF Counted, NoLostUpdate
<1> QED
  BY <1>1, <1>2, <1>3, <1>5, <1>7, <1>9 DEF QueueInv

\* Each step keeps the types.
LEMMA QueueTypeStep ==
    QueueTypeOK /\ QueueLoopBound /\ TrialBound /\ QueueNext => QueueTypeOK'
<1> SUFFICES ASSUME QueueTypeOK, QueueLoopBound, TrialBound, QueueNext PROVE QueueTypeOK'
  OBVIOUS
<1> USE NPerThreadNat, LockBenchAssumption DEF QueueTypeOK, QueueLabels, Goto
<1>1. ASSUME NEW t \in Threads, Spawn(t), UNCHANGED lockVars PROVE QueueTypeOK'
  BY <1>1 DEF Spawn, lockVars
<1>2. ASSUME NEW t \in Threads, Head(t), UNCHANGED lockVars PROVE QueueTypeOK'
  BY <1>2 DEF Head, lockVars
<1>3. ASSUME NEW t \in Threads, Load(t), UNCHANGED lockVars PROVE QueueTypeOK'
  BY <1>3 DEF Load, lockVars
<1>4. ASSUME NEW t \in Threads, Store(t), UNCHANGED lockVars PROVE QueueTypeOK'
  BY <1>4 DEF Store, lockVars
<1>5. ASSUME Sync, UNCHANGED lockVars PROVE QueueTypeOK'
  BY <1>5 DEF Sync, lockVars, TrialBound
<1>6. ASSUME NEW t \in Threads, TakeQueueLock(t) PROVE QueueTypeOK'
  BY <1>6 DEF TakeQueueLock, KeepBench
<1>7. ASSUME NEW t \in Threads, GrantLock(t) PROVE QueueTypeOK'
  BY <1>7 DEF GrantLock, KeepBench
<1>8. ASSUME NEW t \in Threads, EnterFree(t) PROVE QueueTypeOK'
  BY <1>8 DEF EnterFree, KeepBench
<1>9. ASSUME NEW t \in Threads, EnterBusy(t) PROVE QueueTypeOK'
  BY <1>9 DEF EnterBusy
<1>10. ASSUME NEW t \in Threads, SaveState(t) PROVE QueueTypeOK'
  <2>1. CASE slot[t] \in Slots
    <3>1. queue' = [queue EXCEPT ![slot[t]] = t]
      BY <1>10, <2>1 DEF SaveState
    <3>2. queue' \in [Slots -> Threads \cup {None}]
      BY <2>1, <3>1
    <3>3. remnant' \in [Threads -> BOOLEAN] /\ pc' \in [Threads -> QueueLabels]
      BY <1>10, <2>1 DEF SaveState
    <3>4. /\ UNCHANGED <<phase, trial, counter, mismatch, iter, reg>>
          /\ UNCHANGED <<qlock, is_locked, queue_pos, slot, dying>>
      BY <1>10, <2>1 DEF SaveState
    <3> QED
      BY <3>2, <3>3, <3>4
  <2>2. CASE slot[t] \notin Slots
    BY <1>10, <2>2 DEF SaveState
  <2> QED
    BY <2>1, <2>2
<1>11. ASSUME NEW t \in Threads, RemnantUnlocks(t) PROVE QueueTypeOK'
  BY <1>11 DEF RemnantUnlocks, KeepBench
<1>12. ASSUME NEW t \in Threads, LeaveToSleeper(t) PROVE QueueTypeOK'
  BY <1>12 DEF LeaveToSleeper, KeepBench
<1>13. ASSUME NEW t \in Threads, WakeUp(t) PROVE QueueTypeOK'
  BY <1>13 DEF WakeUp, Returned, lockVars, QueueLoopBound
<1>14. ASSUME NEW t \in Threads, LeaveFree(t) PROVE QueueTypeOK'
  BY <1>14 DEF LeaveFree, KeepBench
<1>15. ASSUME NEW t \in Threads, FreeQueueLock(t) PROVE QueueTypeOK'
  BY <1>15 DEF FreeQueueLock, Returned, QueueLoopBound
<1>16. ASSUME NEW t \in Threads, RemnantDies(t) PROVE QueueTypeOK'
  BY <1>16 DEF RemnantDies, benchVars
<1>17. CASE UNCHANGED queueVars
  BY <1>17 DEF queueVars, benchVars, lockVars
<1> QED
  BY <1>1, <1>2, <1>3, <1>4, <1>5, <1>6, <1>7, <1>8, <1>9,
     <1>10, <1>11, <1>12, <1>13, <1>14, <1>15, <1>16, <1>17
     DEF QueueNext, BenchStep, QueueStep, QueueSpins, QueueStopped

\* The parts of the invariant that say who is where in the code.
Owners == /\ QueueLoopBound /\ TrialBound /\ LoadedIsCurrent
          /\ InnerLockHasOneOwner /\ LockHasOneOwner

\* Each step keeps them.  A WAKEUP hands both the inner mutex and the lock over;
\* STS moves the inner mutex from the thread to the remnant of its context.
LEMMA OwnersStep == QueueTypeOK /\ Owners /\ QueueNext => Owners'
<1> SUFFICES ASSUME QueueTypeOK, Owners, QueueNext PROVE Owners'
  OBVIOUS
<1> USE NPerThreadNat, LockBenchAssumption
    DEF QueueTypeOK, QueueLabels, Goto, Owners, QueueLoopBound, TrialBound, LoadedIsCurrent,
        InnerLockHasOneOwner, LockHasOneOwner, InnerOwner, LockOwner
<1>1. ASSUME NEW t \in Threads, Spawn(t), UNCHANGED lockVars PROVE Owners'
  BY <1>1 DEF Spawn, lockVars
<1>2. ASSUME NEW t \in Threads, Head(t), UNCHANGED lockVars PROVE Owners'
  BY <1>2 DEF Head, lockVars
<1>3. ASSUME NEW t \in Threads, Load(t), UNCHANGED lockVars PROVE Owners'
  BY <1>3 DEF Load, lockVars
<1>4. ASSUME NEW t \in Threads, Store(t), UNCHANGED lockVars PROVE Owners'
  BY <1>4 DEF Store, lockVars
<1>5. ASSUME Sync, UNCHANGED lockVars PROVE Owners'
  BY <1>5 DEF Sync, lockVars
<1>6. ASSUME NEW t \in Threads, TakeQueueLock(t) PROVE Owners'
  BY <1>6 DEF TakeQueueLock, KeepBench
<1>7. ASSUME NEW t \in Threads, GrantLock(t) PROVE Owners'
  BY <1>7 DEF GrantLock, KeepBench
<1>8. ASSUME NEW t \in Threads, EnterFree(t) PROVE Owners'
  BY <1>8 DEF EnterFree, KeepBench
<1>9. ASSUME NEW t \in Threads, EnterBusy(t) PROVE Owners'
  BY <1>9 DEF EnterBusy
<1>10. ASSUME NEW t \in Threads, SaveState(t) PROVE Owners'
  BY <1>10 DEF SaveState
<1>11. ASSUME NEW t \in Threads, RemnantUnlocks(t) PROVE Owners'
  BY <1>11 DEF RemnantUnlocks, KeepBench
<1>12. ASSUME NEW t \in Threads, LeaveToSleeper(t) PROVE Owners'
  BY <1>12 DEF LeaveToSleeper, KeepBench
<1>13. ASSUME NEW t \in Threads, WakeUp(t) PROVE Owners'
  BY <1>13 DEF WakeUp, Returned, lockVars
<1>14. ASSUME NEW t \in Threads, LeaveFree(t) PROVE Owners'
  BY <1>14 DEF LeaveFree, KeepBench
<1>15. ASSUME NEW t \in Threads, FreeQueueLock(t) PROVE Owners'
  BY <1>15 DEF FreeQueueLock, Returned
<1>16. ASSUME NEW t \in Threads, RemnantDies(t) PROVE Owners'
  BY <1>16 DEF RemnantDies, benchVars
<1>17. CASE UNCHANGED queueVars
  BY <1>17 DEF queueVars, benchVars, lockVars
<1> QED
  BY <1>1, <1>2, <1>3, <1>4, <1>5, <1>6, <1>7, <1>8, <1>9,
     <1>10, <1>11, <1>12, <1>13, <1>14, <1>15, <1>16, <1>17
     DEF QueueNext, BenchStep, QueueStep, QueueSpins, QueueStopped

-----------------------------------------------------------------------------
(* Where the sleeping threads are *)

\* How many slots hold a sleeping thread: all below queue_pos, but for the one
\* that is being filled, and the one being emptied.
Filled == IF \E t \in Threads : pc[t] = "reserved" THEN queue_pos - 1
          ELSE IF \E t \in Threads : pc[t] = "waking" THEN queue_pos + 1
          ELSE queue_pos

\* The slot that is being emptied comes after those that stay in use.
LEMMA OneMoreSlot == ASSUME NEW q \in Nat
                     PROVE  0..q-1 \cup {q} = 0..(q+1)-1 /\ q+1 \in Nat
OBVIOUS

\* The slots in use are the first ones: the queue is a stack.
LEMMA SlotsInUseAre ==
    QueueTypeOK /\ InnerLockHasOneOwner /\ SlotBounds
      => SlotsInUse = 0..Filled-1 /\ Filled \in Nat
<1> SUFFICES ASSUME QueueTypeOK, InnerLockHasOneOwner, SlotBounds
             PROVE  SlotsInUse = 0..Filled-1 /\ Filled \in Nat
  OBVIOUS
<1> USE DEF QueueTypeOK, InnerLockHasOneOwner, InnerOwner, SlotBounds, SlotsInUse, Filled
<1>1. CASE \E t \in Threads : pc[t] = "reserved"
  <2>1. PICK t \in Threads : pc[t] = "reserved"
    BY <1>1
  <2>2. \A u \in Threads : pc[u] # "waking" /\ (pc[u] = "reserved" => u = t)
    BY <2>1
  <2> QED
    BY <2>1, <2>2
<1>2. CASE \E t \in Threads : pc[t] = "waking"
  <2>1. PICK t \in Threads : pc[t] = "waking"
    BY <1>2
  <2>2. \A u \in Threads : pc[u] # "reserved" /\ (pc[u] = "waking" => u = t)
    BY <2>1
  <2>3. {slot[u] : u \in {v \in Threads : pc[v] = "waking"}} = {queue_pos}
    BY <2>1, <2>2
  <2>4. Filled = queue_pos + 1 /\ SlotsInUse = 0..queue_pos-1 \cup {queue_pos}
    BY <2>1, <2>2, <2>3
  <2>5. queue_pos \in Nat
    OBVIOUS
  <2> HIDE DEF SlotsInUse, Filled
  <2> QED
    BY <2>4, <2>5, OneMoreSlot
<1>3. CASE \A t \in Threads : pc[t] \notin {"reserved", "waking"}
  BY <1>3
<1> QED
  BY <1>1, <1>2, <1>3

\* The same in the next state.
LEMMA SlotsInUseAreNext ==
    QueueTypeOK' /\ InnerLockHasOneOwner' /\ SlotBounds'
      => (SlotsInUse = 0..Filled-1 /\ Filled \in Nat)'
BY SlotsInUseAre, PTL

\* The number of threads without two of them.
LEMMA AllButTwo ==
    ASSUME NEW t \in Threads, NEW u \in Threads, t # u
    PROVE  IsFiniteSet(Threads \ {t, u}) /\ Cardinality(Threads \ {t, u}) = NumThreads - 2
<1>1. /\ IsFiniteSet(Threads) /\ NumThreads \in Nat
      /\ IsFiniteSet(Threads \ {t}) /\ Cardinality(Threads \ {t}) = NumThreads - 1
  BY LockBenchAssumption, FS_CardinalityType, FS_RemoveElement DEF NumThreads
<1>2. u \in Threads \ {t} /\ Threads \ {t, u} = (Threads \ {t}) \ {u}
  OBVIOUS
<1>3. /\ IsFiniteSet((Threads \ {t}) \ {u})
      /\ Cardinality((Threads \ {t}) \ {u}) = Cardinality(Threads \ {t}) - 1
  BY <1>1, <1>2, FS_RemoveElement
<1> QED
  BY <1>1, <1>2, <1>3

\* A thread that finds the lock taken, holding the inner mutex, finds at most
\* all but two threads in the queue: it is not there, and neither is the owner.
LEMMA RoomInQueue ==
    ASSUME QueueInv, NEW t \in Threads, pc[t] = "enter", is_locked = 1
    PROVE  queue_pos + 1 < NumThreads
<1> USE LockBenchAssumption
    DEF QueueInv, QueueTypeOK, InnerLockHasOneOwner, InnerOwner
<1>1. PICK u \in Threads : LockOwner(u)
  BY DEF LockHasOneOwner
<1>2. t # u /\ pc[t] # "saved" /\ pc[u] # "saved"
  BY <1>1 DEF LockOwner
<1>3. Filled = queue_pos
  BY DEF Filled
<1> DEFINE Others == Threads \ {t, u}
           f == [s \in 1..queue_pos |-> queue[s-1]]
<1>4. \A s \in 1..queue_pos : s-1 \in SlotsInUse
  BY <1>3, SlotsInUseAre
<1>5. f \in Injection(1..queue_pos, Others)
  <2>1. \A s \in 1..queue_pos : queue[s-1] \in Others
    BY <1>2, <1>4 DEF SleepersAreQueued
  <2>2. \A r, s \in 1..queue_pos : queue[r-1] = queue[s-1] => r = s
    <3> SUFFICES ASSUME NEW r \in 1..queue_pos, NEW s \in 1..queue_pos,
                        queue[r-1] = queue[s-1]
                 PROVE  r = s
      OBVIOUS
    <3>1. r-1 = s-1
      BY <1>4 DEF SleepersAreQueued
    <3> QED
      BY <3>1
  <2> QED
    BY <2>1, <2>2 DEF Injection, IsInjective
<1>6. IsFiniteSet(Others) /\ Cardinality(Others) = NumThreads - 2
  BY <1>2, AllButTwo
<1>7. Cardinality(1..queue_pos) = queue_pos
  BY FS_Interval
<1>8. Cardinality(1..queue_pos) <= Cardinality(Others)
  BY <1>5, <1>6, FS_Injection
<1>9. NumThreads \in Nat
  BY FS_CardinalityType DEF NumThreads
<1> QED
  BY <1>6, <1>7, <1>8, <1>9

\* Each step keeps the bounds on queue_pos and on the slots.
LEMMA SlotBoundsStep == QueueInv /\ QueueNext => SlotBounds'
<1> SUFFICES ASSUME QueueInv, QueueNext PROVE SlotBounds'
  OBVIOUS
<1>a. QueueTypeOK /\ InnerLockHasOneOwner /\ SlotBounds
  BY DEF QueueInv
<1>b. NumThreads \in Nat
  BY LockBenchAssumption, FS_CardinalityType DEF NumThreads
<1> USE <1>a, <1>b, MaxThreadsAssumption DEF QueueTypeOK, QueueLabels, Goto, SlotBounds
<1>1. ASSUME NEW t \in Threads, EnterBusy(t) PROVE SlotBounds'
  <2>1. queue_pos + 1 < NumThreads
    <3>1. pc[t] = "enter" /\ is_locked = 1
      BY <1>1 DEF EnterBusy
    <3> QED
      BY <3>1, RoomInQueue
  <2>2. \A u \in Threads : pc'[u] = "reserved" => u = t
    BY <1>1 DEF EnterBusy, InnerLockHasOneOwner, InnerOwner
  <2>3. \A u \in Threads : pc'[u] # "waking"
    BY <1>1 DEF EnterBusy, InnerLockHasOneOwner, InnerOwner
  <2>4. queue_pos' = queue_pos + 1 /\ slot'[t] = queue_pos /\ pc'[t] = "reserved"
    BY <1>1 DEF EnterBusy
  <2> QED
    BY <2>1, <2>2, <2>3, <2>4
<1>2. ASSUME NEW t \in Threads, SaveState(t), slot[t] \in Slots PROVE SlotBounds'
  <2>1. queue_pos' = queue_pos /\ slot' = slot /\ slot[t] = queue_pos - 1
    BY <1>2 DEF SaveState
  <2>2. queue_pos <= MaxThreads
    BY <1>2, <2>1 DEF Slots
  <2>3. \A u \in Threads : /\ pc'[u] = "reserved" => pc[u] = "reserved"
                           /\ pc'[u] = "waking" => pc[u] = "waking"
    BY <1>2 DEF SaveState
  <2> QED
    BY <2>1, <2>2, <2>3
<1>3. ASSUME NEW t \in Threads, LeaveToSleeper(t) PROVE SlotBounds'
  <2>1. \A u \in Threads : pc[u] # "reserved" /\ pc'[u] # "reserved"
                           /\ (pc'[u] = "waking" => u = t)
    BY <1>3 DEF LeaveToSleeper, InnerLockHasOneOwner, InnerOwner
  <2>2. queue_pos' = queue_pos - 1 /\ slot'[t] = queue_pos' /\ queue_pos <= MaxThreads
    BY <1>3, <2>1 DEF LeaveToSleeper
  <2> QED
    BY <1>3, <2>1, <2>2 DEF LeaveToSleeper
<1>4. ASSUME NEW t \in Threads, WakeUp(t) PROVE SlotBounds'
  BY <1>4 DEF WakeUp, Returned, lockVars
<1>5. ASSUME BenchStep, UNCHANGED lockVars PROVE SlotBounds'
  <2>1. \A u \in Threads : /\ pc'[u] = "reserved" <=> pc[u] = "reserved"
                           /\ pc'[u] = "waking" => pc[u] = "waking"
    BY <1>5 DEF BenchStep, Spawn, Head, Load, Store, Sync
  <2> QED
    BY <1>5, <2>1 DEF lockVars
<1>6. ASSUME NEW t \in Threads,
             TakeQueueLock(t) \/ GrantLock(t) \/ EnterFree(t) \/ RemnantUnlocks(t)
               \/ RemnantDies(t) \/ LeaveFree(t) \/ FreeQueueLock(t)
      PROVE  SlotBounds'
  BY <1>6 DEF TakeQueueLock, GrantLock, EnterFree, RemnantUnlocks, RemnantDies, benchVars, LeaveFree,
              FreeQueueLock, KeepBench, Returned
<1>7. CASE UNCHANGED queueVars
  BY <1>7 DEF queueVars, benchVars, lockVars
<1>8. ASSUME NEW t \in Threads, SaveState(t), slot[t] \notin Slots PROVE SlotBounds'
  BY <1>8 DEF SaveState
<1> QED
  BY <1>1, <1>2, <1>3, <1>4, <1>5, <1>6, <1>7, <1>8
     DEF QueueNext, QueueStep, QueueSpins, QueueStopped

\* Each slot in use holds one sleeping thread, and each sleeping thread is in one.
Matched == /\ \A s \in SlotsInUse : queue[s] \in Threads /\ pc[queue[s]] = "saved"
           /\ \A r, s \in SlotsInUse : queue[r] = queue[s] => r = s
           /\ \A t \in Threads : pc[t] = "saved" => \E s \in SlotsInUse : queue[s] = t

\* No thread comes to fill a slot, to empty one or to sleep, or stops doing so.
SameSlots == \A t \in Threads : \A l \in {"saved", "reserved", "waking"} :
                pc'[t] = l <=> pc[t] = l

\* A step that neither fills nor empties a slot keeps the match.
LEMMA UndisturbedMatched ==
    ASSUME Matched, UNCHANGED <<queue, queue_pos, slot>>,
           SameSlots
    PROVE  Matched'
<1>1. {u \in Threads : pc[u] = "waking"}' = {u \in Threads : pc[u] = "waking"}
  BY DEF SameSlots
<1>2. {slot[t] : t \in {u \in Threads : pc[u] = "waking"}}'
         = {slot[t] : t \in {u \in Threads : pc[u] = "waking"}}
  BY <1>1
<1>3. SlotsInUse' = SlotsInUse
  BY <1>2 DEF SlotsInUse, SameSlots
<1> QED
  BY <1>3 DEF Matched, SameSlots

\* Each step keeps the match: STS fills the slot that was reserved with the
\* thread itself, which was in no other; WAKEUP empties the slot of the thread
\* that it wakes.
LEMMA MatchedStep ==
    ASSUME QueueInv, QueueNext, QueueTypeOK', Owners', SlotBounds'
    PROVE  Matched'
<1>a. QueueTypeOK /\ InnerLockHasOneOwner /\ SlotBounds /\ Matched
  BY DEF QueueInv, SleepersAreQueued, Matched
<1>b. /\ SlotsInUse = 0..Filled-1 /\ Filled \in Nat
      /\ SlotsInUse' = 0..Filled'-1 /\ Filled' \in Nat
  BY <1>a, SlotsInUseAre, SlotsInUseAreNext DEF Owners
<1> USE <1>a DEF QueueTypeOK, QueueLabels, Goto
<1>1. ASSUME NEW t \in Threads, EnterBusy(t) PROVE Matched'
  <2>1. Filled = queue_pos /\ Filled' = queue_pos
    <3>1. \A u \in Threads : pc[u] \notin {"reserved", "waking"}
      BY <1>1 DEF EnterBusy, InnerLockHasOneOwner, InnerOwner
    <3>2. pc'[t] = "reserved" /\ queue_pos' = queue_pos + 1
      BY <1>1 DEF EnterBusy
    <3> QED
      BY <3>1, <3>2 DEF Filled
  <2>2. SlotsInUse' = SlotsInUse
    BY <1>b, <2>1
  <2> QED
    BY <1>1, <2>2 DEF EnterBusy, Matched
<1>2. ASSUME NEW t \in Threads, SaveState(t), slot[t] \in Slots PROVE Matched'
  <2>1. Filled = queue_pos - 1 /\ slot[t] = queue_pos - 1
    BY <1>2 DEF SaveState, Filled, SlotBounds
  <2>2. Filled' = queue_pos
    <3>1. \A u \in Threads : pc'[u] \notin {"reserved", "waking"}
      BY <1>2 DEF SaveState, InnerLockHasOneOwner, InnerOwner
    <3> QED
      BY <1>2, <3>1 DEF SaveState, Filled
  <2>3. SlotsInUse' = SlotsInUse \cup {slot[t]} /\ slot[t] \notin SlotsInUse
    BY <1>b, <2>1, <2>2
  <2>4. queue' = [queue EXCEPT ![slot[t]] = t]
    BY <1>2 DEF SaveState
  <2>5. queue'[slot[t]] = t /\ \A s \in SlotsInUse : queue'[s] = queue[s]
    BY <1>2, <2>3, <2>4
  <2>6. pc'[t] = "saved" /\ pc[t] # "saved" /\ \A u \in Threads \ {t} : pc'[u] = pc[u]
    BY <1>2 DEF SaveState
  <2> QED
    BY <2>3, <2>5, <2>6 DEF Matched
<1>3. ASSUME NEW t \in Threads, LeaveToSleeper(t) PROVE Matched'
  <2>1. \A u \in Threads : pc[u] \notin {"reserved", "waking"}
    BY <1>3 DEF LeaveToSleeper, InnerLockHasOneOwner, InnerOwner
  <2>2. pc'[t] = "waking" /\ \A u \in Threads : pc'[u] # "reserved"
    BY <1>3, <2>1 DEF LeaveToSleeper
  <2>3. Filled = queue_pos /\ Filled' = queue_pos
    BY <1>3, <2>1, <2>2 DEF Filled, LeaveToSleeper
  <2>4. SlotsInUse' = SlotsInUse
    BY <1>b, <2>3
  <2> QED
    BY <1>3, <2>4 DEF LeaveToSleeper, Matched
<1>4. ASSUME NEW t \in Threads, WakeUp(t) PROVE Matched'
  <2>1. \A u \in Threads : pc[u] # "reserved" /\ (pc[u] = "waking" => u = t)
    BY <1>4 DEF WakeUp, InnerLockHasOneOwner, InnerOwner
  <2>2. PICK u \in Threads : /\ u = queue[slot[t]]
                            /\ pc[u] = "saved"
                            /\ pc' = [pc EXCEPT ![u] = "woken", ![t] = "head"]
    BY <1>4 DEF WakeUp
  <2>3. UNCHANGED <<queue, queue_pos, slot>>
    BY <1>4 DEF WakeUp, lockVars
  <2>4. Filled = queue_pos + 1 /\ slot[t] = queue_pos
    BY <1>4, <2>1 DEF WakeUp, Filled, SlotBounds
  <2>5. \A v \in Threads : pc'[v] \notin {"reserved", "waking"}
    BY <2>1, <2>2
  <2>6. Filled' = queue_pos
    BY <2>3, <2>5 DEF Filled
  <2>7. SlotsInUse = SlotsInUse' \cup {slot[t]} /\ slot[t] \notin SlotsInUse'
    BY <1>b, <2>4, <2>6
  <2>8. pc[t] = "waking"
    BY <1>4 DEF WakeUp
  <2>9. \A v \in Threads : pc'[v] = "saved" <=> pc[v] = "saved" /\ v # u
    BY <2>2, <2>8
  <2>10. \A s \in SlotsInUse' : queue[s] # u
    BY <2>2, <2>7 DEF Matched
  <2> QED
    BY <2>2, <2>3, <2>7, <2>9, <2>10 DEF Matched
<1>5. ASSUME BenchStep, UNCHANGED lockVars PROVE Matched'
  <2>1. SameSlots
    BY <1>5 DEF BenchStep, Spawn, Head, Load, Store, Sync, SameSlots
  <2> QED
    BY <1>5, <2>1, UndisturbedMatched DEF lockVars
<1>6. ASSUME NEW t \in Threads,
             TakeQueueLock(t) \/ GrantLock(t) \/ EnterFree(t) \/ RemnantUnlocks(t)
               \/ RemnantDies(t) \/ LeaveFree(t) \/ FreeQueueLock(t)
      PROVE  Matched'
  <2>1. SameSlots
    BY <1>6 DEF TakeQueueLock, GrantLock, EnterFree, RemnantUnlocks, RemnantDies, benchVars, LeaveFree,
                FreeQueueLock, SameSlots
  <2>2. UNCHANGED <<queue, queue_pos, slot>>
    BY <1>6 DEF TakeQueueLock, GrantLock, EnterFree, RemnantUnlocks, RemnantDies, benchVars, LeaveFree, FreeQueueLock
  <2> QED
    BY <2>1, <2>2, UndisturbedMatched
<1>7. CASE UNCHANGED queueVars
  BY <1>7, UndisturbedMatched DEF queueVars, benchVars, lockVars, SameSlots
<1>8. ASSUME NEW t \in Threads, SaveState(t), slot[t] \notin Slots PROVE Matched'
  BY <1>8, UndisturbedMatched DEF SaveState, SameSlots
<1> QED
  BY <1>1, <1>2, <1>3, <1>4, <1>5, <1>6, <1>7, <1>8
     DEF QueueNext, QueueStep, QueueSpins, QueueStopped

\* Each step keeps NoSleeperWhenFree: is_locked_ becomes 0 only when the queue
\* is empty, and a thread falls asleep only while it is 1.
LEMMA NoSleeperStep ==
    ASSUME QueueInv, QueueNext, QueueTypeOK'
    PROVE  NoSleeperWhenFree'
<1>a. /\ QueueTypeOK /\ InnerLockHasOneOwner /\ LockHasOneOwner /\ SlotBounds
      /\ Matched /\ NoSleeperWhenFree
  BY DEF QueueInv, SleepersAreQueued, Matched
<1> USE <1>a DEF QueueTypeOK, QueueLabels, Goto, NoSleeperWhenFree
<1>1. ASSUME NEW t \in Threads, LeaveFree(t) PROVE NoSleeperWhenFree'
  <2>1. \A u \in Threads : pc[u] \notin {"reserved", "waking"}
    BY <1>1 DEF LeaveFree, InnerLockHasOneOwner, InnerOwner
  <2>2. SlotsInUse = {}
    BY <1>1, <2>1 DEF LeaveFree, SlotsInUse
  <2>3. \A u \in Threads : pc[u] # "saved"
    BY <2>2 DEF Matched
  <2> QED
    BY <1>1, <2>3 DEF LeaveFree
<1>2. ASSUME NEW t \in Threads, EnterBusy(t) \/ EnterFree(t) PROVE NoSleeperWhenFree'
  BY <1>2 DEF EnterBusy, EnterFree
<1>3. ASSUME NEW t \in Threads, SaveState(t) PROVE NoSleeperWhenFree'
  BY <1>3 DEF SaveState, SlotBounds
<1>4. ASSUME NEW t \in Threads, LeaveToSleeper(t) \/ WakeUp(t) PROVE NoSleeperWhenFree'
  BY <1>4 DEF LeaveToSleeper, WakeUp, lockVars, LockHasOneOwner, LockOwner
<1>5. ASSUME BenchStep, UNCHANGED lockVars PROVE NoSleeperWhenFree'
  <2>1. \A u \in Threads : pc'[u] = "saved" <=> pc[u] = "saved"
    BY <1>5 DEF BenchStep, Spawn, Head, Load, Store, Sync
  <2> QED
    BY <1>5, <2>1 DEF lockVars
<1>6. ASSUME NEW t \in Threads,
             TakeQueueLock(t) \/ GrantLock(t) \/ RemnantUnlocks(t) \/ RemnantDies(t)
               \/ FreeQueueLock(t)
      PROVE  NoSleeperWhenFree'
  BY <1>6 DEF TakeQueueLock, GrantLock, RemnantUnlocks, RemnantDies, benchVars, FreeQueueLock
<1>7. CASE UNCHANGED queueVars
  BY <1>7 DEF queueVars, benchVars, lockVars
<1> QED
  BY <1>1, <1>2, <1>3, <1>4, <1>5, <1>6, <1>7 DEF QueueNext, QueueStep, QueueSpins, QueueStopped

-----------------------------------------------------------------------------
(* The counter, and the inductive invariant *)

\* What each step does to the set of executed increments: a store adds one, the
\* next trial starts with none, and everything else keeps it.
LEMMA QueueIncrementsStep ==
    ASSUME QueueTypeOK, Owners, QueueNext
    PROVE  Kept \/ Cleared \/ \E t \in Threads : Added(t)
<1> USE NPerThreadNat, LockBenchAssumption DEF QueueTypeOK, QueueLabels, Goto, Increments
<1>1. ASSUME NEW t \in Threads, Spawn(t) \/ Head(t) \/ Load(t) PROVE Kept
  BY <1>1 DEF Spawn, Head, Load, Kept
<1>2. ASSUME NEW t \in Threads, Store(t) PROVE Added(t)
  <2>1. counter' = counter + 1
    BY <1>2 DEF Store, Owners, LoadedIsCurrent
  <2>2. <<t, iter[t]>> \notin Increments
    BY <1>2 DEF Store
  <2>3. iter[t] \in 0..NPerThread-1
    BY <1>2 DEF Store, Owners, QueueLoopBound
  <2>4. ASSUME NEW p \in Threads \X (0..NPerThread-1)
        PROVE  p \in Increments' <=> p \in Increments \/ p = <<t, iter[t]>>
    BY <1>2 DEF Store
  <2>5. Increments' = Increments \cup {<<t, iter[t]>>}
    BY <2>3, <2>4
  <2> QED
    BY <2>1, <2>2, <2>5 DEF Added
<1>3. ASSUME Sync PROVE Kept \/ Cleared
  BY <1>3 DEF Sync, Kept, Cleared
<1>4. ASSUME NEW t \in Threads,
             TakeQueueLock(t) \/ GrantLock(t) \/ EnterFree(t) \/ EnterBusy(t)
               \/ SaveState(t) \/ RemnantUnlocks(t) \/ RemnantDies(t)
               \/ LeaveToSleeper(t) \/ LeaveFree(t)
      PROVE  Kept
  BY <1>4 DEF TakeQueueLock, GrantLock, EnterFree, EnterBusy, SaveState,
              RemnantUnlocks, RemnantDies, benchVars, LeaveToSleeper, LeaveFree, KeepBench, Kept
<1>5. ASSUME NEW t \in Threads, WakeUp(t) \/ FreeQueueLock(t) PROVE Kept
  <2>1. counter' = counter
    BY <1>5 DEF WakeUp, FreeQueueLock, Returned
  <2>2. ASSUME NEW p \in Threads \X (0..NPerThread-1)
        PROVE  p \in Increments' <=> p \in Increments
    BY <1>5 DEF WakeUp, FreeQueueLock, Returned
  <2> QED
    BY <2>1, <2>2 DEF Kept
<1>6. CASE UNCHANGED queueVars
  BY <1>6 DEF queueVars, benchVars, Kept
<1> QED
  BY <1>1, <1>2, <1>3, <1>4, <1>5, <1>6
     DEF QueueNext, BenchStep, QueueStep, QueueSpins, QueueStopped

\* Every step keeps the inductive invariant.
LEMMA QueueInvStep == QueueInv /\ [QueueNext]_queueVars => QueueInv'
<1> SUFFICES ASSUME QueueInv, [QueueNext]_queueVars PROVE QueueInv'
  OBVIOUS
<1>1. QueueTypeOK /\ Owners /\ Counted
  BY DEF QueueInv, Owners
<1>2. CASE QueueNext
  <2>1. QueueTypeOK'
    BY <1>1, <1>2, QueueTypeStep DEF Owners
  <2>2. Owners'
    BY <1>1, <1>2, OwnersStep
  <2>3. SlotBounds'
    BY <1>2, SlotBoundsStep
  <2>4. Matched' /\ NoSleeperWhenFree'
    BY <1>2, <2>1, <2>2, <2>3, MatchedStep, NoSleeperStep
  <2>5. SleepersAreQueued'
    <3>1. queue_pos' < NumThreads /\ queue_pos' \in Nat /\ NumThreads \in Nat
      BY <2>1, <2>3, LockBenchAssumption, FS_CardinalityType
         DEF SlotBounds, QueueTypeOK, NumThreads
    <3>2. NumThreads <= MaxThreads + 1 => queue_pos' <= MaxThreads
      BY <3>1, MaxThreadsAssumption
    <3> QED
      BY <2>4, <3>2 DEF Matched, SleepersAreQueued, NumThreads
  <2>6. Counted'
    BY <1>1, <1>2, QueueIncrementsStep, CountedStep
  <2> QED
    BY <2>1, <2>2, <2>3, <2>4, <2>5, <2>6 DEF QueueInv, Owners
<1>3. CASE UNCHANGED queueVars
  <2>1. QueueTypeOK' /\ Owners'
    BY <1>1, <1>3 DEF queueVars, benchVars, lockVars, QueueTypeOK, Owners, QueueLoopBound,
       TrialBound, LoadedIsCurrent, InnerLockHasOneOwner, LockHasOneOwner, InnerOwner,
       LockOwner
  <2>2. SlotBounds' /\ NoSleeperWhenFree'
    BY <1>3 DEF QueueInv, queueVars, benchVars, lockVars, SlotBounds, NoSleeperWhenFree
  <2>3. SlotsInUse' = SlotsInUse
    BY <1>3 DEF queueVars, benchVars, lockVars, SlotsInUse
  <2>4. SleepersAreQueued'
    BY <1>3, <2>3 DEF QueueInv, queueVars, benchVars, lockVars, SleepersAreQueued
  <2>5. Counted'
    BY <1>1, <1>3 DEF queueVars, benchVars, Counted, NoLostUpdate, Increments
  <2> QED
    BY <2>1, <2>2, <2>4, <2>5 DEF QueueInv, Owners
<1> QED
  BY <1>2, <1>3

\* The invariant holds throughout every run of the benchmark.
THEOREM QueueInvariant == QueueSpec => []QueueInv
BY QueueInvInit, QueueInvStep, PTL DEF QueueSpec

\* Types: the state variables of the queue lock benchmark keep their types.
THEOREM QueueTypeCorrect == QueueSpec => []QueueTypeOK
<1>1. QueueInv => QueueTypeOK
  BY DEF QueueInv
<1> QED
  BY <1>1, QueueInvariant, PTL

\* Through every hand-over queue_lock_ has one owner exactly while it is locked.
THEOREM QueueInnerLockHasOneOwner == QueueSpec => []InnerLockHasOneOwner
<1>1. QueueInv => InnerLockHasOneOwner
  BY DEF QueueInv
<1> QED
  BY <1>1, QueueInvariant, PTL

\* Through every hand-over the lock has one owner exactly while is_locked_ is 1.
THEOREM QueueLockHasOneOwner == QueueSpec => []LockHasOneOwner
<1>1. QueueInv => LockHasOneOwner
  BY DEF QueueInv
<1> QED
  BY <1>1, QueueInvariant, PTL

\* No saved state is overwritten, forgotten or woken up twice, and with one slot
\* less than there are threads assert(slot < max_threads) holds.
THEOREM QueueSleepersAreQueued == QueueSpec => []SleepersAreQueued
<1>1. QueueInv => SleepersAreQueued
  BY DEF QueueInv
<1> QED
  BY <1>1, QueueInvariant, PTL

\* No thread is left asleep with nobody there to wake it up.
THEOREM QueueNoSleeperWhenFree == QueueSpec => []NoSleeperWhenFree
<1>1. QueueInv => NoSleeperWhenFree
  BY DEF QueueInv
<1> QED
  BY <1>1, QueueInvariant, PTL

\* No increment of the shared counter is lost, in any interleaving.
THEOREM QueueNoLostUpdate == QueueSpec => []NoLostUpdate
<1>1. QueueInv => NoLostUpdate
  BY DEF QueueInv, Counted
<1> QED
  BY <1>1, QueueInvariant, PTL

-----------------------------------------------------------------------------
(* No newcomer overtakes the queue *)

\* A thread that was granted a free lock found the queue empty, and keeps it so
\* until it gives up the inner mutex.
GrantedFindsEmpty == \A t \in Threads : pc[t] = "granted" => queue_pos = 0

LEMMA GrantedStep ==
    QueueInv /\ GrantedFindsEmpty /\ [QueueNext]_queueVars => GrantedFindsEmpty'
<1> SUFFICES ASSUME QueueInv, GrantedFindsEmpty, [QueueNext]_queueVars
             PROVE  GrantedFindsEmpty'
  OBVIOUS
<1> USE DEF QueueInv, QueueTypeOK, QueueLabels, Goto, GrantedFindsEmpty
<1>1. ASSUME BenchStep, UNCHANGED lockVars PROVE GrantedFindsEmpty'
  BY <1>1 DEF BenchStep, Spawn, Head, Load, Store, Sync, lockVars
<1>2. ASSUME NEW t \in Threads, EnterFree(t) PROVE GrantedFindsEmpty'
  BY <1>2 DEF EnterFree, NoSleeperWhenFree
<1>3. ASSUME NEW t \in Threads, EnterBusy(t) \/ LeaveToSleeper(t)
      PROVE  GrantedFindsEmpty'
  <2>1. \A u \in Threads : pc'[u] # "granted"
    BY <1>3 DEF EnterBusy, LeaveToSleeper, InnerLockHasOneOwner, InnerOwner
  <2> QED
    BY <2>1
<1>4. ASSUME NEW t \in Threads,
             TakeQueueLock(t) \/ GrantLock(t) \/ SaveState(t) \/ RemnantUnlocks(t)
               \/ RemnantDies(t) \/ LeaveFree(t) \/ FreeQueueLock(t) \/ WakeUp(t)
      PROVE  GrantedFindsEmpty'
  BY <1>4 DEF TakeQueueLock, GrantLock, SaveState, RemnantUnlocks, RemnantDies, benchVars, LeaveFree,
              FreeQueueLock, WakeUp, lockVars
<1>5. CASE UNCHANGED queueVars
  BY <1>5 DEF queueVars, benchVars, lockVars
<1> QED
  BY <1>1, <1>2, <1>3, <1>4, <1>5 DEF QueueNext, QueueStep, QueueSpins, QueueStopped

\* Who enters the critical section, in any step, returns from lock().
LEMMA OnlyGrantEnters ==
    ASSUME QueueTypeOK, [QueueNext]_queueVars, NEW t \in Threads, ~InCS(t), InCS(t)'
    PROVE  pc[t] \in {"granted", "woken"}
<1> USE DEF QueueTypeOK, QueueLabels, Goto, InCS
<1>1. ASSUME BenchStep PROVE FALSE
  BY <1>1 DEF BenchStep, Spawn, Head, Load, Store, Sync
<1>2. ASSUME NEW u \in Threads, QueueStep(u), ~UNCHANGED queueVars
      PROVE  pc[t] \in {"granted", "woken"}
  BY <1>2 DEF QueueStep, QueueSpins, TakeQueueLock, GrantLock, EnterFree, EnterBusy,
     SaveState, RemnantUnlocks, RemnantDies, benchVars, LeaveToSleeper, WakeUp, LeaveFree, FreeQueueLock
<1>3. ASSUME UNCHANGED queueVars PROVE FALSE
  BY <1>3 DEF queueVars, benchVars
<1> QED
  BY <1>1, <1>2, <1>3 DEF QueueNext, QueueStopped

\* While threads are queued, lock() returns only to a thread that was woken up,
\* and never to one that has come along and found the lock free.
THEOREM QueueNoBarging == QueueSpec => NoBarging
<1> DEFINE Enters == \A t \in Threads : ~InCS(t) /\ InCS(t)' /\ queue_pos > 0
                                             => pc[t] = "woken"
<1>1. QueueInit => GrantedFindsEmpty
  BY DEF QueueInit, BenchInit, GrantedFindsEmpty
<1>2. QueueInv /\ GrantedFindsEmpty /\ [QueueNext]_queueVars => GrantedFindsEmpty'
  BY GrantedStep
<1>3. QueueInv /\ GrantedFindsEmpty /\ [QueueNext]_queueVars => [Enters]_queueVars
  BY OnlyGrantEnters DEF QueueInv, GrantedFindsEmpty
<1> QED
  BY <1>1, <1>2, <1>3, QueueInvariant, PTL DEF QueueSpec, NoBarging

-----------------------------------------------------------------------------
(* What the validation of run_test sees *)

\* Each step keeps Judged; Sync is the one that judges.
LEMMA QueueJudgedStep == QueueInv /\ Judged /\ [QueueNext]_queueVars => Judged'
<1> SUFFICES ASSUME QueueInv, Judged, [QueueNext]_queueVars PROVE Judged'
  OBVIOUS
<1> USE NPerThreadNat, LockBenchAssumption
    DEF QueueInv, QueueTypeOK, QueueLabels, Goto, Judged, ValidationExact
<1>1. ASSUME NEW t \in Threads, Spawn(t) \/ Head(t) \/ Load(t) \/ Store(t)
      PROVE  Judged'
  BY <1>1 DEF Spawn, Head, Load, Store
<1>2. ASSUME Sync PROVE Judged'
  <2>1. trial \in Nat
    OBVIOUS
  <2> QED
    BY <1>2, <2>1, SyncJudges
<1>3. ASSUME NEW t \in Threads,
             TakeQueueLock(t) \/ GrantLock(t) \/ EnterFree(t) \/ EnterBusy(t)
               \/ SaveState(t) \/ RemnantUnlocks(t) \/ RemnantDies(t)
               \/ LeaveToSleeper(t) \/ LeaveFree(t)
      PROVE  Judged'
  BY <1>3 DEF TakeQueueLock, GrantLock, EnterFree, EnterBusy, SaveState,
              RemnantUnlocks, RemnantDies, benchVars, LeaveToSleeper, LeaveFree, KeepBench
<1>4. ASSUME NEW t \in Threads, WakeUp(t) \/ FreeQueueLock(t) PROVE Judged'
  BY <1>4 DEF WakeUp, FreeQueueLock, Returned
<1>5. CASE UNCHANGED queueVars
  BY <1>5 DEF queueVars, benchVars
<1> QED
  BY <1>1, <1>2, <1>3, <1>4, <1>5 DEF QueueNext, BenchStep, QueueStep, QueueSpins, QueueStopped

\* With the queue lock, too, "Counter mismatch" is reported if and only if
\* num_threads does not divide n.
THEOREM QueueValidationExact == QueueSpec => []ValidationExact
<1>1. QueueInit => Judged
  BY NPerThreadNat, LockBenchAssumption DEF QueueInit, BenchInit, Judged, ValidationExact
<1>2. Judged => ValidationExact
  BY DEF Judged
<1> QED
  BY <1>1, <1>2, QueueJudgedStep, QueueInvariant, PTL DEF QueueSpec

-----------------------------------------------------------------------------
(* The refinement *)

\* The critical section is part of owning the lock.
LEMMA QueueExclusion == LockHasOneOwner => MutualExclusion
BY DEF LockHasOneOwner, LockOwner, MutualExclusion, InCS

\* Two workers are never between lock() and unlock() at the same time.
THEOREM QueueMutualExclusion == QueueSpec => []MutualExclusion
BY QueueExclusion, QueueLockHasOneOwner, PTL

\* Every step maps to a step of Mutex or to a stuttering step: the return of
\* lock() is Acquire, the store Update, taking the inner mutex for unlock()
\* Release.
LEMMA QueueStepRefines ==
    QueueInv /\ QueueInv' /\ [QueueNext]_queueVars => [Promise!Next]_(Promise!vars)
<1> SUFFICES ASSUME QueueInv, QueueInv', [QueueNext]_queueVars
             PROVE  [Promise!Next]_(Promise!vars)
  OBVIOUS
<1> USE LockBenchAssumption
<1>a. /\ MutualExclusion /\ LockHasOneOwner /\ LoadedIsCurrent
      /\ pc \in [Threads -> QueueLabels]
  BY QueueExclusion DEF QueueInv, QueueTypeOK
<1>b. MutualExclusion'
  BY DEF QueueInv, LockHasOneOwner, LockOwner, MutualExclusion, InCS
<1>c. ASSUME SamePlaces, counter' = counter PROVE UNCHANGED Promise!vars
  BY <1>a, <1>b, <1>c, SamePlacesStutters
<1>1. ASSUME NEW t \in Threads, Spawn(t) \/ Head(t) \/ Load(t)
      PROVE  UNCHANGED Promise!vars
  BY <1>1, <1>a, <1>c DEF Spawn, Head, Load, Goto, InCS, SamePlaces
<1>2. ASSUME NEW t \in Threads, Store(t) PROVE Promise!Update(t)
  <2>1. pc'[t] = "unlock"
    BY <1>2, <1>a DEF Store, Goto
  <2> QED
    BY <1>2, <2>1, <1>a, <1>b, StoreUpdates
<1>3. ASSUME Sync PROVE [Promise!Restart]_(Promise!vars)
  BY <1>3, <1>a, <1>b, SyncRestarts
<1>4. ASSUME NEW t \in Threads, GrantLock(t) PROVE Promise!Acquire(t)
  <2>1. \A u \in Threads : ~InCS(u)
    BY <1>4, <1>a DEF GrantLock, LockHasOneOwner, LockOwner, InCS
  <2>2. pc'[t] = "load" /\ counter' = counter
    BY <1>4, <1>a DEF GrantLock, KeepBench, Goto
  <2> QED
    BY <2>1, <2>2, <1>a, <1>b, EntryAcquires
<1>5. ASSUME NEW t \in Threads, TakeQueueLock(t), pc[t] = "unlock"
      PROVE  Promise!Release(t)
  <2>1. \A u \in Threads : ~InCS(u)'
    BY <1>5, <1>a DEF TakeQueueLock, Goto, InCS, MutualExclusion
  <2>2. counter' = counter
    BY <1>5 DEF TakeQueueLock, KeepBench
  <2> QED
    BY <1>5, <2>1, <2>2, <1>a, <1>b, ExitReleases
<1>6. ASSUME NEW t \in Threads, TakeQueueLock(t), pc[t] = "lock"
      PROVE  UNCHANGED Promise!vars
  BY <1>6, <1>a, <1>c DEF TakeQueueLock, KeepBench, Goto, InCS, SamePlaces
<1>7. ASSUME NEW t \in Threads,
             EnterFree(t) \/ EnterBusy(t) \/ SaveState(t) \/ RemnantUnlocks(t)
               \/ RemnantDies(t) \/ LeaveToSleeper(t) \/ WakeUp(t) \/ LeaveFree(t) \/ FreeQueueLock(t)
      PROVE  UNCHANGED Promise!vars
  <2>1. SamePlaces
    BY <1>7, <1>a DEF EnterFree, EnterBusy, SaveState, RemnantUnlocks, RemnantDies, benchVars, LeaveToSleeper,
       WakeUp, LeaveFree, FreeQueueLock, Goto, InCS, SamePlaces
  <2>2. counter' = counter
    BY <1>7 DEF EnterFree, EnterBusy, SaveState, RemnantUnlocks, RemnantDies, benchVars, LeaveToSleeper,
       WakeUp, LeaveFree, FreeQueueLock, KeepBench, Returned
  <2> QED
    BY <2>1, <2>2, <1>c
<1>8. ASSUME UNCHANGED queueVars PROVE UNCHANGED Promise!vars
  BY <1>8, <1>a, <1>c DEF queueVars, benchVars, InCS, SamePlaces
<1>9. ASSUME NEW t \in Threads, TakeQueueLock(t) PROVE pc[t] \in {"lock", "unlock"}
  BY <1>9 DEF TakeQueueLock
<1> QED
  BY <1>1, <1>2, <1>3, <1>4, <1>5, <1>6, <1>7, <1>8, <1>9
     DEF QueueNext, BenchStep, QueueStep, QueueSpins, QueueStopped, Promise!Next

\* The benchmark on the queue lock implements the abstract mutex, though the
\* lock passes from thread to thread without ever being free.
THEOREM QueueImplementsMutex == QueueSpec => ImplementsMutex
<1>1. QueueInit => Promise!Init
  BY BenchInitMapped DEF QueueInit
<1>2. QueueInv /\ QueueInv' /\ [QueueNext]_queueVars => [Promise!Next]_(Promise!vars)
  BY QueueStepRefines
<1> QED
  BY <1>1, <1>2, QueueInvariant, PTL DEF QueueSpec, ImplementsMutex, Promise!Spec
=============================================================================
