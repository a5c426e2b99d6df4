-------------------------- MODULE AsmWorkerProofs --------------------------
(***************************************************************************)
(* Proofs about the assembly workers for any set of threads, any n, any    *)
(* number of trials and any choice of workers: on their registers they do  *)
(* step for step what the C++ worker does with a spin mutex.               *)
(***************************************************************************)
EXTENDS AsmWorker, FiniteSetTheorems, TLAPS

Labels == {"unborn", "entry", "loop", "spin", "cas", "critical", "store", "unlock", "done"}

\* Types of the registers, of memory and of the state of run_test.
TypeOK == /\ impl \in AsmImpls
          /\ phase \in {"spawn", "sync", "finished", "error"}
          /\ trial \in 0..NumTrials
          /\ mismatch \in BOOLEAN
          /\ memory \in [{"mutex", "counter"} -> Nat]
          /\ pc \in [Threads -> Labels]
          /\ D \in [Threads -> Nat]
          /\ A \in [Threads -> {"none", "mutex", "counter"}]
          /\ E4 \in [Threads -> 0..NPerThread]

\* A trial that is under way is one of the NumTrials.
TrialBound == phase \in {"spawn", "sync"} => trial < NumTrials

\* The address register points at the mutex when a worker is about to test it or
\* to swap it, and at the counter when it is about to store the sum.
Addressed == \A t \in Threads :
                /\ pc[t] \in {"loop", "spin", "cas"} => A[t] = "mutex"
                /\ pc[t] = "store" => A[t] = "counter"

\* The CAS of E and F expects 0, though no instruction puts it there.
ExpectsZero == \A t \in Threads : pc[t] = "cas" => D[t] = 0

\* E4 counts the iterations left: it is full until the loop is entered, and one
\* was taken off by a worker that is inside.
Counts == \A t \in Threads :
             /\ pc[t] \in {"unborn", "entry"} => E4[t] = NPerThread
             /\ InIteration(t) => E4[t] < NPerThread

\* Only the workers that test before they swap are ever at %cas.
TestsFirst == \A t \in Threads : pc[t] = "cas" => impl \in {"E", "F"}

\* The inductive invariant.
AsmInv == TypeOK /\ TrialBound /\ Addressed /\ ExpectsZero /\ Counts /\ TestsFirst

-----------------------------------------------------------------------------

\* The number of iterations is a natural number.
LEMMA IterationsNat == NPerThread \in Nat
<1>1. Cardinality(Threads) \in Nat \ {0}
  BY AsmAssumption, FS_CardinalityType, FS_EmptySet
<1> QED
  BY <1>1, AsmAssumption DEF NPerThread

\* The invariant holds when run_test starts.
LEMMA AsmInvInit == Init => AsmInv
<1> SUFFICES ASSUME Init PROVE AsmInv
  OBVIOUS
<1> USE IterationsNat, AsmAssumption DEF Init
<1>1. TypeOK
  <2>1. phase \in {"spawn", "sync", "finished", "error"} /\ trial \in 0..NumTrials
    OBVIOUS
  <2>2. pc \in [Threads -> Labels]
    BY DEF Labels
  <2>3. E4 \in [Threads -> 0..NPerThread] /\ D \in [Threads -> Nat]
    OBVIOUS
  <2>4. A \in [Threads -> {"none", "mutex", "counter"}]
    OBVIOUS
  <2>5. memory \in [{"mutex", "counter"} -> Nat]
    OBVIOUS
  <2> QED
    BY <2>1, <2>2, <2>3, <2>4, <2>5 DEF TypeOK
<1>2. TrialBound
  BY DEF TrialBound
<1>3. \A t \in Threads : pc[t] = "unborn" /\ E4[t] = NPerThread
  OBVIOUS
<1> QED
  BY <1>1, <1>2, <1>3 DEF AsmInv, Addressed, ExpectsZero, Counts, TestsFirst, InIteration

\* Every step keeps the inductive invariant.
LEMMA AsmInvStep == AsmInv /\ [Next]_vars => AsmInv'
<1> SUFFICES ASSUME AsmInv, [Next]_vars PROVE AsmInv'
  OBVIOUS
<1> USE IterationsNat, AsmAssumption
    DEF AsmInv, TypeOK, Labels, TrialBound, Addressed, ExpectsZero, Counts,
        TestsFirst, InIteration, Step, mainVars
<1>1. ASSUME NEW t \in Threads, Spawn(t) PROVE AsmInv'
  BY <1>1 DEF Spawn
<1>2. ASSUME Sync PROVE AsmInv'
  BY <1>2 DEF Sync, Fresh
<1>3. ASSUME NEW t \in Threads, Entry(t) PROVE AsmInv'
  BY <1>3 DEF Entry
<1>4. ASSUME NEW t \in Threads, Loop(t) PROVE AsmInv'
  BY <1>4 DEF Loop
<1>5. ASSUME NEW t \in Threads, TestAndSpin(t) PROVE AsmInv'
  BY <1>5 DEF TestAndSpin
<1>6. ASSUME NEW t \in Threads, SpinOnCas(t) PROVE AsmInv'
  BY <1>6 DEF SpinOnCas, CompareAndSwap
<1>7. ASSUME NEW t \in Threads, Cas(t) PROVE AsmInv'
  BY <1>7 DEF Cas, CompareAndSwap
<1>8. ASSUME NEW t \in Threads, LoadCounter(t) PROVE AsmInv'
  BY <1>8 DEF LoadCounter
<1>9. ASSUME NEW t \in Threads, StoreCounter(t) PROVE AsmInv'
  BY <1>9 DEF StoreCounter
<1>10. ASSUME NEW t \in Threads, Unlock(t) PROVE AsmInv'
  BY <1>10 DEF Unlock
<1>11. CASE UNCHANGED vars
  BY <1>11 DEF vars
<1> QED
  BY <1>1, <1>2, <1>3, <1>4, <1>5, <1>6, <1>7, <1>8, <1>9, <1>10, <1>11
     DEF Next, MainStep, WorkerStep

\* The registers hold what the instructions take for granted, in every state.
THEOREM AsmInvariant == Spec => []AsmInv
BY AsmInvInit, AsmInvStep, PTL DEF Spec

-----------------------------------------------------------------------------
(* The refinement of SpinLock *)

\* What the registers and labels stand for in the source: the variables of
\* SpinWorker.
PcOf == [t \in Threads |-> Source[pc[t]]]
IterOf == [t \in Threads |-> NPerThread - E4[t] - (IF InIteration(t) THEN 1 ELSE 0)]
RegOf == [t \in Threads |-> IF pc[t] = "store" THEN D[t] ELSE 0]

\* The labels of the source, one by one.
LEMMA SourceOf ==
    /\ Source["unborn"] = "unborn" /\ Source["entry"] = "head" /\ Source["loop"] = "head"
    /\ Source["spin"] = "lock" /\ Source["cas"] = "cas" /\ Source["critical"] = "load"
    /\ Source["store"] = "store" /\ Source["unlock"] = "unlock" /\ Source["done"] = "done"
BY DEF Source

\* A worker that goes on at another label does so in the source.
LEMMA PcOfStep ==
    ASSUME TypeOK, NEW t \in Threads, NEW k \in Labels, NEW l \in Labels,
           pc[t] = k, pc' = [pc EXCEPT ![t] = l]
    PROVE  /\ PcOf[t] = Source[k]
           /\ PcOf' = [PcOf EXCEPT ![t] = Source[l]]
BY DEF PcOf, TypeOK

\* If the source has one label for both, nothing changes there.
LEMMA PcOfSame ==
    ASSUME TypeOK, NEW t \in Threads, NEW k \in Labels, NEW l \in Labels,
           pc[t] = k, pc' = [pc EXCEPT ![t] = l], Source[k] = Source[l]
    PROVE  PcOf' = PcOf
BY DEF PcOf, TypeOK

\* i stays what it is as long as E4 and being inside an iteration change together.
LEMMA IterOfSame ==
    ASSUME TypeOK, TypeOK',
           \A t \in Threads : E4'[t] + (IF InIteration(t)' THEN 1 ELSE 0)
                                = E4[t] + (IF InIteration(t) THEN 1 ELSE 0)
    PROVE  IterOf' = IterOf
BY IterationsNat DEF IterOf, TypeOK

\* Nothing that the source has a variable for changes.
LEMMA Unseen ==
    ASSUME PcOf' = PcOf, IterOf' = IterOf, RegOf' = RegOf, UNCHANGED mainVars,
           UNCHANGED memory
    PROVE  UNCHANGED SpinWorker!spinVars
BY DEF SpinWorker!spinVars, SpinWorker!benchVars, PcOf, IterOf, RegOf, mainVars

\* Both count the same number of iterations.
LEMMA SameIterations == SpinWorker!NPerThread = NPerThread
BY Zenon DEF SpinWorker!NPerThread, SpinWorker!NumThreads, NPerThread,
             SpinWorker!Cardinality, Cardinality

-----------------------------------------------------------------------------
(* Each action does what an action of the source does, or nothing there *)

\* The instructions in front of the loop are not in the source.
LEMMA EntryUnseen ==
    ASSUME AsmInv, AsmInv', NEW t \in Threads, Entry(t)
    PROVE  UNCHANGED SpinWorker!spinVars
<1>a. TypeOK /\ TypeOK' /\ "entry" \in Labels /\ "loop" \in Labels
  BY DEF AsmInv, Labels
<1>1. pc[t] = "entry" /\ pc' = [pc EXCEPT ![t] = "loop"]
  BY DEF Entry, Step
<1>2. PcOf' = PcOf
  BY <1>a, <1>1, PcOfSame, SourceOf
<1>3. IterOf' = IterOf
  BY <1>a, <1>1, IterOfSame DEF TypeOK, InIteration, Entry
<1>4. RegOf' = RegOf
  BY <1>a, <1>1 DEF TypeOK, RegOf, Entry, Step
<1> QED
  BY <1>2, <1>3, <1>4, Unseen DEF Entry

\* The branch on E4 is the comparison of i with n_per_thread.
LEMMA LoopIsHead ==
    ASSUME AsmInv, AsmInv', NEW t \in Threads, Loop(t)
    PROVE  SpinWorker!Head(t) /\ UNCHANGED memory
<1> DEFINE next == IF E4[t] # 0 THEN "spin" ELSE "done"
<1>a. /\ TypeOK /\ TypeOK' /\ "loop" \in Labels /\ "spin" \in Labels
      /\ "done" \in Labels
  BY DEF AsmInv, Labels
<1>1. pc[t] = "loop" /\ pc' = [pc EXCEPT ![t] = next] /\ next \in Labels
  BY <1>a DEF Loop, Step
<1>2. PcOf[t] = "head" /\ PcOf' = [PcOf EXCEPT ![t] = Source[next]]
  <2> HIDE DEF next
  <2> QED
    BY <1>a, <1>1, PcOfStep, SourceOf
<1>3. IterOf' = IterOf
  BY <1>a, <1>1, IterOfSame DEF TypeOK, InIteration, Loop
<1>4. RegOf' = RegOf
  BY <1>a, <1>1 DEF TypeOK, RegOf, Loop, Step
<1>5. IterOf[t] < NPerThread <=> E4[t] # 0
  BY <1>a, <1>1, IterationsNat DEF TypeOK, IterOf, InIteration
<1>6. Source[next] = IF IterOf[t] < NPerThread THEN "lock" ELSE "done"
  BY <1>5, SourceOf
<1>7. UNCHANGED <<memory, mainVars>>
  BY DEF Loop
<1>8. SpinWorker!NPerThread = NPerThread
  BY SameIterations
<1>9. PcOf' = [PcOf EXCEPT ![t] = IF IterOf[t] < SpinWorker!NPerThread
                                  THEN "lock" ELSE "done"]
  BY <1>2, <1>6, <1>8
<1> QED
  BY <1>2, <1>3, <1>4, <1>7, <1>9
     DEF SpinWorker!Head, SpinWorker!Goto, PcOf, IterOf, RegOf, mainVars

\* A load that finds the mutex free ends the inner loop.
LEMMA FoundFreeIsTest ==
    ASSUME AsmInv, AsmInv', NEW t \in Threads, TestAndSpin(t), memory.mutex = 0
    PROVE  SpinWorker!Test(t)
<1>a. TypeOK /\ TypeOK' /\ "spin" \in Labels /\ "cas" \in Labels
  BY DEF AsmInv, Labels
<1>1. /\ impl \in {"E", "F"} /\ pc[t] = "spin" /\ pc' = [pc EXCEPT ![t] = "cas"]
  BY DEF AsmInv, TestAndSpin, Addressed, Step
<1>2. PcOf[t] = Source["spin"] /\ PcOf' = [PcOf EXCEPT ![t] = Source["cas"]]
  BY <1>a, <1>1, PcOfStep
<1>3. IterOf' = IterOf
  BY <1>a, <1>1, IterOfSame DEF TypeOK, InIteration, TestAndSpin
<1>4. RegOf' = RegOf
  BY <1>a, <1>1 DEF TypeOK, RegOf, TestAndSpin, Step
<1>5. UNCHANGED <<memory, mainVars>>
  BY DEF TestAndSpin
<1> QED
  BY <1>1, <1>2, <1>3, <1>4, <1>5, SourceOf
     DEF SpinWorker!Test, SpinWorker!SpinsOnLoad, SpinWorker!Goto, PcOf, IterOf, RegOf,
         mainVars

\* A load that finds it taken is repeated.
LEMMA FoundTakenUnseen ==
    ASSUME AsmInv, AsmInv', NEW t \in Threads, TestAndSpin(t), memory.mutex # 0
    PROVE  UNCHANGED SpinWorker!spinVars
<1>a. TypeOK /\ TypeOK'
  BY DEF AsmInv
<1>1. pc[t] = "spin" /\ pc' = pc
  BY <1>a DEF AsmInv, TestAndSpin, Addressed, Step, TypeOK
<1>2. PcOf' = PcOf
  BY <1>1 DEF PcOf
<1>3. IterOf' = IterOf
  BY <1>1 DEF IterOf, InIteration, TestAndSpin
<1>4. RegOf' = RegOf
  BY <1>a, <1>1 DEF TypeOK, RegOf, TestAndSpin, Step
<1> QED
  BY <1>2, <1>3, <1>4, Unseen DEF TestAndSpin

\* A CAS that finds the mutex free, from either label, takes it: the word that is
\* compared is the mutex, and the value that is expected is 0.
LEMMA CasTakes ==
    ASSUME AsmInv, AsmInv', NEW t \in Threads, SpinOnCas(t) \/ Cas(t), memory.mutex = 0
    PROVE  SpinWorker!CasSucceeds(t)
<1> DEFINE from == IF impl \in {"B", "C", "E", "F"} THEN "cas" ELSE "spin"
<1>a. /\ TypeOK /\ TypeOK' /\ "spin" \in Labels /\ "cas" \in Labels
      /\ "critical" \in Labels
  BY DEF AsmInv, Labels
<1>1. pc[t] = from /\ from \in Labels /\ A[t] = "mutex"
  BY <1>a DEF AsmInv, SpinOnCas, Cas, TestsFirst, Addressed
<1>2. pc' = [pc EXCEPT ![t] = "critical"] /\ memory' = [memory EXCEPT !.mutex = 1]
  BY <1>1 DEF AsmInv, SpinOnCas, Cas, CompareAndSwap, ExpectsZero, Step
<1>3. PcOf[t] = Source[from] /\ PcOf' = [PcOf EXCEPT ![t] = Source["critical"]]
  <2> HIDE DEF from
  <2> QED
    BY <1>a, <1>1, <1>2, PcOfStep
<1>4. Source[from] = IF impl \in {"B", "C", "E", "F"} THEN "cas" ELSE "lock"
  BY SourceOf
<1>5. UNCHANGED <<mainVars, E4>>
  BY DEF SpinOnCas, Cas, CompareAndSwap
<1>6. IterOf' = IterOf
  BY <1>a, <1>1, <1>2, <1>5, IterOfSame DEF TypeOK, InIteration
<1>7. RegOf' = RegOf
  BY <1>a, <1>1, <1>2 DEF TypeOK, RegOf, SpinOnCas, Cas, CompareAndSwap, Step
<1>8. memory'.mutex = 1 /\ memory'.counter = memory.counter
  BY <1>a, <1>2 DEF TypeOK
<1> HIDE DEF from
<1> QED
  BY <1>3, <1>4, <1>5, <1>6, <1>7, <1>8, SourceOf
     DEF SpinWorker!CasSucceeds, SpinWorker!SpinsOnLoad, SpinWorker!Goto, PcOf, IterOf,
         RegOf, mainVars

\* D repeats a CAS that fails.
LEMMA SpinOnCasUnseen ==
    ASSUME AsmInv, AsmInv', NEW t \in Threads, SpinOnCas(t), memory.mutex # 0
    PROVE  UNCHANGED SpinWorker!spinVars
<1>a. TypeOK /\ TypeOK'
  BY DEF AsmInv
<1>1. pc[t] = "spin" /\ pc' = pc /\ memory' = memory
  BY <1>a DEF AsmInv, SpinOnCas, CompareAndSwap, Addressed, Step, TypeOK
<1>2. PcOf' = PcOf
  BY <1>1 DEF PcOf
<1>3. IterOf' = IterOf
  BY <1>1 DEF IterOf, InIteration, SpinOnCas, CompareAndSwap
<1>4. RegOf' = RegOf
  BY <1>a, <1>1 DEF TypeOK, RegOf, SpinOnCas, CompareAndSwap, Step
<1> QED
  BY <1>1, <1>2, <1>3, <1>4, Unseen DEF SpinOnCas, CompareAndSwap

\* E and F go back to the test.
LEMMA CasIsCasFails ==
    ASSUME AsmInv, AsmInv', NEW t \in Threads, Cas(t), memory.mutex # 0
    PROVE  SpinWorker!CasFails(t)
<1>a. TypeOK /\ TypeOK' /\ "spin" \in Labels /\ "cas" \in Labels
  BY DEF AsmInv, Labels
<1>1. pc[t] = "cas" /\ pc' = [pc EXCEPT ![t] = "spin"] /\ memory' = memory
  BY DEF AsmInv, Cas, CompareAndSwap, ExpectsZero, Addressed, Step
<1>2. PcOf[t] = Source["cas"] /\ PcOf' = [PcOf EXCEPT ![t] = Source["spin"]]
  BY <1>a, <1>1, PcOfStep
<1>3. UNCHANGED <<mainVars, E4>>
  BY DEF Cas, CompareAndSwap
<1>4. IterOf' = IterOf
  BY <1>a, <1>1, <1>3, IterOfSame DEF TypeOK, InIteration
<1>5. RegOf' = RegOf
  BY <1>a, <1>1 DEF TypeOK, RegOf, Cas, CompareAndSwap, Step
<1> QED
  BY <1>1, <1>2, <1>3, <1>4, <1>5, SourceOf
     DEF SpinWorker!CasFails, SpinWorker!Goto, PcOf, IterOf, RegOf, mainVars

\* The load of the counter.
LEMMA LoadCounterIsLoad ==
    ASSUME AsmInv, AsmInv', NEW t \in Threads, LoadCounter(t)
    PROVE  SpinWorker!Load(t) /\ UNCHANGED memory
<1>a. TypeOK /\ TypeOK' /\ "critical" \in Labels /\ "store" \in Labels
  BY DEF AsmInv, Labels
<1>1. pc[t] = "critical" /\ pc' = [pc EXCEPT ![t] = "store"]
  BY DEF LoadCounter, Step
<1>2. PcOf[t] = Source["critical"] /\ PcOf' = [PcOf EXCEPT ![t] = Source["store"]]
  BY <1>a, <1>1, PcOfStep
<1>3. UNCHANGED <<mainVars, memory, E4>>
  BY DEF LoadCounter
<1>4. IterOf' = IterOf
  BY <1>a, <1>1, <1>3, IterOfSame DEF TypeOK, InIteration
<1>5. RegOf' = [RegOf EXCEPT ![t] = memory.counter]
  BY <1>a, <1>1 DEF TypeOK, RegOf, LoadCounter, Step
<1> QED
  BY <1>2, <1>3, <1>4, <1>5, SourceOf
     DEF SpinWorker!Load, SpinWorker!Goto, PcOf, IterOf, RegOf, mainVars

\* The store of the sum, which goes to the counter.
LEMMA StoreCounterIsStore ==
    ASSUME AsmInv, AsmInv', NEW t \in Threads, StoreCounter(t)
    PROVE  SpinWorker!Store(t) /\ memory'.mutex = memory.mutex
<1>a. TypeOK /\ TypeOK' /\ "store" \in Labels /\ "unlock" \in Labels
  BY DEF AsmInv, Labels
<1>1. pc[t] = "store" /\ pc' = [pc EXCEPT ![t] = "unlock"] /\ A[t] = "counter"
  BY DEF AsmInv, StoreCounter, Step, Addressed
<1>2. PcOf[t] = Source["store"] /\ PcOf' = [PcOf EXCEPT ![t] = Source["unlock"]]
  BY <1>a, <1>1, PcOfStep
<1>3. UNCHANGED <<mainVars, E4>>
  BY DEF StoreCounter
<1>4. IterOf' = IterOf
  BY <1>a, <1>1, <1>3, IterOfSame DEF TypeOK, InIteration
<1>5. RegOf' = [RegOf EXCEPT ![t] = 0] /\ RegOf[t] = D[t]
  BY <1>a, <1>1 DEF TypeOK, RegOf, StoreCounter, Step
<1>6. memory'.mutex = memory.mutex /\ memory'.counter = D[t] + 1
  BY <1>a, <1>1 DEF TypeOK, StoreCounter
<1> QED
  BY <1>2, <1>3, <1>4, <1>5, <1>6, SourceOf
     DEF SpinWorker!Store, SpinWorker!Goto, PcOf, IterOf, RegOf, mainVars

\* The store of 0, which goes to the mutex, and the end of an iteration.
LEMMA UnlockIsUnlock ==
    ASSUME AsmInv, AsmInv', NEW t \in Threads, Unlock(t)
    PROVE  SpinWorker!Unlock(t)
<1>a. TypeOK /\ TypeOK' /\ "unlock" \in Labels /\ "loop" \in Labels
  BY DEF AsmInv, Labels
<1>1. pc[t] = "unlock" /\ pc' = [pc EXCEPT ![t] = "loop"]
  BY DEF Unlock, Step
<1>2. PcOf[t] = Source["unlock"] /\ PcOf' = [PcOf EXCEPT ![t] = Source["loop"]]
  BY <1>a, <1>1, PcOfStep
<1>3. UNCHANGED <<mainVars, E4>>
  BY DEF Unlock
<1>4. IterOf' = [IterOf EXCEPT ![t] = @ + 1]
  <2>1. \A u \in Threads \ {t} : InIteration(u)' <=> InIteration(u)
    BY <1>a, <1>1 DEF TypeOK, InIteration
  <2>2. InIteration(t) /\ ~InIteration(t)'
    BY <1>a, <1>1 DEF TypeOK, InIteration
  <2>3. \A u \in Threads : E4[u] \in Nat /\ E4'[u] = E4[u]
    BY <1>a, <1>3, IterationsNat DEF TypeOK
  <2>4. \A u \in Threads \ {t} : IterOf'[u] = IterOf[u]
    BY <2>1, <2>3 DEF IterOf
  <2>5. IterOf'[t] = IterOf[t] + 1
    BY <2>2, <2>3, IterationsNat DEF IterOf
  <2>6. IterOf \in [Threads -> Int] /\ IterOf' \in [Threads -> Int]
    BY <2>3, IterationsNat DEF IterOf
  <2> HIDE DEF IterOf
  <2> QED
    BY <2>4, <2>5, <2>6
<1>5. RegOf' = RegOf
  BY <1>a, <1>1 DEF TypeOK, RegOf, Unlock, Step
<1>6. memory'.mutex = 0 /\ memory'.counter = memory.counter
  BY <1>a DEF TypeOK, Unlock
<1> QED
  BY <1>2, <1>3, <1>4, <1>5, <1>6, SourceOf
     DEF SpinWorker!Unlock, SpinWorker!Goto, SpinWorker!Returned, PcOf, IterOf, RegOf,
         mainVars

\* A worker is unborn, or done, in the source when it is so here.
LEMMA EndsOf ==
    ASSUME TypeOK, NEW t \in Threads
    PROVE  /\ PcOf[t] = "unborn" <=> pc[t] = "unborn"
           /\ PcOf[t] = "done" <=> pc[t] = "done"
<1>1. pc[t] \in Labels /\ PcOf[t] = Source[pc[t]]
  BY DEF TypeOK, PcOf
<1> QED
  BY <1>1, SourceOf DEF Labels

\* The spawn of a worker.
LEMMA SpawnIsSpawn ==
    ASSUME AsmInv, AsmInv', NEW t \in Threads, Spawn(t)
    PROVE  SpinWorker!Spawn(t) /\ UNCHANGED <<impl, memory>>
<1>a. TypeOK /\ TypeOK' /\ "unborn" \in Labels /\ "entry" \in Labels
  BY DEF AsmInv, Labels
<1>1. pc[t] = "unborn" /\ pc' = [pc EXCEPT ![t] = "entry"]
  BY DEF Spawn
<1>2. PcOf[t] = Source["unborn"] /\ PcOf' = [PcOf EXCEPT ![t] = Source["entry"]]
  BY <1>a, <1>1, PcOfStep
<1>3. IterOf' = IterOf
  BY <1>a, <1>1, IterOfSame DEF TypeOK, InIteration, Spawn
<1>4. RegOf' = RegOf
  BY <1>a, <1>1 DEF TypeOK, RegOf, Spawn
<1>5. /\ phase = "spawn"
      /\ phase' = IF \E u \in Threads \ {t} : PcOf[u] = "unborn" THEN "spawn" ELSE "sync"
  BY <1>a, EndsOf DEF Spawn
<1>6. UNCHANGED <<impl, trial, mismatch, memory>>
  BY DEF Spawn
<1> QED
  BY <1>2, <1>3, <1>4, <1>5, <1>6, SourceOf
     DEF SpinWorker!Spawn, SpinWorker!Goto, PcOf, IterOf, RegOf

\* cilk_sync, the comparison with n, and the next trial on the same mutex.
LEMMA SyncIsSync ==
    ASSUME AsmInv, AsmInv', Sync
    PROVE  SpinWorker!Sync /\ impl' = impl /\ memory'.mutex = memory.mutex
<1>a. TypeOK /\ TypeOK'
  BY DEF AsmInv
<1>1. phase = "sync" /\ \A t \in Threads : PcOf[t] = "done"
  BY <1>a, EndsOf DEF Sync
<1>2. /\ mismatch' = (mismatch \/ memory.counter # N)
      /\ trial' = trial + 1 /\ impl' = impl
  BY DEF Sync
<1>3. ASSUME trial + 1 < NumTrials
      PROVE  /\ phase' = "spawn"
             /\ memory'.counter = 0 /\ memory'.mutex = memory.mutex
             /\ PcOf' = [t \in Threads |-> "unborn"]
             /\ IterOf' = [t \in Threads |-> 0]
             /\ RegOf' = [t \in Threads |-> 0]
  <2>1. phase' = "spawn" /\ memory' = [memory EXCEPT !.counter = 0] /\ Fresh
    BY <1>3 DEF Sync
  <2>2. \A t \in Threads : pc'[t] = "unborn" /\ E4'[t] = NPerThread
    BY <2>1 DEF Fresh
  <2>3. PcOf' = [t \in Threads |-> "unborn"]
    BY <2>2, SourceOf DEF PcOf
  <2>4. IterOf' = [t \in Threads |-> 0] /\ RegOf' = [t \in Threads |-> 0]
    BY <2>2, IterationsNat DEF IterOf, RegOf, InIteration
  <2> QED
    BY <1>a, <2>1, <2>3, <2>4 DEF TypeOK
<1>4. ASSUME ~(trial + 1 < NumTrials)
      PROVE  /\ phase' = "finished"
             /\ UNCHANGED memory
             /\ PcOf' = PcOf /\ IterOf' = IterOf /\ RegOf' = RegOf
  <2>1. phase' = "finished" /\ UNCHANGED <<memory, pc, D, E4>>
    BY <1>4 DEF Sync
  <2> QED
    BY <2>1 DEF PcOf, IterOf, RegOf, InIteration
<1>5. SpinWorker!Sync
  BY <1>1, <1>2, <1>3, <1>4 DEF SpinWorker!Sync, PcOf, IterOf, RegOf
<1> QED
  BY <1>2, <1>3, <1>4, <1>5

-----------------------------------------------------------------------------

\* run_test starts in the same way.
LEMMA InitIsInit == Init => SpinWorker!SpinInit
<1> SUFFICES ASSUME Init PROVE SpinWorker!SpinInit
  OBVIOUS
<1>1. \A t \in Threads : pc[t] = "unborn" /\ E4[t] = NPerThread
  BY DEF Init
<1>2. PcOf = [t \in Threads |-> "unborn"]
  BY <1>1, SourceOf DEF PcOf
<1>3. IterOf = [t \in Threads |-> 0] /\ RegOf = [t \in Threads |-> 0]
  BY <1>1, IterationsNat DEF IterOf, RegOf, InIteration
<1>4. SpinWorker!NPerThread = NPerThread
  BY SameIterations
<1>5. memory.counter = 0 /\ memory.mutex = 0
  BY DEF Init
<1>6. /\ phase = IF SpinWorker!NPerThread = 0 THEN "error" ELSE "spawn"
      /\ trial = 0 /\ mismatch = FALSE /\ impl \in AsmImpls
  BY <1>4 DEF Init
<1> QED
  BY <1>2, <1>3, <1>5, <1>6 DEF SpinWorker!SpinInit, SpinWorker!BenchInit, PcOf, IterOf, RegOf

\* Every step is a step of the source or unseen there.
LEMMA AsmStepRefines ==
    AsmInv /\ AsmInv' /\ [Next]_vars => [SpinWorker!SpinNext]_(SpinWorker!spinVars)
<1> SUFFICES ASSUME AsmInv, AsmInv', [Next]_vars
             PROVE  [SpinWorker!SpinNext]_(SpinWorker!spinVars)
  OBVIOUS
<1> USE DEF SpinWorker!SpinNext, SpinWorker!BenchStep, SpinWorker!SpinStep
<1>1. ASSUME NEW t \in Threads, Spawn(t) PROVE SpinWorker!SpinNext
  BY <1>1, SpawnIsSpawn
<1>2. ASSUME Sync PROVE SpinWorker!SpinNext
  BY <1>2, SyncIsSync
<1>3. ASSUME NEW t \in Threads, Entry(t) PROVE UNCHANGED SpinWorker!spinVars
  BY <1>3, EntryUnseen
<1>4. ASSUME NEW t \in Threads, Loop(t) PROVE SpinWorker!SpinNext
  <2>1. SpinWorker!Head(t) /\ UNCHANGED memory /\ UNCHANGED impl
    BY <1>4, LoopIsHead DEF Loop, mainVars
  <2> QED
    BY <2>1
<1>5. ASSUME NEW t \in Threads, TestAndSpin(t)
      PROVE  SpinWorker!SpinNext \/ UNCHANGED SpinWorker!spinVars
  BY <1>5, FoundFreeIsTest, FoundTakenUnseen
<1>6. ASSUME NEW t \in Threads, SpinOnCas(t) \/ Cas(t)
      PROVE  SpinWorker!SpinNext \/ UNCHANGED SpinWorker!spinVars
  BY <1>6, CasTakes, SpinOnCasUnseen, CasIsCasFails
<1>7. ASSUME NEW t \in Threads, LoadCounter(t) PROVE SpinWorker!SpinNext
  <2>1. SpinWorker!Load(t) /\ UNCHANGED memory /\ UNCHANGED impl
    BY <1>7, LoadCounterIsLoad DEF LoadCounter, mainVars
  <2> QED
    BY <2>1
<1>8. ASSUME NEW t \in Threads, StoreCounter(t) PROVE SpinWorker!SpinNext
  <2>1. SpinWorker!Store(t) /\ memory'.mutex = memory.mutex /\ UNCHANGED impl
    BY <1>8, StoreCounterIsStore DEF StoreCounter, mainVars
  <2> QED
    BY <2>1
<1>9. ASSUME NEW t \in Threads, Unlock(t) PROVE SpinWorker!SpinNext
  BY <1>9, UnlockIsUnlock
<1>10. CASE UNCHANGED vars
  <2>1. PcOf' = PcOf /\ IterOf' = IterOf /\ RegOf' = RegOf
    BY <1>10 DEF vars, PcOf, IterOf, RegOf, InIteration
  <2> QED
    BY <1>10, <2>1, Unseen DEF vars
<1> QED
  BY <1>1, <1>2, <1>3, <1>4, <1>5, <1>6, <1>7, <1>8, <1>9, <1>10
     DEF Next, MainStep, WorkerStep

\* The hand-written workers implement the C++ worker on a spin mutex, whatever
\* the number of threads and iterations.
THEOREM AsmImplementsSpinLock == Spec => ImplementsSpinLock
<1>1. Init => SpinWorker!SpinInit
  BY InitIsInit
<1>2. AsmInv /\ AsmInv' /\ [Next]_vars => [SpinWorker!SpinNext]_(SpinWorker!spinVars)
  BY AsmStepRefines
<1> QED
  BY <1>1, <1>2, AsmInvariant, PTL DEF Spec, ImplementsSpinLock, SpinWorker!SpinSpec

-----------------------------------------------------------------------------
(* What follows from the proofs about SpinLock *)

\* SpinWorker again, this time with the theorems.  Those about the queue lock are
\* not used, and its state is none here.
Cpp == INSTANCE LockProofs WITH
    Impls <- AsmImpls,
    counter <- memory.counter,
    lock <- memory.mutex,
    pc <- [t \in Threads |-> Source[pc[t]]],
    iter <- [t \in Threads |-> NPerThread - E4[t] - (IF InIteration(t) THEN 1 ELSE 0)],
    reg <- [t \in Threads |-> IF pc[t] = "store" THEN D[t] ELSE 0],
    MaxThreads <- 1, qlock <- 0, is_locked <- 0, queue_pos <- 0, queue <- <<>>,
    slot <- <<>>, remnant <- <<>>, dying <- {}

\* The assumptions of those theorems.
LEMMA CppAssumptions ==
    /\ Cpp!IsFiniteSet(Threads) /\ Threads # {}
    /\ N \in Nat \ {0}
    /\ NumTrials \in Nat \ {0}
    /\ None \notin Threads
    /\ AsmImpls \subseteq {"A", "B", "C", "D", "E", "F"}
    /\ 1 \in Nat \ {0}
<1>1. Cpp!IsFiniteSet(Threads) <=> IsFiniteSet(Threads)
  BY Zenon DEF Cpp!IsFiniteSet, IsFiniteSet
<1> QED
  BY <1>1, AsmAssumption

\* The two instances are the same specification.
LEMMA CppInit == SpinWorker!SpinInit => Cpp!SpinInit
BY Zenon DEF Cpp!SpinInit, SpinWorker!SpinInit, Cpp!BenchInit, SpinWorker!BenchInit,
     Cpp!NPerThread, SpinWorker!NPerThread, Cpp!NumThreads, SpinWorker!NumThreads,
     Cpp!Cardinality, SpinWorker!Cardinality

\* ... step for step ...
LEMMA CppStep ==
    [SpinWorker!SpinNext]_(SpinWorker!spinVars) => [Cpp!SpinNext]_(Cpp!spinVars)
<1>1. SpinWorker!BenchStep => Cpp!BenchStep
  BY Zenon DEF Cpp!BenchStep, SpinWorker!BenchStep, Cpp!Spawn, SpinWorker!Spawn,
       Cpp!Head, SpinWorker!Head, Cpp!Load, SpinWorker!Load, Cpp!Store, SpinWorker!Store,
       Cpp!Sync, SpinWorker!Sync, Cpp!Goto, SpinWorker!Goto, Cpp!NPerThread,
       SpinWorker!NPerThread, Cpp!NumThreads, SpinWorker!NumThreads, Cpp!Cardinality,
       SpinWorker!Cardinality
<1>2. ASSUME NEW t \in Threads, SpinWorker!SpinStep(t) PROVE Cpp!SpinStep(t)
  <2>1. SpinWorker!Spins(t) => Cpp!Spins(t)
    BY Zenon DEF Cpp!Spins, SpinWorker!Spins, Cpp!spinVars, SpinWorker!spinVars,
         Cpp!benchVars, SpinWorker!benchVars
  <2>2. SpinWorker!Test(t) => Cpp!Test(t)
    BY Zenon DEF Cpp!Test, SpinWorker!Test, Cpp!SpinsOnLoad, SpinWorker!SpinsOnLoad,
         Cpp!Goto, SpinWorker!Goto
  <2>3. SpinWorker!CasSucceeds(t) => Cpp!CasSucceeds(t)
    BY Zenon DEF Cpp!CasSucceeds, SpinWorker!CasSucceeds, Cpp!SpinsOnLoad,
         SpinWorker!SpinsOnLoad, Cpp!Goto, SpinWorker!Goto
  <2>4. SpinWorker!CasFails(t) => Cpp!CasFails(t)
    BY Zenon DEF Cpp!CasFails, SpinWorker!CasFails, Cpp!Goto, SpinWorker!Goto
  <2>5. SpinWorker!Unlock(t) => Cpp!Unlock(t)
    BY Zenon DEF Cpp!Unlock, SpinWorker!Unlock, Cpp!Returned, SpinWorker!Returned,
         Cpp!Goto, SpinWorker!Goto
  <2> QED
    BY <1>2, <2>1, <2>2, <2>3, <2>4, <2>5, Zenon DEF Cpp!SpinStep, SpinWorker!SpinStep
<1>3. SpinWorker!SpinStopped => Cpp!SpinStopped
  BY Zenon DEF Cpp!SpinStopped, SpinWorker!SpinStopped, Cpp!Ended, SpinWorker!Ended,
       Cpp!spinVars, SpinWorker!spinVars, Cpp!benchVars, SpinWorker!benchVars
<1>4. UNCHANGED SpinWorker!spinVars => UNCHANGED Cpp!spinVars
  BY Zenon DEF Cpp!spinVars, SpinWorker!spinVars, Cpp!benchVars, SpinWorker!benchVars
<1> QED
  BY <1>1, <1>2, <1>3, <1>4, Zenon DEF Cpp!SpinNext, SpinWorker!SpinNext

\* ... so that AsmWorker implements the one with the theorems, too.
LEMMA CppSpec == Spec => Cpp!SpinSpec
BY AsmImplementsSpinLock, CppInit, CppStep, PTL
   DEF ImplementsSpinLock, SpinWorker!SpinSpec, Cpp!SpinSpec

\* A worker between its CAS and the store that unlocks.
Critical(t) == pc[t] \in {"critical", "store", "unlock"}

\* Two hand-written workers are never both between the CAS that took the mutex
\* and the store that gives it up.
THEOREM AsmMutualExclusion ==
    Spec => [](\A t, u \in Threads : Critical(t) /\ Critical(u) => t = u)
<1>1. Cpp!SpinSpec => []Cpp!MutualExclusion
  BY CppAssumptions, Cpp!SpinMutualExclusion
<1>2. ASSUME NEW t \in Threads, Critical(t) PROVE Cpp!InCS(t)
  <2>1. [u \in Threads |-> Source[pc[u]]][t] \in {"load", "store", "unlock"}
    BY <1>2, SourceOf DEF Critical
  <2> QED
    BY <2>1 DEF Cpp!InCS
<1>3. Cpp!MutualExclusion => \A t, u \in Threads : Critical(t) /\ Critical(u) => t = u
  BY <1>2 DEF Cpp!MutualExclusion
<1> QED
  BY <1>1, <1>3, CppSpec, PTL

\* No hand-written worker loses an update of the counter in memory.
THEOREM AsmNoLostUpdate == Spec => []Cpp!NoLostUpdate
<1>1. Cpp!SpinSpec => []Cpp!NoLostUpdate
  BY CppAssumptions, Cpp!SpinNoLostUpdate
<1> QED
  BY <1>1, CppSpec, PTL

\* Two refinements in a row: the hand-written workers implement the abstract mutex.
THEOREM AsmImplementsMutex == Spec => Cpp!ImplementsMutex
<1>1. Cpp!SpinSpec => Cpp!ImplementsMutex
  BY CppAssumptions, Cpp!SpinImplementsMutex
<1> QED
  BY <1>1, CppSpec, PTL
=============================================================================
