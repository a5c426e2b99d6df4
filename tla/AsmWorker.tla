----------------------------- MODULE AsmWorker -----------------------------
(***************************************************************************)
(* The workers of lock_impls.S, which replace the worker of locks.cc for   *)
(* cas_mutex_D, E and F: the whole loop of lock, add and unlock in the     *)
(* registers of one thread context.                                        *)
(*                                                                         *)
(* D is the data register of every load, store, comparison and test, and A *)
(* the address register of every memory operation, for the mutex and for   *)
(* the counter in turn.  E4 counts the iterations down.  E2 = &mutex, E3 = *)
(* &counter, E11 = 1 and E10 = 1.0 do not change once they are used.       *)
(* An action is one memory operation with the register instructions in     *)
(* front of it, or the head of the loop.                                   *)
(***************************************************************************)
EXTENDS Naturals, FiniteSets

CONSTANTS Threads, N, NumTrials, None,   \* as in LockBench
          AsmImpls                       \* the workers to run

ASSUME AsmAssumption == /\ IsFiniteSet(Threads) /\ Threads # {}
                        /\ {N, NumTrials} \subseteq Nat \ {0}
                        /\ None \notin Threads
                        /\ AsmImpls \subseteq {"D", "E", "F"}

VARIABLES impl,      \* the worker the command line selects
          phase,     \* where run_test is
          trial,     \* its loop variable
          mismatch,  \* has it reported "Counter mismatch"?
          memory,    \* the two words the workers share
          pc,        \* the label each worker is at
          D, A, E4   \* its registers

mainVars == <<impl, phase, trial, mismatch>>
vars == <<mainVars, memory, pc, D, A, E4>>

NPerThread == N \div Cardinality(Threads)

Fresh == /\ pc' = [t \in Threads |-> "unborn"]
         /\ D' = [t \in Threads |-> 0]
         /\ A' = [t \in Threads |-> "none"]
         /\ E4' = [t \in Threads |-> NPerThread]

Init == /\ impl \in AsmImpls
        /\ phase = IF NPerThread = 0 THEN "error" ELSE "spawn"
        /\ trial = 0
        /\ mismatch = FALSE
        /\ memory = [mutex |-> 0, counter |-> 0]
        /\ pc = [t \in Threads |-> "unborn"]
        /\ D = [t \in Threads |-> 0]
        /\ A = [t \in Threads |-> "none"]
        /\ E4 = [t \in Threads |-> NPerThread]

\* A worker goes on at a label with a new value of D.
Step(t, label, value) == /\ pc' = [pc EXCEPT ![t] = label]
                         /\ D' = [D EXCEPT ![t] = value]

-----------------------------------------------------------------------------
(* run_test *)

Spawn(t) == /\ phase = "spawn"
            /\ pc[t] = "unborn"
            /\ pc' = [pc EXCEPT ![t] = "entry"]
            /\ phase' = IF \E u \in Threads \ {t} : pc[u] = "unborn"
                        THEN "spawn" ELSE "sync"
            /\ UNCHANGED <<impl, trial, mismatch, memory, D, A, E4>>

Sync == /\ phase = "sync"
        /\ \A t \in Threads : pc[t] = "done"
        /\ mismatch' = (mismatch \/ memory.counter # N)
        /\ trial' = trial + 1
        /\ IF trial + 1 < NumTrials
           THEN /\ phase' = "spawn"
                /\ memory' = [memory EXCEPT !.counter = 0]
                /\ Fresh
           ELSE /\ phase' = "finished"
                /\ UNCHANGED <<memory, pc, D, A, E4>>
        /\ UNCHANGED impl

-----------------------------------------------------------------------------
(* The instructions of a worker *)

\* lsr 1; dte 11; eta 2
Entry(t) == /\ pc[t] = "entry"
            /\ Step(t, "loop", 1)
            /\ A' = [A EXCEPT ![t] = "mutex"]
            /\ UNCHANGED <<mainVars, memory, E4>>

\* %loop: etd 4; bnzd %skip (which decrements D); dte 4, or jmpe 1.
Loop(t) == /\ pc[t] = "loop"
           /\ IF E4[t] # 0
              THEN /\ Step(t, "spin", E4[t] - 1)
                   /\ E4' = [E4 EXCEPT ![t] = @ - 1]
              ELSE /\ Step(t, "done", 0)
                   /\ UNCHANGED E4
           /\ UNCHANGED <<mainVars, memory, A>>

\* %spin of E and F: ld, and bdnz to itself (F: to %sleep, which only gives up
\* the processor).
TestAndSpin(t) == /\ impl \in {"E", "F"}
                  /\ pc[t] = "spin"
                  /\ Step(t, IF memory[A[t]] = 0 THEN "cas" ELSE "spin", memory[A[t]])
                  /\ UNCHANGED <<mainVars, memory, A, E4>>

\* cas 11: 1 is stored if the word is equal to D; bnz goes back if it was not.
CompareAndSwap(t, expected) ==
    /\ Step(t, IF memory[A[t]] = expected THEN "critical" ELSE "spin", memory[A[t]])
    /\ memory' = IF memory[A[t]] = expected THEN [memory EXCEPT ![A[t]] = 1] ELSE memory
    /\ UNCHANGED <<mainVars, A, E4>>

\* Mutant: D keeps the count of the loop.
SpinOnCasStale(t) == /\ impl = "D"
                     /\ pc[t] = "spin"
                     /\ CompareAndSwap(t, D[t])

\* %spin of D: lsr 0; cas 11.
SpinOnCas(t) == /\ impl = "D"
                /\ pc[t] = "spin"
                /\ CompareAndSwap(t, 0)

\* cas 11 of E and F, where bdnz has left D at 0.
Cas(t) == /\ pc[t] = "cas"
          /\ CompareAndSwap(t, D[t])

\* %critical: eta 3; lit16; sllc; dte 10; ld
LoadCounter(t) == /\ pc[t] = "critical"
                  /\ A' = [A EXCEPT ![t] = "counter"]
                  /\ Step(t, "store", memory.counter)
                  /\ UNCHANGED <<mainVars, memory, E4>>

\* fpadde 10; std
StoreCounter(t) == /\ pc[t] = "store"
                   /\ memory' = [memory EXCEPT ![A[t]] = D[t] + 1]
                   /\ Step(t, "unlock", D[t] + 1)
                   /\ UNCHANGED <<mainVars, A, E4>>

\* Mutant: the eta is missing, so that A still holds &counter.
UnlockAtCounter(t) == /\ pc[t] = "unlock"
                      /\ memory' = [memory EXCEPT ![A[t]] = 0]
                      /\ Step(t, "loop", 0)
                      /\ UNCHANGED <<mainVars, A, E4>>

\* %unlock: eta 2; lsr 0; std; jmp %loop
Unlock(t) == /\ pc[t] = "unlock"
             /\ A' = [A EXCEPT ![t] = "mutex"]
             /\ memory' = [memory EXCEPT !.mutex = 0]
             /\ Step(t, "loop", 0)
             /\ UNCHANGED <<mainVars, E4>>

WorkerStep(t) == \/ Entry(t) \/ Loop(t) \/ TestAndSpin(t) \/ SpinOnCas(t) \/ Cas(t)
                 \/ LoadCounter(t) \/ StoreCounter(t) \/ Unlock(t)

MainStep == Sync \/ \E t \in Threads : Spawn(t)

Ended == phase \in {"finished", "error"}

Next == \/ MainStep
        \/ \E t \in Threads : WorkerStep(t)
        \/ Ended /\ UNCHANGED vars

Spec == Init /\ [][Next]_vars

\* Fairness: as in SpinLock, every thread keeps executing.
FairSpec == /\ Spec
            /\ \A t \in Threads : WF_vars(WorkerStep(t))
            /\ WF_vars(MainStep)

-----------------------------------------------------------------------------
(* The worker of locks.cc that these workers stand for *)

Source == [unborn |-> "unborn", entry |-> "head", loop |-> "head", spin |-> "lock",
           cas |-> "cas", critical |-> "load", store |-> "store",
           unlock |-> "unlock", done |-> "done"]

\* E4 was decremented at the head of the loop, i is incremented at its end.
InIteration(t) == pc[t] \in {"spin", "cas", "critical", "store", "unlock"}

SpinWorker == INSTANCE SpinLock WITH
    Impls <- AsmImpls,
    counter <- memory.counter,
    lock <- memory.mutex,
    pc <- [t \in Threads |-> Source[pc[t]]],
    iter <- [t \in Threads |-> NPerThread - E4[t] - (IF InIteration(t) THEN 1 ELSE 0)],
    reg <- [t \in Threads |-> IF pc[t] = "store" THEN D[t] ELSE 0]

(* Properties *)

\* The hand-written workers do, step for step, what the C++ worker does with a
\* mutex that spins the same way, although they go through one address and one
\* data register for both words: a CAS is on the mutex and expects 0, the sum goes
\* to the counter, and n iterations are counted.
ImplementsSpinLock == SpinWorker!SpinSpec

\* Every trial ends.
Termination == <>Ended
=============================================================================
