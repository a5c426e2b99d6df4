------------------------------ MODULE SpinLock ------------------------------
(***************************************************************************)
(* The spin mutexes cas_mutex_A to cas_mutex_F of locks.cc under the       *)
(* benchmark of LockBench.  A and D retry the CAS until it succeeds; B, C, *)
(* E and F first spin on a plain load until the lock looks free.  C and F  *)
(* also execute RESCHEDULE while they spin, which gives up the processor   *)
(* and changes no state.                                                   *)
(***************************************************************************)
EXTENDS LockBench

CONSTANT Impls        \* the implementations to benchmark

ASSUME ImplsAssumption == Impls \subseteq {"A", "B", "C", "D", "E", "F"}

VARIABLES impl,       \* the implementation the command line selects
          lock        \* lock_ of the mutex under test

spinVars == <<benchVars, impl, lock>>

SpinsOnLoad == impl \in {"B", "C", "E", "F"}

SpinInit == /\ BenchInit
            /\ impl \in Impls
            /\ lock = 0

\* A load, or for A and D a CAS, that finds the lock taken and is repeated.
Spins(t) == /\ pc[t] = "lock"
            /\ lock # 0
            /\ UNCHANGED spinVars

\* while (lock_ != 0): the load that ends the inner loop.
Test(t) == /\ SpinsOnLoad
           /\ pc[t] = "lock"
           /\ lock = 0
           /\ Goto(t, "cas")
           /\ UNCHANGED <<phase, trial, counter, mismatch, iter, reg, impl, lock>>

\* Mutant: the arguments of the CAS are swapped, so that it leaves a free lock as
\* it is.
CasSwapped(t) == /\ pc[t] = IF SpinsOnLoad THEN "cas" ELSE "lock"
                 /\ lock = 0
                 /\ Goto(t, "load")
                 /\ UNCHANGED <<phase, trial, counter, mismatch, iter, reg, impl, lock>>

\* ATOMIC_CAS(&lock_, 1, 0) on a free lock: it becomes 1 and lock() returns.
CasSucceeds(t) == /\ pc[t] = IF SpinsOnLoad THEN "cas" ELSE "lock"
                  /\ lock = 0
                  /\ lock' = 1
                  /\ Goto(t, "load")
                  /\ UNCHANGED <<phase, trial, counter, mismatch, iter, reg, impl>>

\* Another thread took the lock between the load and the CAS: spin again.
CasFails(t) == /\ pc[t] = "cas"
               /\ lock # 0
               /\ Goto(t, "lock")
               /\ UNCHANGED <<phase, trial, counter, mismatch, iter, reg, impl, lock>>

\* Mutant: unlock() does not clear lock_.
UnlockForgets(t) == /\ pc[t] = "unlock"
                    /\ Goto(t, "head")
                    /\ Returned(t)
                    /\ UNCHANGED <<impl, lock>>

\* lock_ = 0, and back to the head of the worker's loop.
Unlock(t) == /\ pc[t] = "unlock"
             /\ lock' = 0
             /\ Goto(t, "head")
             /\ Returned(t)
             /\ UNCHANGED impl

SpinStep(t) == Spins(t) \/ Test(t) \/ CasSucceeds(t) \/ CasFails(t) \/ Unlock(t)

\* The program has ended; nothing moves any more.
SpinStopped == Ended /\ UNCHANGED spinVars

SpinNext == \/ BenchStep /\ UNCHANGED <<impl, lock>>
            \/ \E t \in Threads : SpinStep(t)
            \/ SpinStopped

SpinSpec == SpinInit /\ [][SpinNext]_spinVars

-----------------------------------------------------------------------------
(* Fairness: every spawned thread keeps executing, and so does the thread
   that runs run_test.  That is the machine's round-robin over its thread
   contexts (Emu) or the kernel's scheduling of the Cilk workers.  No step
   needs strong fairness: a CAS may fail as long as others succeed.        *)

SpinWorkerStep(t) == \/ (Head(t) \/ Load(t) \/ Store(t)) /\ UNCHANGED <<impl, lock>>
                     \/ SpinStep(t)

SpinMainStep == (Sync \/ \E t \in Threads : Spawn(t)) /\ UNCHANGED <<impl, lock>>

SpinFairSpec == /\ SpinSpec
                /\ \A t \in Threads : WF_spinVars(SpinWorkerStep(t))
                /\ WF_spinVars(SpinMainStep)

-----------------------------------------------------------------------------
(* Properties *)

SpinLabels == {"unborn", "head", "lock", "cas", "load", "store", "unlock", "done"}

\* Types of the state of locks.cc's spin mutexes and of run_test.
SpinTypeOK == /\ phase \in {"spawn", "sync", "finished", "error"}
              /\ trial \in 0..NumTrials
              /\ counter \in Nat
              /\ mismatch \in BOOLEAN
              /\ pc \in [Threads -> SpinLabels]
              /\ iter \in [Threads -> 0..NPerThread]
              /\ reg \in [Threads -> Nat]
              /\ impl \in Impls
              /\ lock \in {0, 1}

\* lock_ is 1 exactly while some worker is in its critical section; so a trial
\* that starts finds the mutex, which it inherits, free.
LockedIffHeld == lock = 1 <=> \E t \in Threads : InCS(t)
=============================================================================
