----------------------------- MODULE LockBench -----------------------------
(***************************************************************************)
(* The part of locks.cc that every mutex class shares: run_test, which     *)
(* spawns the workers, joins them and compares the counter with n, trial   *)
(* after trial on one mutex object, and worker, which locks, adds one to   *)
(* the counter and unlocks, n_per_thread times.  SpinLock and QueueLock    *)
(* extend this module with lock() and unlock().                            *)
(*                                                                         *)
(* A worker is at label "lock" when it calls mutex.lock() and at "unlock"  *)
(* when it calls mutex.unlock(); the labels in between those calls and     *)
(* their returns belong to the mutex modules.  The counter is a double: it *)
(* is exact up to 2^53, far above what n can be in a run that ends.        *)
(***************************************************************************)
EXTENDS Naturals, FiniteSets

CONSTANTS Threads,    \* the worker threads of one trial (num_threads of them)
          N,          \* n, the total number of lock/unlock operations
          NumTrials,  \* num_trials
          None        \* "no thread", for the abstract mutex

NumThreads == Cardinality(Threads)

\* main refuses num_threads <= 0, log2_n < 0 and num_trials <= 0.
ASSUME LockBenchAssumption == /\ IsFiniteSet(Threads) /\ Threads # {}
                              /\ N \in Nat \ {0}
                              /\ NumTrials \in Nat \ {0}
                              /\ None \notin Threads

VARIABLES phase,    \* where run_test is: "spawn", "sync", "finished", "error";
                    \* or "wild", after a write that no definition covers
          trial,    \* the loop variable of run_test
          counter,  \* the cell the mutex protects
          mismatch, \* has a trial reported "Counter mismatch"?
          pc,       \* program counter of each worker
          iter,     \* loop variable i of each worker
          reg       \* the value of the counter each worker has loaded

benchVars == <<phase, trial, counter, mismatch, pc, iter, reg>>

\* long n_per_thread = n / num_threads;
NPerThread == N \div NumThreads

Goto(t, label) == pc' = [pc EXCEPT ![t] = label]

-----------------------------------------------------------------------------
(* run_test *)

BenchInit == /\ phase = IF NPerThread = 0 THEN "error" ELSE "spawn"
             /\ trial = 0
             /\ counter = 0
             /\ mismatch = FALSE
             /\ pc = [t \in Threads |-> "unborn"]
             /\ iter = [t \in Threads |-> 0]
             /\ reg = [t \in Threads |-> 0]

\* cilk_spawn worker(mutex, &counter, n_per_thread): the child starts while
\* the loop goes on to the next one.  Workers are interchangeable.
Spawn(t) == /\ phase = "spawn"
            /\ pc[t] = "unborn"
            /\ Goto(t, "head")
            /\ phase' = IF \E u \in Threads \ {t} : pc[u] = "unborn"
                        THEN "spawn" ELSE "sync"
            /\ UNCHANGED <<trial, counter, mismatch, iter, reg>>

\* cilk_sync, the validation, and the head of the next trial, which sets the
\* counter to 0 and keeps the mutex.
Sync == /\ phase = "sync"
        /\ \A t \in Threads : pc[t] = "done"
        /\ mismatch' = (mismatch \/ counter # N)
        /\ trial' = trial + 1
        /\ IF trial + 1 < NumTrials
           THEN /\ phase' = "spawn"
                /\ counter' = 0
                /\ pc' = [t \in Threads |-> "unborn"]
                /\ iter' = [t \in Threads |-> 0]
                /\ reg' = [t \in Threads |-> 0]
           ELSE /\ phase' = "finished"
                /\ UNCHANGED <<counter, pc, iter, reg>>

-----------------------------------------------------------------------------
(* worker *)

\* Mutant: i <= n.
HeadInclusive(t) == /\ pc[t] = "head"
                    /\ Goto(t, IF iter[t] <= NPerThread THEN "lock" ELSE "done")
                    /\ UNCHANGED <<phase, trial, counter, mismatch, iter, reg>>

\* for (long i = 0; i < n; ++i) ...
Head(t) == /\ pc[t] = "head"
           /\ Goto(t, IF iter[t] < NPerThread THEN "lock" ELSE "done")
           /\ UNCHANGED <<phase, trial, counter, mismatch, iter, reg>>

\* *counter += 1.0, the volatile load ...
Load(t) == /\ pc[t] = "load"
           /\ reg' = [reg EXCEPT ![t] = counter]
           /\ Goto(t, "store")
           /\ UNCHANGED <<phase, trial, counter, mismatch, iter>>

\* ... and the volatile store, after which the loaded value is forgotten.
Store(t) == /\ pc[t] = "store"
            /\ counter' = reg[t] + 1
            /\ reg' = [reg EXCEPT ![t] = 0]
            /\ Goto(t, "unlock")
            /\ UNCHANGED <<phase, trial, mismatch, iter>>

\* mutex.unlock() returns and i is incremented.  The caller says what pc
\* becomes for the other threads.
Returned(t) == /\ iter' = [iter EXCEPT ![t] = @ + 1]
               /\ UNCHANGED <<phase, trial, counter, mismatch, reg>>

BenchStep == \/ \E t \in Threads : Spawn(t) \/ Head(t) \/ Load(t) \/ Store(t)
             \/ Sync

Ended == phase \in {"finished", "error", "wild"}

-----------------------------------------------------------------------------
(* The abstract mutex this benchmark implements *)

InCS(t) == pc[t] \in {"load", "store", "unlock"}

Holder == IF \E t \in Threads : InCS(t) THEN CHOOSE t \in Threads : InCS(t)
                                        ELSE None

Promise == INSTANCE Mutex WITH holder <- Holder,
                               updated <- (\E t \in Threads : pc[t] = "unlock")

\* The benchmark on this mutex behaves as Mutex says: lock() is granted to one
\* thread at a time and every critical section adds exactly one.
ImplementsMutex == Promise!Spec

-----------------------------------------------------------------------------
(* Properties every mutex class must have *)

\* Two workers are never between lock() and unlock() at once.
MutualExclusion == \A t, u \in Threads : InCS(t) /\ InCS(u) => t = u

\* Increments whose store has been executed in this trial.
Increments == {p \in Threads \X (0..NPerThread-1) :
                  \/ p[2] < iter[p[1]]
                  \/ p[2] = iter[p[1]] /\ pc[p[1]] \in
                       {"unlock", "leave", "waking", "freed"}}

\* No update of the counter is lost: in every state it is the number of
\* increments executed so far in the trial.
NoLostUpdate == counter = Cardinality(Increments)

\* With a correct mutex the validation of run_test reports a mismatch exactly
\* when num_threads does not divide n: it judges the mutex in no other case.
ValidationExact == trial > 0 => (mismatch <=> N % NumThreads # 0)

\* Every trial ends: nobody waits for the mutex for ever.
Termination == <>Ended
=============================================================================
