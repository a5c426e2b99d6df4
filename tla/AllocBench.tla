----------------------------- MODULE AllocBench -----------------------------
(***************************************************************************)
(* The part of allocation.cc that every allocator shares: run_test, which  *)
(* creates an allocator for each trial, spawns the workers and joins them, *)
(* and worker, which calls alloc() n_per_thread times.  MonotonicBuffer    *)
(* and FreeList extend this module with alloc(), and Allocation runs one   *)
(* after the other.  Addresses are counted in blocks: every request is for     *)
(* block_size bytes, 4096.                                                 *)
(***************************************************************************)
EXTENDS Naturals, FiniteSets

CONSTANTS Threads,    \* the workers of one trial (num_threads of them)
          NumBlocks,  \* num_blocks, the size of the pool
          NumTrials,  \* num_trials
          Null        \* nullptr

\* main refuses values that are not positive.
ASSUME AllocBenchAssumption == /\ IsFiniteSet(Threads) /\ Threads # {}
                               /\ NumBlocks \in Nat \ {0}
                               /\ NumTrials \in Nat \ {0}
                               /\ Null \notin Nat

VARIABLES phase,    \* where run_test is: "spawn", "sync", "finished", "error"
          trial,    \* the loop variable of run_test
          pc,       \* program counter of each worker
          iter,     \* loop variable i of each worker
          owned     \* the blocks each worker has been given in this trial

benchVars == <<phase, trial, pc, iter, owned>>

Blocks == 0..NumBlocks-1

\* long n_per_thread = num_blocks / num_threads;
NPerThread == NumBlocks \div Cardinality(Threads)

Goto(t, label) == pc' = [pc EXCEPT ![t] = label]

BenchInit == /\ phase = "spawn"
             /\ trial = 0
             /\ pc = [t \in Threads |-> "unborn"]
             /\ iter = [t \in Threads |-> 0]
             /\ owned = [t \in Threads |-> {}]

\* The call of run_test for the next allocator.
BenchRestart == /\ phase' = "spawn"
                /\ trial' = 0
                /\ pc' = [t \in Threads |-> "unborn"]
                /\ iter' = [t \in Threads |-> 0]
                /\ owned' = [t \in Threads |-> {}]

\* cilk_spawn worker(allocator, block_size, n_per_thread)
Spawn(t) == /\ phase = "spawn"
            /\ pc[t] = "unborn"
            /\ Goto(t, "head")
            /\ phase' = IF \E u \in Threads \ {t} : pc[u] = "unborn"
                        THEN "spawn" ELSE "sync"
            /\ UNCHANGED <<trial, iter, owned>>

\* cilk_sync.  If this was not the last trial, the allocator is destroyed and
\* the caller of this action creates a new one.
Sync == /\ phase = "sync"
        /\ \A t \in Threads : pc[t] = "done"
        /\ trial' = trial + 1
        /\ IF trial + 1 < NumTrials
           THEN /\ phase' = "spawn"
                /\ pc' = [t \in Threads |-> "unborn"]
                /\ iter' = [t \in Threads |-> 0]
                /\ owned' = [t \in Threads |-> {}]
           ELSE /\ phase' = "finished"
                /\ UNCHANGED <<pc, iter, owned>>

\* for (long i = 0; i < num_blocks; ++i) ...
Head(t) == /\ pc[t] = "head"
           /\ Goto(t, IF iter[t] < NPerThread THEN "alloc" ELSE "done")
           /\ UNCHANGED <<phase, trial, iter, owned>>

\* alloc() returns block b to t.
Return(t, b) == /\ owned' = [owned EXCEPT ![t] = @ \cup {b}]
                /\ iter' = [iter EXCEPT ![t] = @ + 1]
                /\ Goto(t, "head")
                /\ UNCHANGED <<phase, trial>>

\* RELEASE(1, 3), "Runtime malloc error": the program is aborted.
Abort == /\ phase' = "error"
         /\ UNCHANGED <<trial, pc, iter, owned>>

Ended == phase \in {"finished", "error"}

-----------------------------------------------------------------------------
(* Properties every allocator must have *)

BenchTypeOK == /\ phase \in {"spawn", "sync", "finished", "error"}
               /\ trial \in 0..NumTrials
               /\ iter \in [Threads -> 0..NPerThread]
               /\ owned \in [Threads -> SUBSET Nat]

\* Every alloc() returned a block of the pool that no alloc() had returned
\* before in this trial, to this worker or to another one.
DistinctBlocks == /\ \A t \in Threads : /\ owned[t] \subseteq Blocks
                                        /\ Cardinality(owned[t]) = iter[t]
                  /\ \A t, u \in Threads : t # u => owned[t] \cap owned[u] = {}
=============================================================================
