----------------------------- MODULE RangeSplit -----------------------------
(***************************************************************************)
(* The ways in which the benchmarks spread a loop over 0..n-1 on threads   *)
(* that each work on about n / num_threads indices:                        *)
(*   - recursive: a thread spawns another one for the lower half of its    *)
(*     range until what is left is no larger than the grain (the macro of  *)
(*     recursive_spawn.h, and its copies in spawn_rate.c);                 *)
(*   - serial: one thread spawns a worker for each chunk of a grain;       *)
(*   - serial_remote and recursive_remote: threads are spawned at the      *)
(*     nodelets in the one or the other way first, and each of them does   *)
(*     the same for the elements on its nodelet (global_stream.c);         *)
(*   - shallow: one thread spawns all chunks at their nodelets.            *)
(* A worker is a for loop over its range; its body, for instance           *)
(* c[i] = a[i] + b[i], touches index i only.                               *)
(*                                                                         *)
(* A thread is the record of what it has left to do, so threads is a set:  *)
(* two threads have the same record only if both have nothing left, and    *)
(* then they may count as one.                                             *)
(***************************************************************************)
EXTENDS Naturals

CONSTANTS Modes,         \* the spawn modes to run
          Sizes,         \* values of n
          ThreadCounts,  \* values of num_threads
          NumNodelets    \* NODELETS()

RemoteModes == {"serial_remote", "recursive_remote", "shallow"}

\* main refuses num_threads <= 0 and log2_num_elements <= 0.  A chunked array has
\* n / NODELETS() elements on each nodelet; both are powers of two in practice.
ASSUME RangeSplitAssumption ==
    /\ Modes \subseteq {"recursive", "serial"} \cup RemoteModes
    /\ Sizes \subseteq Nat \ {0}
    /\ ThreadCounts \subseteq Nat \ {0}
    /\ NumNodelets \in Nat \ {0}
    /\ \A size \in Sizes : size % NumNodelets = 0

VARIABLES n,             \* the number of elements
          num_threads,   \* the number of threads asked for
          threads,       \* the threads that are alive
          written,       \* how often the body has run for each index
          workers        \* workers started so far on a range that is not empty

vars == <<n, num_threads, threads, written, workers>>

\* Mutant: the grain is a multiple of NODELETS(), rounded down too far.
GrainPerNodelet == ((n \div NumNodelets) \div num_threads) * NumNodelets

\* data->n / data->num_threads
Grain == n \div num_threads

\* long local_n = data->n / NODELETS()
LocalN == n \div NumNodelets

\* Roles of threads whose range is one of nodelets.
NodeletRoles == {"serial_remote", "recursive_remote"}

\* A thread in one of the spawn loops, or a worker: it is still responsible for
\* low..high-1.
Thread(role, low, high) == [role |-> role, low |-> low, high |-> high]

Replace(t, new) == threads' = (threads \ {t}) \cup new

Init == /\ n \in Sizes
        /\ num_threads \in ThreadCounts
        /\ \E mode \in Modes :
              \* "will always use at least one thread per nodelet"
              /\ mode \in RemoteModes => num_threads >= NumNodelets
              /\ threads = {Thread(mode, 0, IF mode \in NodeletRoles
                                            THEN NumNodelets ELSE n)}
        /\ written = [i \in 0..n-1 |-> 0]
        /\ workers = 0

\* Mutant: low = mid + 1.
SpawnHalfGap(t) ==
    /\ t.role = "recursive"
    /\ t.high - t.low > Grain
    /\ LET mid == t.low + (t.high - t.low) \div 2
       IN  Replace(t, {Thread("recursive", t.low, mid),
                       Thread("recursive", mid + 1, t.high)})
    /\ UNCHANGED <<n, num_threads, written, workers>>

\* Mutant: the loop goes on while count >= GRAIN.
SpawnHalfAtGrain(t) ==
    /\ t.role = "recursive"
    /\ t.high - t.low >= Grain
    /\ LET mid == t.low + (t.high - t.low) \div 2
       IN  Replace(t, {Thread("recursive", t.low, mid),
                       Thread("recursive", mid, t.high)})
    /\ UNCHANGED <<n, num_threads, written, workers>>

\* One turn of for (;;) in RECURSIVE_CILK_SPAWN: spawn the lower half.
SpawnHalf(t) ==
    /\ t.role = "recursive"
    /\ t.high - t.low > Grain
    /\ LET mid == t.low + (t.high - t.low) \div 2
       IN  Replace(t, {Thread("recursive", t.low, mid),
                       Thread("recursive", mid, t.high)})
    /\ UNCHANGED <<n, num_threads, written, workers>>

\* if (count <= GRAIN) break, and the call of FUNC_worker(low, high).
BaseCase(t) ==
    /\ t.role = "recursive"
    /\ t.high - t.low <= Grain
    /\ Replace(t, {Thread("worker", t.low, t.high)})
    /\ workers' = IF t.low < t.high THEN workers + 1 ELSE workers
    /\ UNCHANGED <<n, num_threads, written>>

\* One turn of for (i = 0; i < n; i += grain): spawn a worker for a chunk.
SpawnChunk(t) ==
    /\ t.role = "serial"
    /\ t.low < t.high
    /\ LET end == IF t.low + Grain <= t.high THEN t.low + Grain ELSE t.high
       IN  /\ Replace(t, {Thread("worker", t.low, end),
                          Thread("serial", t.low + Grain, t.high)})
           /\ workers' = IF t.low < end THEN workers + 1 ELSE workers
    /\ UNCHANGED <<n, num_threads, written>>

\* Mutant: a chunk is cut off at the end of the array only.
SpawnChunkAtUncut(t) ==
    /\ t.role = "shallow"
    /\ t.low < t.high
    /\ LET end  == IF t.low + Grain <= n THEN t.low + Grain ELSE n
           stop == ((t.low \div LocalN) + 1) * LocalN
       IN  /\ Replace(t, {Thread("worker", t.low, end),
                          Thread("shallow", IF end <= stop THEN end ELSE stop, t.high)})
           /\ workers' = IF t.low < end THEN workers + 1 ELSE workers
    /\ UNCHANGED <<n, num_threads, written>>

\* One turn of both loops of serial_remote_spawn_shallow: spawn a worker for a
\* chunk, which ends with the nodelet at the latest.
SpawnChunkAt(t) ==
    /\ t.role = "shallow"
    /\ t.low < t.high
    /\ LET stop == ((t.low \div LocalN) + 1) * LocalN
           end  == IF t.low + Grain <= stop THEN t.low + Grain ELSE stop
       IN  /\ Replace(t, {Thread("worker", t.low, end), Thread("shallow", end, t.high)})
           /\ workers' = IF t.low < end THEN workers + 1 ELSE workers
    /\ UNCHANGED <<n, num_threads, written>>

\* The thread for nodelet k, which divides the elements on it.
OnNodelet(role, k) == Thread(role, k * LocalN, (k + 1) * LocalN)

\* One turn of the loop of serial_remote_spawn.
SpawnNodelet(t) ==
    /\ t.role = "serial_remote"
    /\ t.low < t.high
    /\ Replace(t, {OnNodelet("serial", t.low), Thread("serial_remote", t.low + 1, t.high)})
    /\ UNCHANGED <<n, num_threads, written, workers>>

\* One turn of for (;;) in recursive_remote_spawn_level1.
SplitNodelets(t) ==
    /\ t.role = "recursive_remote"
    /\ t.high - t.low # 1
    /\ LET mid == t.low + (t.high - t.low) \div 2
       IN  Replace(t, {Thread("recursive_remote", t.low, mid),
                       Thread("recursive_remote", mid, t.high)})
    /\ UNCHANGED <<n, num_threads, written, workers>>

\* if (count == 1) break, and the call of recursive_remote_spawn_level2.
OneNodelet(t) ==
    /\ t.role = "recursive_remote"
    /\ t.high - t.low = 1
    /\ Replace(t, {OnNodelet("recursive", t.low)})
    /\ UNCHANGED <<n, num_threads, written, workers>>

\* One turn of the worker's loop.
Body(t) ==
    /\ t.role = "worker"
    /\ t.low < t.high
    /\ written' = [written EXCEPT ![t.low] = @ + 1]
    /\ Replace(t, {Thread("worker", t.low + 1, t.high)})
    /\ UNCHANGED <<n, num_threads, workers>>

\* The loop of a worker or of a serial spawner is over and the thread ends.
Exit(t) ==
    /\ t.role \in {"worker", "serial", "shallow", "serial_remote"}
    /\ t.low >= t.high
    /\ Replace(t, {})
    /\ UNCHANGED <<n, num_threads, written, workers>>

Step(t) == \/ SpawnNodelet(t) \/ SplitNodelets(t) \/ OneNodelet(t)
           \/ SpawnHalf(t) \/ BaseCase(t) \/ SpawnChunk(t) \/ SpawnChunkAt(t)
           \/ Body(t) \/ Exit(t)

\* cilk_sync: the loop returns when the last thread has ended.
Synced == threads = {} /\ UNCHANGED vars

Next == Synced \/ \E t \in threads : Step(t)

Spec == Init /\ [][Next]_vars

-----------------------------------------------------------------------------
(* Fairness: some thread goes on as long as one can.  It need not be the one that
   has waited longest: no thread of the loop waits for another one. *)

Roles == {"recursive", "serial", "worker"} \cup RemoteModes

FairSpec == Spec /\ WF_vars(Next)

-----------------------------------------------------------------------------
(* Properties *)

\* The first index a thread is responsible for, and the one after the last.
First(t) == IF t.role \in NodeletRoles THEN t.low * LocalN ELSE t.low
End(t)   == IF t.role \in NodeletRoles THEN t.high * LocalN ELSE t.high

Owns(t, i) == First(t) <= i /\ i < End(t)

\* Types of the state.  Only the serial spawner's low can pass high, and the range
\* of the shallow one always ends with the array.
TypeOK == /\ n \in Sizes
          /\ num_threads \in ThreadCounts
          /\ \A t \in threads :
                /\ t = Thread(t.role, t.low, t.high)
                /\ t.role \in Roles
                /\ t.low \in Nat
                /\ t.high \in 0..(IF t.role \in NodeletRoles THEN NumNodelets ELSE n)
                /\ t.low <= t.high \/ t.role = "serial"
                /\ t.role = "shallow" => t.high = n
          /\ written \in [0..n-1 -> Nat]
          /\ workers \in Nat

\* Whatever n and the grain are, an index is either the business of exactly one
\* live thread and not yet written, or it has been written once and is nobody's
\* business: the split loses no index and gives none to two threads.
EachIndexOnce ==
    \A i \in 0..n-1 :
        \/ /\ written[i] = 0
           /\ \E t \in threads : Owns(t, i)
           /\ \A t, u \in threads : Owns(t, i) /\ Owns(u, i) => t = u
        \/ /\ written[i] = 1
           /\ \A t \in threads : ~Owns(t, i)

\* How many threads do the work of a loop that has ended (n is a power of two): as
\* many as were asked for exactly if num_threads divides n.  Otherwise the grain has
\* been rounded down, and it is more than "the right number of threads globally",
\* although less than twice as many.
WorkerCount ==
    threads = {} => IF n % num_threads = 0
                    THEN workers = num_threads
                    ELSE num_threads < workers /\ workers < 2 * num_threads

\* The loop as its caller sees it: threads and ranges are invisible.
Loop == INSTANCE ForEach WITH todo <- {i \in 0..n-1 : written[i] = 0},
                              ended <- threads = {}

\* All spawn modes run the body once per index and return only afterwards.
ImplementsForEach == Loop!Spec

\* The loop ends, unless more threads are asked for than there are elements: the
\* grain is 0 then and the loop never does, in any of the modes.  No execution is
\* between the two.
Termination == IF num_threads <= n THEN <>(threads = {}) ELSE [](threads # {})
=============================================================================
