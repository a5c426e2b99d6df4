------------------------------ MODULE Scatter ------------------------------
(***************************************************************************)
(* scatter.c: the buffer of nodelet 0 is copied to the same address on     *)
(* every other nodelet, by the main thread ("memcpy", "serial"), by one    *)
(* thread for each nodelet ("parallel_simple"), by several for each        *)
(* ("emu_for"), or by a tree in which a nodelet that has received the      *)
(* buffer can pass it on ("tree").                                         *)
(*                                                                         *)
(* All trials copy the same data.  What tells a copy that was made in this *)
(* trial from what the trial before (or nobody) left is in the model: an   *)
(* element is fresh if it was copied, in this trial, from a fresh one.     *)
(***************************************************************************)
EXTENDS Integers, FiniteSets

CONSTANTS Arguments,    \* the command lines: records of mode, n, num_threads, nodelets
          NumTrials,    \* num_trials
          SpawnCap      \* bound of the model: spawns are counted up to this number

ScatterModes == {"memcpy", "serial", "parallel_simple", "emu_for", "tree"}

ASSUME ScatterAssumption ==
    /\ \A a \in Arguments : /\ a.mode \in ScatterModes
                            /\ a.n \in Nat \ {0, 1}
                            /\ {a.num_threads, a.nodelets} \subseteq Nat \ {0}
    /\ {NumTrials, SpawnCap} \subseteq Nat \ {0}

VARIABLES args,      \* the command line
          trial,     \* loop variable of scatter_run
          next,      \* the nodelet for which the kernel starts a copy next
          fresh,     \* the fresh elements of each nodelet's buffer
          threads,   \* the threads of the kernel, each with what it has still to do
          spawned    \* how many threads have been spawned to copy in this trial, up
                     \* to SpawnCap

vars == <<args, trial, next, fresh, threads, spawned>>

Nodelets == 0..args.nodelets-1
Elements == 0..args.n-1

FreshAtStart == [m \in Nodelets |-> IF m = 0 THEN Elements ELSE {}]

Init == /\ args \in Arguments
        /\ trial = 0
        /\ next = 1
        /\ fresh = FreshAtStart
        /\ threads = {}
        /\ spawned = 0

Ended == trial = NumTrials

\* Copies elements low..high-1 from src to dst, in this order.
Copier(src, dst, low, high) ==
    [role |-> "copy", src |-> src, dst |-> dst, low |-> low, high |-> high]

\* scatter_emu_for_worker_level1: spawns the copiers of dst, from element low on.
Splitter(dst, low) == [role |-> "split", dst |-> dst, low |-> low]

\* scatter_tree(.., begin, end) on nodelet at; todo are the elements that are not
\* yet copied to the middle.
Tree(at, begin, end) ==
    [role |-> "tree", at |-> at, begin |-> begin, end |-> end, todo |-> Elements]

Middle(t) == t.begin + ((t.end - t.begin) \div 2)

\* dst[i] = src[i]
Copy(src, dst, i) ==
    fresh' = [fresh EXCEPT ![dst] = IF i \in fresh[src] THEN @ \union {i} ELSE @ \ {i}]

\* One more thread is spawned to copy.
CountSpawn == spawned' = IF spawned < SpawnCap THEN spawned + 1 ELSE spawned

-----------------------------------------------------------------------------
(* The main thread *)

\* One turn of the loop over the nodelets.  The main thread copies itself, and so
\* one buffer after the other, in memcpy and serial; it spawns in the other modes.
StartNodelet ==
    /\ ~Ended
    /\ args.mode # "tree"
    /\ next < args.nodelets
    /\ args.mode \in {"memcpy", "serial"} => threads = {}
    /\ threads' = threads \union
          {IF args.mode = "emu_for" THEN Splitter(next, 0)
                                    ELSE Copier(0, next, 0, args.n)}
    /\ IF args.mode = "parallel_simple" THEN CountSpawn ELSE UNCHANGED spawned
    /\ next' = next + 1
    /\ UNCHANGED <<args, trial, fresh>>

\* scatter_recursive_tree
StartTree ==
    /\ ~Ended
    /\ args.mode = "tree"
    /\ next < args.nodelets
    /\ threads' = {Tree(0, 0, args.nodelets)}
    /\ next' = args.nodelets
    /\ UNCHANGED <<args, trial, fresh, spawned>>

\* Mutant: the kernel does not wait for what it spawned.
EndTrialEarly ==
    /\ ~Ended
    /\ next >= args.nodelets
    /\ trial' = trial + 1
    /\ next' = 1
    /\ fresh' = FreshAtStart
    /\ threads' = {}
    /\ spawned' = 0
    /\ UNCHANGED args

\* The implicit sync at the end of the kernel, and the head of the next trial.
EndTrial ==
    /\ ~Ended
    /\ next >= args.nodelets
    /\ threads = {}
    /\ trial' = trial + 1
    /\ next' = 1
    /\ fresh' = FreshAtStart
    /\ spawned' = 0
    /\ UNCHANGED <<args, threads>>

-----------------------------------------------------------------------------
(* The threads of the kernel *)

\* One turn of the loop of a copier, which ends behind its last element.
CopyElement(t) ==
    /\ t.role = "copy"
    /\ t.low < t.high
    /\ Copy(t.src, t.dst, t.low)
    /\ threads' = (threads \ {t}) \union
          (IF t.low + 1 < t.high THEN {[t EXCEPT !.low = @ + 1]} ELSE {})
    /\ UNCHANGED <<args, trial, next, spawned>>

\* Mutant: the threads are not shared out among the nodelets.
PerNodeletGrainLost == args.n \div args.num_threads

\* Mutant: the grain is divided by the nodelets.
PerNodeletGrainDivided == args.n \div (args.num_threads * args.nodelets)

\* long per_nodelet_grain = grain * NODELETS();
PerNodeletGrain == (args.n \div args.num_threads) * args.nodelets

\* One turn of level 1: spawn the copier of a chunk.  A thread that copies nothing
\* ends at once, but has been spawned: with a grain of 0 the loop spawns one after
\* the other and never gets on.
SpawnChunk(t) ==
    /\ t.role = "split"
    /\ t.low < args.n
    /\ LET bound == t.low + PerNodeletGrain
           last == IF bound <= args.n THEN bound ELSE args.n
       IN  threads' = (threads \ {t}) \union {[t EXCEPT !.low = bound]}
              \union (IF t.low < last THEN {Copier(0, t.dst, t.low, last)} ELSE {})
    /\ CountSpawn
    /\ UNCHANGED <<args, trial, next, fresh>>

\* The end of level 1.
EndSplit(t) ==
    /\ t.role = "split"
    /\ t.low >= args.n
    /\ threads' = threads \ {t}
    /\ UNCHANGED <<args, trial, next, fresh, spawned>>

\* if (num_nodelets == 1) return;
IsLeaf(t) == t.end - t.begin = 1

TreeLeaf(t) ==
    /\ t.role = "tree"
    /\ IsLeaf(t)
    /\ threads' = threads \ {t}
    /\ UNCHANGED <<args, trial, next, fresh, spawned>>

\* One iteration of emu_local_for, whose threads run in any order.
TreeCopy(t) ==
    /\ t.role = "tree"
    /\ ~IsLeaf(t)
    /\ \E i \in t.todo :
          /\ Copy(t.at, Middle(t), i)
          /\ threads' = (threads \ {t}) \union {[t EXCEPT !.todo = @ \ {i}]}
    /\ UNCHANGED <<args, trial, next, spawned>>

\* Mutant: the subtree is spawned beside the copy, not behind it.
TreeSpawnEarly(t) ==
    /\ t.role = "tree"
    /\ ~IsLeaf(t)
    /\ \E at \in {t.at, Middle(t)} :
          threads' = (threads \ {t}) \union
             {Tree(at, Middle(t), t.end), Tree(t.at, t.begin, Middle(t)),
              Copier(t.at, Middle(t), 0, args.n)}
    /\ CountSpawn
    /\ UNCHANGED <<args, trial, next, fresh>>

\* emu_local_for has returned: the half behind the middle is spawned, and the thread
\* goes on with the other half.  "Spawn at target" is a plain cilk_spawn: the child
\* may run where it was spawned or where its first argument is.
TreeSpawn(t) ==
    /\ t.role = "tree"
    /\ ~IsLeaf(t)
    /\ t.todo = {}
    /\ \E at \in {t.at, Middle(t)} :
          threads' = (threads \ {t}) \union
             {Tree(at, Middle(t), t.end), Tree(t.at, t.begin, Middle(t))}
    /\ CountSpawn
    /\ UNCHANGED <<args, trial, next, fresh>>

ThreadStep(t) == \/ CopyElement(t) \/ SpawnChunk(t) \/ EndSplit(t)
                 \/ TreeLeaf(t) \/ TreeCopy(t) \/ TreeSpawn(t)

MainStep == StartNodelet \/ StartTree \/ EndTrial

Next == \/ MainStep
        \/ \E t \in threads : ThreadStep(t)
        \/ Ended /\ UNCHANGED vars

Spec == Init /\ [][Next]_vars

MostNodelets == CHOOSE k \in {a.nodelets : a \in Arguments} :
                    \A a \in Arguments : a.nodelets <= k

\* The nodelet whose buffer a thread fills, or the last one a tree thread serves.
Serves(t) == IF t.role = "tree" THEN t.end - 1 ELSE t.dst

\* Fairness: the main thread and the threads that work for each nodelet keep
\* executing.
FairSpec == /\ Spec
            /\ WF_vars(MainStep)
            /\ \A m \in 0..MostNodelets-1 :
                  WF_vars(\E t \in threads : Serves(t) = m /\ ThreadStep(t))

-----------------------------------------------------------------------------
(* Properties *)

\* Every element that a thread is about to read is already fresh: in the tree, a
\* nodelet never passes on a buffer that it has not yet received completely,
\* wherever the child of a spawn runs.
SourceComplete ==
    \A t \in threads :
        /\ t.role = "copy" => t.low..t.high-1 \subseteq fresh[t.src]
        /\ t.role = "tree" /\ ~IsLeaf(t) => fresh[t.at] = Elements

\* A trial never ends before each nodelet holds the whole buffer of nodelet 0.
TrialComplete ==
    [][trial' # trial => \A m \in Nodelets : fresh[m] = Elements]_vars

Ceiling(a, b) == (a + b - 1) \div b

\* The threads that command line a is meant to spawn for its copies.  emu_for uses
\* num_threads threads, rounded up to a number for each nodelet, and fewer than
\* twice as many if num_threads does not divide n.  The tree uses one for each
\* nodelet but the first one, as parallel_simple does.
Budget(a) == IF a.mode # "emu_for" THEN a.nodelets - 1
             ELSE LET share == IF a.n % a.num_threads = 0 THEN 1 ELSE 2
                  IN  (a.nodelets - 1) * Ceiling(share * a.num_threads, a.nodelets)

\* The bound of the counter hides no thread beyond the budget.
ASSUME SpawnCapAssumption == \A a \in Arguments : Budget(a) < SpawnCap

\* A grain of 0: the loop of level 1 never gets on.
Hangs == /\ args.mode = "emu_for"
         /\ args.num_threads > args.n
         /\ args.nodelets > 1

\* "being careful not to exhaust total # of threads": no mode spawns more threads
\* than its budget.
NotExhausted == spawned <= Budget(args)

\* No trial that ends has spawned more threads than its budget.
ThreadBudget == ~Hangs => NotExhausted

\* The program ends, unless it is asked for more threads than elements in mode
\* emu_for, when it spawns threads for ever.
Termination == IF Hangs THEN []~Ended /\ <>(spawned = SpawnCap) ELSE <>Ended
=============================================================================
