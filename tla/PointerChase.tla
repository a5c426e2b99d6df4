---------------------------- MODULE PointerChase ----------------------------
(***************************************************************************)
(* pointer_chase.c: an array of nodes, striped over the nodelets, is       *)
(* linked in an order that depends on the sort mode, the list is chopped   *)
(* into one list per thread, and the threads add up the weights of their   *)
(* lists.  A node is its position in the array.                            *)
(***************************************************************************)
EXTENDS Naturals, FiniteSets, FiniteSetsExt

CONSTANTS Arguments,    \* the command lines: records of n, block_size, ...
          NumTrials,    \* num_trials
          RandMax,      \* ULONG_MAX, the largest value of lcg_rand
          Null,         \* NULL
          Unset         \* the content of fresh memory, and "not running"

SortModes == {"ordered", "block_shuffle", "intra_block_shuffle", "full_block_shuffle"}

\* n and NODELETS(), a fact of the machine that is part of the command line here,
\* are powers of two, of which one divides the other; the other numbers are only
\* known to be positive.
ASSUME PointerChaseAssumption ==
    /\ \A a \in Arguments : /\ a.n \in Nat \ {0, 1}
                            /\ a.nodelets \in Nat \ {0}
                            /\ a.n % a.nodelets = 0 \/ a.nodelets % a.n = 0
                            /\ a.block_size \in Nat \ {0}
                            /\ a.num_threads \in Nat \ {0}
                            /\ a.sort_mode \in SortModes
                            /\ a.spawn_mode \in {"serial_spawn", "serial_remote_spawn"}
    /\ {NumTrials, RandMax} \subseteq Nat \ {0}
    /\ Null # Unset /\ {Null, Unset} \cap Nat = {}

VARIABLES args,           \* the command line
          phase,          \* where the main thread is
          block_indices,  \* the order of the blocks
          block_i,        \* loop variable of the shuffle of block_indices
          old_indices,    \* the indices before the blocks were moved
          indices,        \* one copy of the array of indices per nodelet
          in_block_i,     \* loop variable of the shuffle of each block
          todo,           \* iterations of the current parallel loop still to run
          relink_i,       \* loop variable of the relink worker of each nodelet
          next, weight,   \* the nodes
          heads,          \* the head of each thread's list
          trial,          \* loop variable of pointer_chase_run
          spawners,       \* the threads that spawn others
          p, local_sum,   \* local variables of the chasing threads
          nodelet,        \* where each of them is
          sum             \* one copy of the sum per nodelet

indexVars == <<block_indices, block_i, old_indices, indices, in_block_i>>
nodeVars  == <<relink_i, next, weight, heads>>
setupVars == <<args, todo, indexVars, nodeVars>>
runVars   == <<trial, spawners, p, local_sum, nodelet, sum>>
vars == <<phase, setupVars, runVars>>

Nodelets == 0..args.nodelets-1
Nodes    == 0..args.n-1
Chasers  == 0..args.num_threads-1
BlockIds == 0..(args.n \div args.block_size)-1

Home(node) == node % args.nodelets

ShufflesBlocks   == args.sort_mode \in {"block_shuffle", "full_block_shuffle"}
ShufflesInBlocks == args.sort_mode \in {"intra_block_shuffle", "full_block_shuffle"}

\* ((i * num_nodelets) & (n-1)) + ((i * num_nodelets) >> PRIORITY(n))
StridedIndices == [i \in Nodes |-> ((i * args.nodelets) % args.n)
                                      + ((i * args.nodelets) \div args.n)]

Init == /\ args \in Arguments
        /\ phase = "index"
        /\ block_indices = [b \in BlockIds |-> b]
        /\ block_i = 0
        /\ old_indices = [i \in Nodes |-> 0]
        /\ indices = [k \in Nodelets |-> [i \in Nodes |-> 0]]
        /\ in_block_i = [b \in BlockIds |-> 0]
        /\ todo = {}
        /\ relink_i = [k \in Nodelets |-> k]
        /\ next = [x \in Nodes |-> Unset]
        /\ weight = [x \in Nodes |-> Unset]
        /\ heads = [t \in Chasers |-> Unset]
        /\ trial = 0
        /\ spawners = {}
        /\ p = [t \in Chasers |-> Unset]
        /\ local_sum = [t \in Chasers |-> 0]
        /\ nodelet = [t \in Chasers |-> 0]
        /\ sum = [k \in Nodelets |-> 0]

-----------------------------------------------------------------------------
(* pointer_chase_data_init: the order of the list *)

AfterBlockShuffle == IF ShufflesInBlocks THEN "shuffle_in_blocks" ELSE "scatter"

TodoIn(ph) == IF ph = "scatter" THEN Nodelets \ {0} ELSE {}

\* The strided indices; the block size is checked behind them.
InitIndices ==
    /\ phase = "index"
    /\ indices' = [indices EXCEPT ![0] = StridedIndices]
    /\ phase' = IF args.n % args.block_size # 0 THEN "refused"
                ELSE IF ShufflesBlocks THEN "shuffle_blocks"
                ELSE AfterBlockShuffle
    /\ todo' = TodoIn(phase')
    /\ UNCHANGED <<args, block_indices, block_i,
                   old_indices, in_block_i, nodeVars, runVars>>

\* j = i + lcg_rand(&rand_state) / (ULONG_MAX / (n - i) + 1)
Pick(i, len, r) == i + (r \div (RandMax \div (len - i) + 1))

Swap(f, i, j) == [f EXCEPT ![i] = f[j], ![j] = f[i]]

\* One turn of the loop of shuffle(block_indices, num_blocks).
ShuffleBlocks ==
    /\ phase = "shuffle_blocks"
    /\ block_i + 1 < Cardinality(BlockIds)
    /\ \E r \in 0..RandMax :
          block_indices' = Swap(block_indices, block_i,
                                Pick(block_i, Cardinality(BlockIds), r))
    /\ block_i' = block_i + 1
    /\ UNCHANGED <<args, phase, old_indices, indices,
                   in_block_i, todo, nodeVars, runVars>>

\* The copy of the indices to old_indices, once block_indices is shuffled.
SaveIndices ==
    /\ phase = "shuffle_blocks"
    /\ block_i + 1 >= Cardinality(BlockIds)
    /\ old_indices' = indices[0]
    /\ phase' = "move_blocks"
    /\ todo' = BlockIds
    /\ UNCHANGED <<args, block_indices, block_i,
                   indices, in_block_i, nodeVars, runVars>>

\* Mutant: the blocks are moved within one array.
MoveBlockInPlace(b) ==
    /\ phase = "move_blocks"
    /\ b \in todo
    /\ indices' = [indices EXCEPT ![0] =
          [x \in Nodes |-> IF x \div args.block_size = block_indices[b]
                           THEN @[b * args.block_size + (x % args.block_size)]
                           ELSE @[x]]]
    /\ todo' = todo \ {b}
    /\ UNCHANGED <<args, phase, block_indices, block_i,
                   old_indices, in_block_i, nodeVars, runVars>>

\* One turn of block_shuffle_worker.
MoveBlock(b) ==
    /\ phase = "move_blocks"
    /\ b \in todo
    /\ indices' = [indices EXCEPT ![0] =
          [x \in Nodes |-> IF x \div args.block_size = block_indices[b]
                           THEN old_indices[b * args.block_size + (x % args.block_size)]
                           ELSE @[x]]]
    /\ todo' = todo \ {b}
    /\ UNCHANGED <<args, phase, block_indices, block_i,
                   old_indices, in_block_i, nodeVars, runVars>>

BlocksMoved ==
    /\ phase = "move_blocks"
    /\ todo = {}
    /\ phase' = AfterBlockShuffle
    /\ todo' = TodoIn(phase')
    /\ UNCHANGED <<args, indexVars, nodeVars, runVars>>

\* One turn of the loop of shuffle() on block b, in intra_block_shuffle_worker.
ShuffleInBlock(b) ==
    /\ phase = "shuffle_in_blocks"
    /\ in_block_i[b] + 1 < args.block_size
    /\ LET base == b * args.block_size
           i    == in_block_i[b]
       IN  \E r \in 0..RandMax :
              indices' = [indices EXCEPT ![0] =
                             Swap(@, base + i, base + Pick(i, args.block_size, r))]
    /\ in_block_i' = [in_block_i EXCEPT ![b] = @ + 1]
    /\ UNCHANGED <<args, phase, block_indices, block_i,
                   old_indices, todo, nodeVars, runVars>>

BlocksShuffled ==
    /\ phase = "shuffle_in_blocks"
    /\ \A b \in BlockIds : in_block_i[b] + 1 >= args.block_size
    /\ phase' = "scatter"
    /\ todo' = TodoIn("scatter")
    /\ UNCHANGED <<args, indexVars, nodeVars, runVars>>

\* The memcpy to nodelet k, by a thread of its own.
Scatter(k) ==
    /\ phase = "scatter"
    /\ k \in todo
    /\ indices' = [indices EXCEPT ![k] = indices[0]]
    /\ todo' = todo \ {k}
    /\ UNCHANGED <<args, phase, block_indices, block_i,
                   old_indices, in_block_i, nodeVars, runVars>>

\* Mutant: the nodes are linked while the copies are on their way.
ScatteredEarly ==
    /\ phase = "scatter"
    /\ phase' = "relink"
    /\ UNCHANGED <<setupVars, runVars>>

\* cilk_sync
Scattered ==
    /\ phase = "scatter"
    /\ todo = {}
    /\ phase' = "relink"
    /\ UNCHANGED <<setupVars, runVars>>

-----------------------------------------------------------------------------
(* pointer_chase_data_init: the links *)

\* Mutant: the tails of the lists are one element too late.
LastIndexLate(t, chunk) == IF (t + 1) * chunk < args.n
                           THEN (t + 1) * chunk ELSE args.n - 1

LastIndex(t, chunk) == (t + 1) * chunk - 1

\* One turn of relink_worker_1d on nodelet k, which reads the copy of nodelet k.
\* An index that is not that of a node makes the worker write outside the pool.
Relink(k) ==
    /\ phase = "relink"
    /\ relink_i[k] < args.n
    /\ LET i == relink_i[k]
           a == indices[k][i]
           b == indices[k][IF i = args.n - 1 THEN 0 ELSE i + 1]
       IN  IF {a, b} \subseteq Nodes
           THEN /\ next' = [next EXCEPT ![a] = b]
                /\ weight' = [weight EXCEPT ![a] = i]
                /\ relink_i' = [relink_i EXCEPT ![k] = @ + args.nodelets]
                /\ UNCHANGED phase
           ELSE phase' = "wild" /\ UNCHANGED <<relink_i, next, weight>>
    /\ UNCHANGED <<args, todo, heads, indexVars, runVars>>

Relinked ==
    /\ phase = "relink"
    /\ \A k \in Nodelets : relink_i[k] >= args.n
    /\ phase' = "chop"
    /\ UNCHANGED <<setupVars, runVars>>

\* The main thread chops the list up.  With more threads than nodes the first
\* tail is looked up in front of the indices.
Chop ==
    /\ phase = "chop"
    /\ LET chunk == args.n \div args.num_threads
       IN  IF chunk = 0
           THEN phase' = "wild" /\ UNCHANGED <<heads, next>>
           ELSE /\ heads' = [t \in Chasers |-> indices[0][t * chunk]]
                /\ next' = [x \in Nodes |->
                               IF \E t \in Chasers : x = indices[0][LastIndex(t, chunk)]
                               THEN Null ELSE next[x]]
                /\ phase' = "start"
    /\ UNCHANGED <<args, todo, relink_i, weight, indexVars, runVars>>

-----------------------------------------------------------------------------
(* pointer_chase_run *)

\* A thread that is in a loop for (; i < ...; i += step).
Spawner(role, i, step) == [role |-> role, i |-> i, step |-> step]

FirstSpawner == IF args.spawn_mode = "serial_spawn" THEN "heads" ELSE "nodelets"

Replace(s, new) == spawners' = (spawners \ {s}) \cup new

\* mw_replicated_init(&data->sum, 0), and the call of the benchmark.
StartTrial ==
    /\ phase = "start"
    /\ sum' = [k \in Nodelets |-> 0]
    /\ spawners' = {Spawner(FirstSpawner, 0, 1)}
    /\ phase' = "run"
    /\ UNCHANGED <<setupVars, trial, p, local_sum, nodelet>>

\* cilk_spawn serial_spawn_local(data, nodelet_id) on the nodelet of a head.
SpawnLocal(s) ==
    /\ s.role = "nodelets"
    /\ s.i < args.nodelets /\ s.i < args.num_threads
    /\ Replace(s, {Spawner("heads", s.i, args.nodelets), Spawner("nodelets", s.i + 1, 1)})
    /\ UNCHANGED <<setupVars, phase, trial, p, local_sum, nodelet, sum>>

\* cilk_spawn chase_pointers(data->heads[i], &data->sum)
SpawnChaser(s) ==
    /\ s.role = "heads"
    /\ s.i < args.num_threads
    /\ Replace(s, {Spawner("heads", s.i + s.step, s.step)})
    /\ p' = [p EXCEPT ![s.i] = heads[s.i]]
    /\ local_sum' = [local_sum EXCEPT ![s.i] = 0]
    /\ UNCHANGED <<setupVars, phase, trial, nodelet, sum>>

\* The loop is over, or left because fewer threads than nodelets are wanted.
SpawnerExits(s) ==
    /\ s.i >= (IF s.role = "nodelets" /\ args.nodelets < args.num_threads
               THEN args.nodelets ELSE args.num_threads)
    /\ Replace(s, {})
    /\ UNCHANGED <<setupVars, phase, trial, p, local_sum, nodelet, sum>>

\* One turn of chase_pointers: the thread migrates to the node and reads it.
Chase(t) ==
    /\ p[t] \in Nodes
    /\ local_sum' = [local_sum EXCEPT ![t] = @ + weight[p[t]]]
    /\ nodelet' = [nodelet EXCEPT ![t] = Home(p[t])]
    /\ p' = [p EXCEPT ![t] = next[p[t]]]
    /\ UNCHANGED <<setupVars, phase, trial, spawners, sum>>

\* Mutant: the sum that is added to is read before the thread is spawned.
AddStale(t) ==
    /\ p[t] = Null
    /\ sum' = [sum EXCEPT ![nodelet[t]] = local_sum[t]]
    /\ p' = [p EXCEPT ![t] = Unset]
    /\ UNCHANGED <<setupVars, phase, trial, spawners, local_sum, nodelet>>

\* REMOTE_ADD(sum, local_sum): &data->sum is the copy where the thread is.
Add(t) ==
    /\ p[t] = Null
    /\ sum' = [sum EXCEPT ![nodelet[t]] = @ + local_sum[t]]
    /\ p' = [p EXCEPT ![t] = Unset]
    /\ UNCHANGED <<setupVars, phase, trial, spawners, local_sum, nodelet>>

ActualSum   == MapThenSumSet(LAMBDA k : sum[k], Nodelets)
ExpectedSum == (args.n * (args.n - 1)) \div 2

\* cilk_sync, emu_replicated_reduce_sum_long and the assertion behind it.
EndTrial ==
    /\ phase = "run"
    /\ spawners = {} /\ \A t \in Chasers : p[t] = Unset
    /\ trial' = trial + 1
    /\ phase' = IF ActualSum # ExpectedSum THEN "failed"
                ELSE IF trial' < NumTrials THEN "start" ELSE "finished"
    /\ UNCHANGED <<setupVars, spawners, p, local_sum, nodelet, sum>>

-----------------------------------------------------------------------------
(* main *)

Ended == phase \in {"finished", "failed", "refused", "wild"}

Main == \/ InitIndices \/ ShuffleBlocks \/ SaveIndices \/ BlocksMoved
        \/ BlocksShuffled \/ Scattered \/ Relinked \/ Chop \/ StartTrial \/ EndTrial

Worker == \/ \E b \in BlockIds : MoveBlock(b) \/ ShuffleInBlock(b)
          \/ \E k \in Nodelets : Scatter(k) \/ Relink(k)
          \/ \E s \in spawners : SpawnLocal(s) \/ SpawnChaser(s) \/ SpawnerExits(s)
          \/ \E t \in Chasers : Chase(t) \/ Add(t)

Next == \/ Main
        \/ Worker
        \/ Ended /\ UNCHANGED vars

Spec == Init /\ [][Next]_vars

\* Fairness: as long as any thread can go on, one of them does.
FairSpec == Spec /\ WF_vars(Main \/ Worker)

-----------------------------------------------------------------------------
(* Properties *)

\* Types of the state.
TypeOK ==
    /\ phase \in {"index", "shuffle_blocks", "move_blocks", "shuffle_in_blocks",
                  "scatter", "relink", "chop", "start", "run"}
                 \cup {"finished", "failed", "refused", "wild"}
    /\ block_indices \in [BlockIds -> BlockIds]
    /\ indices \in [Nodelets -> [Nodes -> Nat]]
    /\ next \in [Nodes -> Nodes \cup {Null, Unset}]
    /\ weight \in [Nodes -> Nodes \cup {Unset}]
    /\ heads \in [Chasers -> Nodes \cup {Unset}]
    /\ trial \in 0..NumTrials
    /\ p \in [Chasers -> Nodes \cup {Null, Unset}]
    /\ local_sum \in [Chasers -> Nat]
    /\ nodelet \in [Chasers -> Nodelets]
    /\ sum \in [Nodelets -> Nat]

Linking == phase \in {"relink", "chop", "start", "run", "finished", "failed"}
Linked  == phase \in {"start", "run", "finished", "failed"}

\* When the nodes are linked, every nodelet has the same order of the nodes, and
\* no node is missing from it, whichever shuffles have been applied.
IndicesPermutation ==
    Linking => \A k \in Nodelets :
                  /\ indices[k] = indices[0]
                  /\ args.nodelets <= args.n => {indices[k][i] : i \in Nodes} = Nodes

Block(f, b)    == [i \in 0..args.block_size-1 |-> f[b * args.block_size + i]]
Elements(f, b) == {Block(f, b)[i] : i \in 0..args.block_size-1}

\* The sort modes as README.md defines them: block_shuffle moves whole blocks of
\* the ordered list and keeps the order inside them, intra_block_shuffle
\* leaves every element in its block, full_block_shuffle keeps the elements of a
\* block together, and ordered changes nothing.
SortModeRespected ==
    Linking => \A b \in BlockIds : \E d \in BlockIds :
                  /\ Elements(indices[0], d) = Elements(StridedIndices, b)
                  /\ ShufflesBlocks \/ d = b
                  /\ ShufflesInBlocks \/ Block(indices[0], d) = Block(StridedIndices, b)

\* The node that is reached from node x in so many steps, or Null.
Walk(x) == LET walk[k \in 0..args.n] ==
                  IF k = 0 THEN x
                  ELSE IF walk[k - 1] \in Nodes THEN next[walk[k - 1]] ELSE Null
           IN  walk

\* "Each of P threads traverses N/P nodes in the list" (README.md): thread t's
\* list is the t-th chunk of the order, in this order, and ends there.
ListsAreChunks ==
    Linked => LET chunk == args.n \div args.num_threads
              IN  \A t \in Chasers : \A k \in 0..chunk :
                     Walk(heads[t])[k] = IF k = chunk THEN Null
                                         ELSE indices[0][t * chunk + k]

\* More nodelets than nodes make the strided indices too large, and with more
\* threads than nodes there is no index behind which the first list ends.
Unlinkable == args.nodelets > args.n \/ args.num_threads > args.n

Outcome == IF args.n % args.block_size # 0 THEN "refused"
           ELSE IF Unlinkable THEN "wild"
           ELSE IF args.n % args.num_threads # 0 THEN "failed"
           ELSE "finished"

\* Every run ends, and how depends on the command line alone, never on the shuffles
\* or the order of the threads: in each trial the sum of the threads' sums is right,
\* with no node left out or counted twice and no thread's part lost, and
\* "Validation FAILED!" is said exactly if num_threads does not divide n, for the
\* nodes behind the last chunk are in no list.
EndsExactly == <>(phase = Outcome)
=============================================================================
