------------------------------- MODULE Stream -------------------------------
(***************************************************************************)
(* The programs that add two arrays, or up one, and say whether the result *)
(* is right: local_stream.c, global_stream.c, global_stream_1d.c, their    *)
(* C++ variants and global_reduce.c; and bulk_copy.c, which copies one.    *)
(* From the command line to the verdict they take the same steps and       *)
(* differ in the values the arrays start with, the modes, the checks of    *)
(* the arguments, and the validation.                                      *)
(*                                                                         *)
(* A loop that is shared by threads is ForEach: its pieces run in any      *)
(* order; but the C programs split it by a grain, and with a grain of 0    *)
(* no piece ever runs.  (RangeSplit is about how they do that; the loops   *)
(* of emu_c_utils, emu_cxx_utils and Cilk are not in this repository.)     *)
(***************************************************************************)
EXTENDS Integers, FiniteSets

CONSTANTS Arguments,    \* the command lines, and the build
          MaxTrials     \* bound of a number that is read from behind the arguments

Programs == {"local_stream", "global_stream", "global_stream_1d", "local_stream_cxx",
             "global_stream_1d_cxx", "global_reduce", "bulk_copy"}

\* The numbers are those of the command line, except that n stands for its logarithm:
\* it is 1 if that is not positive.  nodelets is NODELETS(), a fact of the machine;
\* reload says whether the compiler loads the bound of a serial loop again in each
\* turn; default_grain whether the loops of emu_c_utils take a grain of 0 for one of
\* their own, or never advance with it.  Arrays in chunks have an element on each
\* nodelet.
ASSUME StreamAssumption ==
    /\ \A a \in Arguments : /\ a.program \in Programs
                            /\ {a.n, a.nodelets} \subseteq Nat \ {0}
                            /\ a.n # 1 => a.n % a.nodelets = 0
                            /\ {a.num_threads, a.num_trials, a.target} \subseteq Int
                            /\ {a.reload, a.default_grain} \subseteq BOOLEAN
    /\ MaxTrials \in Nat \ {0}

VARIABLES args,    \* the command line
          phase,   \* where the main thread is
          trials,  \* args.num_trials, as the program has read it
          trial,   \* loop variable of the run function
          a, b, c, \* the arrays; global_reduce has only a, bulk_copy a and c
          size,    \* data->n, on each nodelet
          todo,    \* the pieces of the loop that have not run
          here,    \* the nodelet the main thread is on
          sum      \* the sum of a trial of global_reduce

arrays == <<a, b, c, size>>
vars == <<args, phase, trials, trial, arrays, todo, here, sum>>

Elements == 0..args.n-1
Nodelets == 0..args.nodelets-1

All(x) == [i \in Elements |-> x]

-----------------------------------------------------------------------------
(* The modes: whether the pieces of the loop run in order or in any order *)

LocalStreamLoops == [serial |-> "in order", cilk_for |-> "any order",
    serial_spawn |-> "any order", recursive_spawn |-> "any order", library |-> "any order"]

GlobalStreamLoops == [serial |-> "in order", cilk_for |-> "any order",
    serial_spawn |-> "any order", serial_remote_spawn |-> "any order",
    serial_remote_spawn_shallow |-> "any order", recursive_spawn |-> "any order",
    recursive_remote_spawn |-> "any order", library |-> "any order"]

GlobalStream1dLoops == [serial |-> "in order", cilk_for |-> "any order",
    serial_spawn |-> "any order", library |-> "any order"]

LocalStreamCxxLoops == [serial |-> "in order", cilk_for |-> "any order",
    seq |-> "in order", par |-> "any order", dyn |-> "any order", fixed |-> "any order"]

GlobalStream1dCxxLoops == [serial |-> "in order", cilk_for |-> "any order",
    seq |-> "in order", par |-> "any order", dyn |-> "any order", fixed |-> "any order",
    transform_fixed |-> "any order"]

GlobalReduceLoops == [serial |-> "in order", per_thread_remote |-> "any order",
    per_nodelet_remote |-> "any order"]

\* "cilk_for" runs the function of emu_for.
BulkCopyLoops == [memcpy |-> "in order", serial |-> "in order",
    cilk_for |-> "any order", emu_for |-> "any order"]

LoopsOf == [local_stream |-> LocalStreamLoops, global_stream |-> GlobalStreamLoops,
            global_stream_1d |-> GlobalStream1dLoops,
            local_stream_cxx |-> LocalStreamCxxLoops,
            global_stream_1d_cxx |-> GlobalStream1dCxxLoops,
            global_reduce |-> GlobalReduceLoops,
            bulk_copy |-> BulkCopyLoops]

Loops == LoopsOf[args.program]

IsCxx == args.program \in {"local_stream_cxx", "global_stream_1d_cxx"}
IsReduce == args.program = "global_reduce"
IsCopy == args.program = "bulk_copy"

-----------------------------------------------------------------------------
(* The start of the programs *)

Init == /\ args \in Arguments
        /\ phase = "start"
        /\ trials = 0
        /\ trial = 0
        /\ a = All(0) /\ b = All(0) /\ c = All(0)
        /\ size = [m \in Nodelets |-> 0]
        /\ todo = {}
        /\ here = 0
        /\ sum = 0

\* The checks of the arguments; the C++ programs do not have num_threads, and only
\* bulk_copy has target_nodelet.
Valid == /\ args.n > 1
         /\ IsCxx \/ args.num_threads > 0
         /\ args.num_trials > 0
         /\ IsCopy => args.target \in Nodelets

ReadArguments ==
    /\ phase = "start"
    /\ args.program # "local_stream_cxx"
    /\ trials' = args.num_trials
    /\ phase' = IF Valid THEN "set up" ELSE "refused"
    /\ UNCHANGED <<args, trial, arrays, todo, here, sum>>

\* local_stream_cxx demands argc = 4 and reads argv[4], the null pointer behind the
\* last argument: the program crashes, or reads any number, and one that is not
\* positive is refused.
ReadArgumentsBeyond ==
    /\ phase = "start"
    /\ args.program = "local_stream_cxx"
    /\ \/ phase' \in {"crashed", "refused"} /\ UNCHANGED trials
       \/ args.n > 1 /\ phase' = "set up" /\ trials' \in 1..MaxTrials
    /\ UNCHANGED <<args, trial, arrays, todo, here, sum>>

\* The arrays of a program get their values and every nodelet learns n.
Filled(program, x, y, z, sizes) ==
    /\ phase = "set up"
    /\ args.program = program
    /\ a' = All(x) /\ b' = All(y) /\ c' = All(z)
    /\ size' = sizes
    /\ phase' = "select"
    /\ UNCHANGED <<args, trials, trial, todo, here, sum>>

Everywhere == [m \in Nodelets |-> args.n]
OnlyHere == [m \in Nodelets |-> IF m = here THEN args.n ELSE size[m]]

SetUpLocal == Filled("local_stream", 1, 2, 0, Everywhere)

\* The whole structure is copied to the other nodelets.
SetUpGlobal == Filled("global_stream", 1, 2, 0, Everywhere)

\* The pointers are replicated by mw_replicated_init; n is assigned, which changes
\* the copy of this nodelet.
SetUpGlobal1d == Filled("global_stream_1d", 1, 2, 0, OnlyHere)

\* memset to 0 of all three.
SetUpLocalCxx == Filled("local_stream_cxx", 0, 0, 0, Everywhere)

SetUpGlobal1dCxx == Filled("global_stream_1d_cxx", 1, 2, -1, Everywhere)

SetUpReduce == Filled("global_reduce", 1, 0, 0, Everywhere)

\* mw_replicated_init, of the pointers and of n.
SetUpCopy == Filled("bulk_copy", 1, 0, 2, Everywhere)

SetUp == SetUpLocal \/ SetUpGlobal \/ SetUpGlobal1d \/ SetUpLocalCxx
            \/ SetUpGlobal1dCxx \/ SetUpReduce \/ SetUpCopy

-----------------------------------------------------------------------------
(* The choice of the mode *)

AtLeastOnePerNodelet == {"library", "serial_remote_spawn", "serial_remote_spawn_shallow",
                         "recursive_remote_spawn"}

\* The calls of runtime_assert in front of the modes, in the two global programs.
ThreadsFit ==
    args.program \in {"global_stream", "global_stream_1d"} =>
        /\ args.mode \in AtLeastOnePerNodelet => args.num_threads >= args.nodelets
        /\ args.mode = "serial" => args.num_threads = 1

SpawnModes == {"serial_spawn", "recursive_spawn", "serial_remote_spawn",
               "serial_remote_spawn_shallow", "recursive_remote_spawn"}

\* n / num_threads, the grain of these modes, of "library", and of "cilk_for", for
\* which 0 means Cilk's default.
Grain == args.n \div args.num_threads

\* The loop never advances: with a grain of 0 serial_spawn and its kind spawn threads
\* for nothing, and recursive_spawn goes on splitting one element.
Endless == \/ args.mode \in SpawnModes /\ Grain = 0
           \/ args.mode = "library" /\ ~args.default_grain /\ Grain = 0

Pieces == {{i} : i \in Elements}

\* GLOBAL_GRAIN and the library decide how many elements are one thread's; here
\* they are those of a nodelet.
Chunks == LET local == args.n \div args.nodelets
          IN  {m * local .. (m + 1) * local - 1 : m \in Nodelets}

\* The kernel starts, on the nodelet of the main thread's stack.
StartTrial == /\ todo' = IF IsReduce /\ Loops[args.mode] = "any order" THEN Chunks ELSE Pieces
              /\ here' = 0
              /\ sum' = 0

Select == /\ phase = "select"
          /\ args.mode \in DOMAIN Loops
          /\ IF ThreadsFit
             THEN /\ phase' = IF Endless THEN "endless" ELSE "kernel"
                  /\ StartTrial
             ELSE phase' = "refused" /\ UNCHANGED <<todo, here, sum>>
          /\ UNCHANGED <<args, trials, trial, arrays>>

\* "Mode %s not implemented!": C++ programs exit, the C ones go on behind the trials.
SelectUnknown == /\ phase = "select"
                 /\ args.mode \notin DOMAIN Loops
                 /\ phase' = IF IsCxx THEN "refused"
                             ELSE IF IsReduce THEN "passed" ELSE "validate"
                 /\ UNCHANGED <<args, trials, trial, arrays, todo, here, sum>>

-----------------------------------------------------------------------------
(* The kernels *)

Total(S) == Cardinality({i \in S : a[i] = 1})

Result(i) == IF IsCopy THEN a[i] ELSE a[i] + b[i]
Expected == IF IsCopy THEN 1 ELSE 3

\* c[i] = a[i] + b[i], dst[i] = src[i], or the sum of a piece, which is added by
\* one REMOTE_ADD.
Body(piece) == /\ todo' = todo \ {piece}
               /\ IF IsReduce
                  THEN /\ sum' = sum + Total(piece)
                       /\ UNCHANGED c
                  ELSE /\ c' = [i \in Elements |->
                                   IF i \in piece THEN Result(i) ELSE c[i]]
                       /\ UNCHANGED sum
               /\ UNCHANGED <<args, phase, trials, trial, a, b, size>>

InOrder == phase = "kernel" /\ Loops[args.mode] = "in order"

\* A piece of a parallel loop.
RunPiece == /\ phase = "kernel"
            /\ Loops[args.mode] = "any order"
            /\ \E piece \in todo : Body(piece)
            /\ UNCHANGED here

\* The nodelet of element i, to which a thread migrates that loads it.
Home(i) == CASE args.program \in {"local_stream", "local_stream_cxx"} \/ IsCopy -> 0
             [] args.program \in {"global_stream", "global_reduce"}
                    -> i \div (args.n \div args.nodelets)
             [] OTHER -> i % args.nodelets

\* The number of turns done, which is the index of the next one.
Index == args.n - Cardinality(todo)

\* The bound the loop compares i with: data->n is in the copy of the structure on
\* the nodelet the thread is on, unless the compiler has kept it in a register.
Bound == IF args.reload THEN size[here] ELSE args.n

\* A turn of a serial loop, which takes the main thread to the nodelet of element i.
RunNext == /\ InOrder
           /\ Index < Bound
           /\ Body({Index})
           /\ here' = Home(Index)

\* Mutant: no cilk_sync behind the loop that spawns.
KernelDoneNoSync == /\ phase = "kernel"
                    /\ IF InOrder THEN Index >= Bound ELSE TRUE

KernelDone == /\ phase = "kernel"
              /\ IF InOrder THEN Index >= Bound ELSE todo = {}

\* Mutant: trial is not incremented.
SameTrial == trial

\* ++trial
NextTrial == trial + 1

\* The kernel returns, to the stack's nodelet; global_reduce validates each trial,
\* the others go to the next one, or to the validation behind the last one.
EndTrial ==
    /\ KernelDone
    /\ trial' = NextTrial
    /\ IF IsReduce /\ sum # args.n
       THEN phase' = "failed" /\ UNCHANGED <<todo, here, sum>>
       ELSE IF NextTrial < trials
       THEN StartTrial /\ UNCHANGED phase
       ELSE /\ phase' = IF IsReduce THEN "passed" ELSE "validate"
            /\ here' = 0
            /\ UNCHANGED <<todo, sum>>
    /\ UNCHANGED <<args, trials, arrays>>

\* Each element of c is compared with 3, or of dst with 1.
Validate == /\ phase = "validate"
            /\ phase' = IF \A i \in 0..size[here]-1 : c[i] = Expected
                        THEN "passed" ELSE "failed"
            /\ UNCHANGED <<args, trials, trial, arrays, todo, here, sum>>

Ended == phase \in {"passed", "failed", "refused", "crashed"}

Step == \/ ReadArguments \/ ReadArgumentsBeyond \/ SetUp \/ Select \/ SelectUnknown
        \/ RunPiece \/ RunNext \/ EndTrial \/ Validate

Next == Step \/ ((Ended \/ phase = "endless") /\ UNCHANGED vars)

Spec == Init /\ [][Next]_vars

\* Fairness: some thread of the program goes on as long as one can.
FairSpec == Spec /\ WF_vars(Step)

-----------------------------------------------------------------------------
(* Properties *)

\* The command lines for which the program cannot do its work: those of
\* local_stream_cxx, whose arrays hold zeroes; unknown modes, except that
\* global_reduce does not mind; and the serial loop of global_stream_1d with more
\* elements and nodelets than it visits before it finds a bound of 0.
Hopeless == \/ args.program = "local_stream_cxx"
            \/ ~IsReduce /\ args.mode \notin DOMAIN Loops
            \/ /\ args.program = "global_stream_1d" /\ args.mode = "serial"
               /\ args.reload /\ args.nodelets > 1 /\ args.n > 2

\* The command lines for which the kernel never returns: more threads than elements.
Hangs == Valid /\ args.mode \in DOMAIN Loops /\ Endless

\* A verdict is right and is the same in every execution: a program says that its
\* result is right only if it is, in all elements, for a command line that it should
\* accept and whose loop ends; and it finds a mistake only if there has to be one.  The
\* partial sums of a reduction are added once each.
VerdictExact ==
    /\ phase = "failed" => Hopeless
    /\ phase = "passed" => /\ ~Hopeless /\ ~Hangs /\ Valid
                           /\ IsReduce \/ c = All(Expected)

\* A run comes to an end, unless it has more threads than elements and a mode that
\* splits the loop by the grain: then it never does.
Termination == IF Hangs THEN []~Ended ELSE <>Ended
=============================================================================
