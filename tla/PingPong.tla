------------------------------ MODULE PingPong ------------------------------
(***************************************************************************)
(* ping_pong.c: threads migrate back and forth between two nodelets, for   *)
(* one pair of nodelets, for all pairs with a given source or destination, *)
(* or for all pairs in one direction, and the time each pair takes is      *)
(* added up over the trials.                                               *)
(*                                                                         *)
(* Time is left out: results counts the measurements that were added.      *)
(* What matters is where threads are.  A thread runs on the nodelet of the *)
(* last word it loaded; the main thread's stack is on nodelet 0, and       *)
(* results is spread over the machine.                                     *)
(***************************************************************************)
EXTENDS Integers, FiniteSets

CONSTANTS Arguments    \* the command lines, and the machine and build they run on

\* What main lets through; any negative number means "all".  spills says whether
\* the build loads a local variable from the stack in the loop of ping_pong_spawn.
ASSUME PingPongAssumption ==
    \A a \in Arguments : /\ a.nodelets \in Nat \ {0}
                         /\ {a.src, a.dst} \subseteq -1..a.nodelets-1
                         /\ a.num_migrations \in {2^k : k \in 2..30}
                         /\ {a.num_threads, a.num_trials} \subseteq Nat \ {0}
                         /\ a.spills \in BOOLEAN

VARIABLES args,     \* the command line
          phase,    \* where the main thread is
          trial,    \* r of RUN_BENCHMARK
          left,     \* the pairs that this trial has still to look at
          pair,     \* src_nlet and dst_nlet of ping_pong_spawn_nlet
          here,     \* the nodelet the main thread is on
          start,    \* startnid
          at,       \* the nodelet of each thread, while it exists
          turns,    \* the MIGRATEs it has executed
          hops,     \* those that took it to another nodelet
          results   \* how many measurements of each pair have been added

threadVars == <<at, turns, hops>>
pingPongVars == <<args, phase, trial, left, pair, here, start, threadVars, results>>

Nodelets == 0..args.nodelets-1
Threads == 0..args.num_threads-1
Nowhere == -1

\* Mutant: all pairs, in both directions.
AllPairsBoth == {p \in Nodelets \X Nodelets : p[1] # p[2]}

\* ping_pong_spawn_all; ping_pong_spawn_dist, for either argument; and a single
\* pair.  A pair of equal nodelets is skipped.
AllPairs == {p \in Nodelets \X Nodelets : p[1] < p[2]}
Given(x, k) == x < 0 \/ x = k
DistPairs == {p \in Nodelets \X Nodelets : Given(args.src, p[1]) /\ Given(args.dst, p[2])}

Pairs == IF args.src < 0 /\ args.dst < 0 THEN AllPairs
                                         ELSE {p \in DistPairs : p[1] # p[2]}

\* The order of the loops: by source, then by destination.
Before(p, q) == p[1] < q[1] \/ (p[1] = q[1] /\ p[2] <= q[2])

Idle == /\ at' = [t \in Threads |-> Nowhere]
        /\ turns' = [t \in Threads |-> 0]
        /\ hops' = [t \in Threads |-> 0]

PingPongInit == /\ args \in Arguments
                /\ phase = "select"
                /\ trial = 0
                /\ left = Pairs
                /\ pair = <<0, 0>>
                /\ here = 0
                /\ start = 0
                /\ at = [t \in Threads |-> Nowhere]
                /\ turns = [t \in Threads |-> 0]
                /\ hops = [t \in Threads |-> 0]
                /\ results = [p \in Nodelets \X Nodelets |-> 0]

\* Mutant: no MIGRATE(srcptr) before the threads are spawned.
SelectPairHere ==
    /\ phase = "select"
    /\ \E p \in left :
          /\ \A q \in left : Before(p, q)
          /\ left' = left \ {p}
          /\ pair' = p
    /\ start' = here
    /\ phase' = "spawn"
    /\ UNCHANGED <<args, trial, here, threadVars, results>>

\* ping_pong_spawn_nlet up to the loop of ping_pong_spawn: MIGRATE(srcptr), and
\* startnid = NODE_ID().
SelectPair ==
    /\ phase = "select"
    /\ \E p \in left :
          /\ \A q \in left : Before(p, q)
          /\ left' = left \ {p}
          /\ pair' = p
          /\ here' = p[1]
          /\ start' = p[1]
    /\ phase' = "spawn"
    /\ UNCHANGED <<args, trial, threadVars, results>>

\* cilk_spawn ping_pong(srcptr, dstptr): the thread starts on the nodelet of the
\* main thread, which a load from the stack takes back to nodelet 0.
Spawn ==
    /\ phase = "spawn"
    /\ \E t \in Threads :
          /\ at[t] = Nowhere
          /\ \A u \in 0..t-1 : at[u] # Nowhere
          /\ at' = [at EXCEPT ![t] = here]
          /\ phase' = IF t + 1 = args.num_threads THEN "sync" ELSE "spawn"
    /\ here' = IF args.spills THEN 0 ELSE here
    /\ UNCHANGED <<args, trial, left, pair, start, turns, hops, results>>

\* Four for each iteration of a loop of num_migrations / 4.
Rounds == (args.num_migrations \div 4) * 4

\* MIGRATE(dstptr) and MIGRATE(srcptr) in turn.
Migrate(t) ==
    /\ at[t] # Nowhere
    /\ turns[t] < Rounds
    /\ LET target == IF turns[t] % 2 = 0 THEN pair[2] ELSE pair[1]
       IN  /\ at' = [at EXCEPT ![t] = target]
           /\ hops' = [hops EXCEPT ![t] = IF at[t] = target THEN @ ELSE @ + 1]
    /\ turns' = [turns EXCEPT ![t] = @ + 1]
    /\ UNCHANGED <<args, phase, trial, left, pair, here, start, results>>

ThreadsDone == phase = "sync" /\ \A t \in Threads : turns[t] = Rounds

\* cilk_sync, startnid = endnid, and results[src_nlet][dst_nlet] += cycles, which
\* takes the main thread to wherever that row is.
Collect ==
    /\ ThreadsDone
    /\ here = start
    /\ results' = [results EXCEPT ![pair] = @ + 1]
    /\ phase' = "select"
    /\ here' \in Nodelets
    /\ Idle
    /\ UNCHANGED <<args, trial, left, pair, start>>

\* "start NODE_ID %ld end NODE_ID %ld", and exit.
Displaced ==
    /\ ThreadsDone
    /\ here # start
    /\ phase' = "displaced"
    /\ UNCHANGED <<args, trial, left, pair, here, start, threadVars, results>>

\* The end of a trial.
EndTrial ==
    /\ phase = "select"
    /\ left = {}
    /\ trial' = trial + 1
    /\ IF trial + 1 < args.num_trials
       THEN left' = Pairs /\ UNCHANGED phase
       ELSE phase' = "finished" /\ UNCHANGED left
    /\ UNCHANGED <<args, pair, here, start, threadVars, results>>

MainStep == SelectPair \/ Spawn \/ Collect \/ Displaced \/ EndTrial

Ended == phase \in {"finished", "displaced"}

PingPongNext == \/ MainStep
                \/ \E t \in Threads : Migrate(t)
                \/ Ended /\ UNCHANGED pingPongVars

PingPongSpec == PingPongInit /\ [][PingPongNext]_pingPongVars

MostThreads == CHOOSE k \in {a.num_threads : a \in Arguments} :
                   \A a \in Arguments : a.num_threads <= k

\* Fairness: the main thread and each other thread keep executing.
PingPongFairSpec == /\ PingPongSpec
                    /\ WF_pingPongVars(MainStep)
                    /\ \A t \in 0..MostThreads-1 : WF_pingPongVars(t \in Threads /\ Migrate(t))

-----------------------------------------------------------------------------
(* Properties *)

\* What is added to the results is the time of real migrations: every thread has left
\* the nodelet it was on num_migrations times (so that it has not started on the
\* destination, where the first MIGRATE would be none) and is back on the source,
\* although the main thread and with it the start of the threads may be anywhere.
MeasuresMigrations ==
    [][results' # results =>
          \A t \in Threads : hops[t] = args.num_migrations /\ at[t] = pair[1]]_pingPongVars

\* Every run ends.  "ping_pong doesn't work" only if the build takes the main thread
\* off a source other than nodelet 0; all other runs end with every pair that was
\* asked for measured once in each trial, in one direction only if all pairs were,
\* and no other pair.
EndsExactly ==
    <>(\/ phase = "displaced" /\ args.spills /\ start # 0
       \/ /\ phase = "finished"
          /\ \A p \in Nodelets \X Nodelets :
                LET back == results[<<p[2], p[1]>>]
                IN  IF args.src < 0 /\ args.dst < 0
                    THEN results[p] + back = (IF p[1] = p[2] THEN 0 ELSE args.num_trials)
                    ELSE results[p] = IF p[1] # p[2] /\ Given(args.src, p[1])
                                                     /\ Given(args.dst, p[2])
                                      THEN args.num_trials ELSE 0)
=============================================================================
