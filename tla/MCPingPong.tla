----------------------------- MODULE MCPingPong -----------------------------
EXTENDS PingPong

Command(src, dst, num_migrations, num_threads, num_trials, spills) ==
    [src |-> src, dst |-> dst, num_migrations |-> num_migrations, nodelets |-> 3,
     num_threads |-> num_threads, num_trials |-> num_trials, spills |-> spills]

\* Every combination of source and destination on 3 nodelets with 2 threads; two
\* rounds of migrations, and 3 threads, for one pair.
PingPongArguments ==
    {Command(src, dst, 4, 2, 2, spills) :
        src \in -1..2, dst \in -1..2, spills \in BOOLEAN}
    \union {Command(1, 2, 8, 3, 1, FALSE), Command(0, 1, 8, 3, 1, TRUE)}
=============================================================================
