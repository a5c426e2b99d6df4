------------------------------ MODULE MCStream ------------------------------
EXTENDS Stream

Command(program, mode, n, num_threads, nodelets, reload) ==
    [program |-> program, mode |-> mode, n |-> n, num_threads |-> num_threads,
     num_trials |-> 2, target |-> nodelets - 1, nodelets |-> nodelets,
     reload |-> reload, default_grain |-> reload]

ModesOf(program) == DOMAIN LoopsOf[program] \union {"unknown"}

\* Command lines that are refused, each for one reason; local_stream_cxx does not see
\* the last one.
BadCommands(program) ==
    LET good == Command(program, "serial", 4, 1, 2, TRUE)
    IN  {[good EXCEPT !.n = 1], [good EXCEPT !.num_threads = 0],
         [good EXCEPT !.target = 2], [good EXCEPT !.target = -1],
         [good EXCEPT !.num_trials = 0]}

\* Every mode of every program on 2 nodelets, with 1 and 2 threads and with more than
\* there are elements, with either kind of loop bound and of library; the serial loops
\* on 1 nodelet, and with 2 elements; and the refused ones.
StreamArguments ==
    UNION {{Command(program, mode, 4, p, 2, reload) :
                mode \in ModesOf(program), p \in {1, 2, 5}, reload \in BOOLEAN} :
            program \in Programs}
        \union {Command(program, "serial", n, 1, m, TRUE) :
                   program \in Programs, n \in {2, 4}, m \in {1, 2}}
        \union UNION {BadCommands(program) : program \in Programs}
=============================================================================
