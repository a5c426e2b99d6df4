----------------------------- MODULE BlockPool -----------------------------
(***************************************************************************)
(* What a thread-safe allocator over a pool of equal blocks promises: a    *)
(* block that is handed out is taken from the pool, so nobody gets it a    *)
(* second time, and alloc() fails only when nothing is left in the pool.   *)
(***************************************************************************)
CONSTANTS Threads, \* the threads that allocate
          Blocks   \* the blocks of the pool

VARIABLES owned,   \* the blocks handed out to each thread
          failed   \* has an alloc() failed?

vars == <<owned, failed>>

Free == Blocks \ UNION {owned[t] : t \in Threads}

Init == /\ owned = [t \in Threads |-> {}]
        /\ failed = FALSE

(* alloc() takes block b for t. *)
Alloc(t, b) == /\ b \in Free
               /\ owned' = [owned EXCEPT ![t] = @ \cup {b}]
               /\ UNCHANGED failed

(* alloc() finds the pool exhausted. *)
Fail == /\ Free = {}
        /\ failed' = TRUE
        /\ UNCHANGED owned

(* A fresh allocator replaces the old one. *)
Recreate == /\ owned' = [t \in Threads |-> {}]
            /\ UNCHANGED failed

Next == \/ \E t \in Threads, b \in Blocks : Alloc(t, b)
        \/ Fail
        \/ Recreate

Spec == Init /\ [][Next]_vars
=============================================================================
